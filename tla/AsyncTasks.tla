----------------------------- MODULE AsyncTasks -----------------------------
(***************************************************************************)
(* Asynchronous tasks (video and music generation): the task rows, the     *)
(* polling loop every master process runs over them, the timeout sweep,    *)
(* a user's realtime fetch, and the refund or settlement of the quota a    *)
(* task was charged when it was submitted (controller/relay.go RelayTask,  *)
(* service/task_polling.go, service/task_billing.go, relay/relay_task.go,  *)
(* model/task.go).                                                         *)
(*                                                                         *)
(* A poller works on copies of the rows that it read at the start of the   *)
(* cycle; each access of the database, each answer of the upstream and     *)
(* each billing call is a step of its own, so pollers, fetches and crashes *)
(* interleave at exactly those points.                                     *)
(***************************************************************************)
EXTENDS Integers, FiniteSets

CONSTANTS VideoTasks,     \* polled one by one, written by compare-and-swap
          GeminiTasks,    \* ... and a user's fetch also asks the upstream
          SunoTasks,      \* polled in a batch, saved unconditionally
          Pollers,        \* processes that run TaskPollingLoop
          Fetchers,       \* requests of users for the state of a task, each made once
          NoTask,
          Quotas,         \* quota a task may be charged when submitted
          SettleAmounts,  \* actual quota found on completion, 0 for none
          LegacyTasks,    \* submitted before legacyTaskCutoff
          TaskTimeout,    \* TaskTimeoutMinutes > 0
          MaxTasks,       \* bound: tasks submitted
          MaxExtra,         \* bound: answers that say more than a status
          Faults          \* which failures happen

Tasks == VideoTasks \cup GeminiTasks \cup SunoTasks

AllFaults == {"crash", "db", "fund", "token", "channel", "garbled", "settle", "insert"}

ASSUME TasksAssumption ==
    /\ NoTask \notin Tasks
    /\ VideoTasks \cap SunoTasks = {} /\ GeminiTasks \cap SunoTasks = {}
    /\ VideoTasks \cap GeminiTasks = {}
    /\ Quotas \subseteq Nat
    /\ SettleAmounts \subseteq Nat
    /\ LegacyTasks \subseteq Tasks
    /\ TaskTimeout \in BOOLEAN
    /\ MaxTasks \in Nat
    /\ MaxExtra \in Nat
    /\ Faults \subseteq AllFaults

VARIABLES tasks,     \* the rows of the tasks table
          overdue,   \* submit_time lies before the timeout's cutoff
          upstream,  \* what the provider answers for the task
          extras,    \* how many answers said more than a status
          poller,    \* the state of each polling loop
          fetch,     \* the state of each user's fetch
          charged,   \* net quota the task has taken from wallet or subscription
          tokenUsed  \* ... and from the token

vars == <<tasks, overdue, upstream, extras, poller, fetch, charged, tokenUsed>>

\* NOT_START, SUBMITTED, QUEUED and IN_PROGRESS are all unfinished and are
\* told apart only by the compare-and-swap: two of them are enough for it.
Status == {"none", "NOT_START", "IN_PROGRESS", "SUCCESS", "FAILURE"}

Finished == {"SUCCESS", "FAILURE"}

\* complete is progress = 100%.
Row == [status : Status, complete : BOOLEAN, quota : Nat]

NoRow == [status |-> "none", complete |-> FALSE, quota |-> 0]

PollerType == [phase  : {"sweep", "poll"},
               step   : {"next", "update", "bill", "save"},
               todo   : SUBSET Tasks,
               seen   : [Tasks -> Row],
               task   : Tasks \cup {NoTask},
               result : Status,
               extra  : {"none", "progress", "reason", "data"},
               bill   : {"none", "refund", "settle"}]

Asleep == [phase |-> "poll", step |-> "next", todo |-> {}, seen |-> [t \in Tasks |-> NoRow],
           task |-> NoTask, result |-> "none", extra |-> "none", bill |-> "none"]

FetchType == [task : Tasks \cup {NoTask}, seen : Row, done : BOOLEAN]

NoFetch == [task |-> NoTask, seen |-> NoRow, done |-> FALSE]

TypeOK ==
    /\ tasks \in [Tasks -> Row]
    /\ overdue \in [Tasks -> BOOLEAN]
    /\ upstream \in [Tasks -> Status]
    /\ extras \in 0..MaxExtra
    /\ poller \in [Pollers -> PollerType]
    /\ fetch \in [Fetchers -> FetchType]
    /\ charged \in [Tasks -> Int]
    /\ tokenUsed \in [Tasks -> Int]

Init ==
    /\ tasks = [t \in Tasks |-> NoRow]
    /\ overdue = [t \in Tasks |-> FALSE]
    /\ upstream = [t \in Tasks |-> "none"]
    /\ extras = 0
    /\ poller = [p \in Pollers |-> Asleep]
    /\ fetch = [f \in Fetchers |-> NoFetch]
    /\ charged = [t \in Tasks |-> 0]
    /\ tokenUsed = [t \in Tasks |-> 0]

\* Mutant: only tasks that have not started are looked at.
UnfinishedRow_NotStarted(r) == r.status = "NOT_START" /\ ~r.complete

UnfinishedRow(r) == r.status \notin Finished \cup {"none"} /\ ~r.complete

Unfinished == {t \in Tasks : UnfinishedRow(tasks[t])}
-----------------------------------------------------------------------------
(***************************************************************************)
(* RelayTask, once the upstream has accepted the task: SettleBilling, then *)
(* the row is inserted.  Errors of both are only logged, so the hold c may *)
(* stay what the user has paid while the row says q, or there is no row.   *)
(***************************************************************************)

Submit(t, q, c, inserted) ==
    /\ tasks[t].status = "none" /\ upstream[t] = "none"
    /\ Cardinality({u \in Tasks : upstream[u] # "none"}) < MaxTasks
    /\ c # q => "settle" \in Faults
    /\ ~inserted => "insert" \in Faults
    /\ tasks' = [tasks EXCEPT ![t] = IF inserted
                                     THEN [NoRow EXCEPT !.status = "NOT_START", !.quota = q]
                                     ELSE NoRow]
    /\ upstream' = [upstream EXCEPT ![t] = "IN_PROGRESS"]
    /\ charged' = [charged EXCEPT ![t] = c]
    /\ tokenUsed' = [tokenUsed EXCEPT ![t] = c]
    /\ UNCHANGED <<overdue, extras, poller, fetch>>

\* The provider finishes the task; its answer then stays the same.
Upstream(t, s) ==
    /\ upstream[t] = "IN_PROGRESS"
    /\ upstream' = [upstream EXCEPT ![t] = s]
    /\ UNCHANGED <<tasks, overdue, extras, poller, fetch, charged, tokenUsed>>

\* The task becomes older than TaskTimeoutMinutes.
TimePasses(t) ==
    /\ tasks[t].status # "none" /\ ~overdue[t]
    /\ overdue' = [overdue EXCEPT ![t] = TRUE]
    /\ UNCHANGED <<tasks, upstream, extras, poller, fetch, charged, tokenUsed>>
-----------------------------------------------------------------------------
(***************************************************************************)
(* One cycle of TaskPollingLoop: read the overdue tasks and fail them one  *)
(* by one, then read the unfinished ones and ask the upstream about each.  *)
(* The copies in "seen" are as old as the read.                            *)
(***************************************************************************)

CopyOf(todo) == [t \in Tasks |-> IF t \in todo THEN tasks[t] ELSE NoRow]

Read(p, phase, todo) ==
    poller' = [poller EXCEPT ![p] = [Asleep EXCEPT !.phase = phase, !.todo = todo,
                                                   !.seen = CopyOf(todo)]]

Ready(p, phase) == poller[p].phase = phase /\ poller[p].step = "next"

GetTimedOutUnfinishedTasks(p) ==
    /\ Ready(p, "poll") /\ poller[p].todo = {}
    /\ Read(p, "sweep", {t \in Unfinished : TaskTimeout /\ overdue[t]})
    /\ UNCHANGED <<tasks, overdue, upstream, extras, fetch, charged, tokenUsed>>

GetAllUnFinishSyncTasks(p) ==
    /\ Ready(p, "sweep") /\ poller[p].todo = {}
    /\ Read(p, "poll", Unfinished)
    /\ UNCHANGED <<tasks, overdue, upstream, extras, fetch, charged, tokenUsed>>

\* What p holds once it is done with the task, or has to bill or save it.
Then(p, t, step, bill) ==
    IF step = "next"
    THEN [poller[p] EXCEPT !.step = "next", !.todo = @ \ {t}, !.seen[t] = NoRow,
                           !.task = NoTask, !.result = "none", !.extra = "none", !.bill = "none"]
    ELSE [poller[p] EXCEPT !.step = step, !.task = t, !.bill = bill]

Continue(p, t, step, bill) == poller' = [poller EXCEPT ![p] = Then(p, t, step, bill)]

\* Mutant: the UPDATE is not conditional on the status that was read.
SwapApplies_Always(t, from) == tasks[t].status # "none"

\* UpdateWithStatus(from): the row is written only if its status is still the
\* one that was read.
SwapApplies(t, from) == tasks[t].status = from

\* The columns written: the copy with the new status and progress.
Moved(row, status, complete) == [row EXCEPT !.status = status, !.complete = complete]

\* Mutant: a task that has failed is not refunded.
BillOf_NoRefund(row, status, won) ==
    IF won /\ status = "SUCCESS" THEN "settle" ELSE "none"

\* Only the process whose write won bills the task, and only for a final
\* status; a refund of nothing is left out.
BillOf(row, status, won) ==
    CASE won /\ status = "FAILURE" /\ row.quota # 0 -> "refund"
      [] won /\ status = "SUCCESS" -> "settle"
      [] OTHER -> "none"

\* The compare-and-swap of p's copy to the new status and progress, and what
\* is billed after it.  An error of the database leaves the row and skips the
\* billing.
SwapAndBill(p, t, status, complete, legacy) ==
    LET row == poller[p].seen[t]
    IN  \E won \in {SwapApplies(t, row.status)}
                   \cup (IF "db" \in Faults THEN {FALSE} ELSE {}) :
            LET bill == IF legacy THEN "none" ELSE BillOf(row, status, won)
            IN  /\ tasks' = IF won THEN [tasks EXCEPT ![t] = Moved(row, status, complete)]
                           ELSE tasks
                /\ Continue(p, t, IF bill = "none" THEN "next" ELSE "bill", bill)

\* A task of the older system is failed without a refund.
sweepTimedOutTask(p, t) ==
    /\ Ready(p, "sweep") /\ t \in poller[p].todo
    /\ SwapAndBill(p, t, "FAILURE", TRUE, t \in LegacyTasks)
    /\ UNCHANGED <<overdue, upstream, extras, fetch, charged, tokenUsed>>

\* The channel of the task no longer exists: TaskBulkUpdateByID, with neither
\* a condition nor a refund.
ChannelMissing(p, t) ==
    /\ "channel" \in Faults
    /\ Ready(p, "poll") /\ t \in poller[p].todo
    /\ tasks' = [tasks EXCEPT ![t] = [@ EXCEPT !.status = "FAILURE", !.complete = TRUE]]
    /\ Continue(p, t, "next", "none")
    /\ UNCHANGED <<overdue, upstream, extras, fetch, charged, tokenUsed>>

\* FetchTask: the answer is the provider's state of the task.  An answer to
\* a video task that cannot be understood counts as a failure of the task.
FetchTask(p, t) ==
    /\ Ready(p, "poll") /\ t \in poller[p].todo
    /\ \E r \in {upstream[t]} \cup (IF "garbled" \in Faults /\ t \notin SunoTasks
                                    THEN {"FAILURE"} ELSE {}) :
          poller' = [poller EXCEPT ![p].step = "update", ![p].task = t, ![p].result = r]
    /\ UNCHANGED <<tasks, overdue, upstream, extras, fetch, charged, tokenUsed>>

\* What an answer may say beside the status: to a video task a progress that
\* does not fit it; to a Suno task a reason of failure, or new times and data.
ExtrasOf(t) == IF t \in SunoTasks THEN {"reason", "data"} ELSE {"progress"}

\* A Suno answer without a status leaves the copy's.
FetchTaskExtra(p, t) ==
    /\ Ready(p, "poll") /\ t \in poller[p].todo
    /\ extras < MaxExtra /\ extras' = extras + 1
    /\ \E e \in ExtrasOf(t),
          r \in {upstream[t]} \cup (IF t \in SunoTasks THEN {poller[p].seen[t].status} ELSE {}) :
          poller' = [poller EXCEPT ![p].step = "update", ![p].task = t, ![p].result = r,
                                   ![p].extra = e]
    /\ UNCHANGED <<tasks, overdue, upstream, fetch, charged, tokenUsed>>

\* The request failed: the task waits for the next cycle.
FetchTaskFails(p, t) ==
    /\ Ready(p, "poll") /\ t \in poller[p].todo
    /\ "garbled" \in Faults
    /\ Continue(p, t, "next", "none")
    /\ UNCHANGED <<tasks, overdue, upstream, extras, fetch, charged, tokenUsed>>

\* The progress of the answer replaces the one that goes with the status,
\* except for a failure.
VideoComplete(status, extra) ==
    status = "FAILURE" \/ (status = "SUCCESS" <=> extra # "progress")

\* An answer that changes nothing is not written.
updateVideoSingleTask(p) ==
    LET t == poller[p].task
        status == poller[p].result
    IN  /\ poller[p].step = "update" /\ t \notin SunoTasks
        /\ SwapAndBill(p, t, status, VideoComplete(status, poller[p].extra), FALSE)
        /\ UNCHANGED <<overdue, upstream, extras, fetch, charged, tokenUsed>>

\* The refund of a failed Suno task, or of one with a reason of failure whatever
\* its status, comes before the row is saved.  An answer that changes nothing
\* (taskNeedsUpdate) is not saved.
updateSunoTask(p) ==
    LET t == poller[p].task
        status == poller[p].result
        extra == poller[p].extra
    IN  /\ poller[p].step = "update" /\ t \in SunoTasks
        /\ CASE status = "FAILURE" \/ extra = "reason" -> Continue(p, t, "bill", "refund")
             [] status = poller[p].seen[t].status /\ extra = "none" -> Continue(p, t, "next", "none")
             [] OTHER -> Continue(p, t, "save", "none")
        /\ UNCHANGED <<tasks, overdue, upstream, extras, fetch, charged, tokenUsed>>

SunoComplete(status, extra) == extra = "reason" \/ status \in Finished

\* task.Update(): the whole copy is saved whatever the row has become.
SaveSunoTask(p) ==
    LET t == poller[p].task
        status == poller[p].result
    IN  /\ poller[p].step = "save"
        /\ \/ tasks' = [tasks EXCEPT ![t] = Moved(poller[p].seen[t], status,
                                                  SunoComplete(status, poller[p].extra))]
           \/ "db" \in Faults /\ UNCHANGED tasks
        /\ Continue(p, t, "next", "none")
        /\ UNCHANGED <<overdue, upstream, extras, fetch, charged, tokenUsed>>
-----------------------------------------------------------------------------
(***************************************************************************)
(* RefundTaskQuota and RecalculateTaskQuota: the funding source first, and *)
(* if that succeeds the token.  Neither is retried.                        *)
(***************************************************************************)

\* Mutant: the settlement charges the actual quota on top of the first charge.
QuotaDelta_Full(row, bill, actual) ==
    IF bill = "refund" THEN -row.quota ELSE actual

QuotaDelta(row, bill, actual) ==
    CASE bill = "refund" -> -row.quota
      [] actual = 0 -> 0
      [] OTHER -> actual - row.quota

Bill(p) ==
    LET t == poller[p].task
        b == poller[p].bill
    IN  /\ poller[p].step = "bill"
        /\ \E actual \in IF b = "settle" THEN SettleAmounts ELSE {0},
              funded \in {TRUE} \cup (IF "fund" \in Faults THEN {FALSE} ELSE {}),
              tokened \in {TRUE} \cup (IF "token" \in Faults THEN {FALSE} ELSE {}) :
              LET delta == QuotaDelta(poller[p].seen[t], b, actual)
              IN  /\ charged' = IF funded THEN [charged EXCEPT ![t] = @ + delta] ELSE charged
                  /\ tokenUsed' = IF funded /\ tokened
                                  THEN [tokenUsed EXCEPT ![t] = @ + delta] ELSE tokenUsed
        /\ Continue(p, t, IF t \in SunoTasks /\ poller[p].phase = "poll" THEN "save" ELSE "next",
                    "none")
        /\ UNCHANGED <<tasks, overdue, upstream, extras, fetch>>

\* The process dies and is started again.
Crash(p) ==
    /\ "crash" \in Faults
    /\ poller[p] # Asleep
    /\ poller' = [poller EXCEPT ![p] = Asleep]
    /\ UNCHANGED <<tasks, overdue, upstream, extras, fetch, charged, tokenUsed>>
-----------------------------------------------------------------------------
(***************************************************************************)
(* tryRealtimeFetch: a user asks for a Gemini or Vertex task.  Its row is  *)
(* read, the upstream asked, and the answer written by compare-and-swap.   *)
(* Nothing is billed.                                                      *)
(***************************************************************************)

FetchByID(f, t) ==
    /\ fetch[f] = NoFetch
    /\ t \in GeminiTasks /\ tasks[t].status # "none"
    /\ fetch' = [fetch EXCEPT ![f] = [NoFetch EXCEPT !.task = t, !.seen = tasks[t]]]
    /\ UNCHANGED <<tasks, overdue, upstream, extras, poller, charged, tokenUsed>>

tryRealtimeFetch(f) ==
    LET t == fetch[f].task
        row == fetch[f].seen
    IN  /\ t # NoTask
        /\ tasks' = IF SwapApplies(t, row.status)
                    THEN [tasks EXCEPT ![t] = Moved(row, upstream[t], upstream[t] \in Finished)]
                    ELSE tasks
        /\ fetch' = [fetch EXCEPT ![f] = [NoFetch EXCEPT !.done = TRUE]]
        /\ UNCHANGED <<overdue, upstream, extras, poller, charged, tokenUsed>>
-----------------------------------------------------------------------------
PollerStep(p) ==
    \/ GetTimedOutUnfinishedTasks(p)
    \/ GetAllUnFinishSyncTasks(p)
    \/ \E t \in Tasks : sweepTimedOutTask(p, t) \/ FetchTask(p, t)
    \/ updateVideoSingleTask(p)
    \/ updateSunoTask(p)
    \/ SaveSunoTask(p)
    \/ Bill(p)

Next ==
    \/ \E t \in Tasks, q \in Quotas, c \in Quotas, b \in BOOLEAN : Submit(t, q, c, b)
    \/ \E t \in Tasks, s \in Finished : Upstream(t, s)
    \/ \E t \in Tasks : TimePasses(t)
    \/ \E p \in Pollers : PollerStep(p)
    \/ \E p \in Pollers, t \in Tasks :
          ChannelMissing(p, t) \/ FetchTaskFails(p, t) \/ FetchTaskExtra(p, t)
    \/ \E p \in Pollers : Crash(p)
    \/ \E f \in Fetchers, t \in Tasks : FetchByID(f, t)
    \/ \E f \in Fetchers : tryRealtimeFetch(f)

Spec == Init /\ [][Next]_vars

\* Time passes, and every loop goes on: it sleeps between cycles and gets an
\* answer or an error from each request.  Nothing makes a provider finish a
\* task or a user ask for one.
Fairness ==
    /\ \A t \in Tasks : WF_vars(TimePasses(t))
    /\ \A p \in Pollers : WF_vars(PollerStep(p))
    /\ \A f \in Fetchers : WF_vars(tryRealtimeFetch(f))

FairSpec == Spec /\ Fairness
-----------------------------------------------------------------------------
(***************************************************************************)
(* Properties.                                                             *)
(***************************************************************************)

\* However many processes poll, sweep and crash, the quota taken for a task
\* that only the loop writes is given back at most once (the compare-and-swap
\* of sweepTimedOutTasks and updateVideoSingleTask before RefundTaskQuota).
NeverOverRefunded == \A t \in VideoTasks : charged[t] >= 0 /\ tokenUsed[t] >= 0

\* A video task that is shown as a success has been paid for: no sweep has
\* refunded it, and its settlement replaces the first charge instead of adding
\* to it (settleTaskBillingOnComplete, RecalculateTaskQuota).
SuccessIsPaidOnce ==
    \A t \in VideoTasks : tasks[t].status = "SUCCESS" =>
        charged[t] \in {tasks[t].quota} \cup (SettleAmounts \ {0})

\* Once a video task has ended, no process that still holds an older copy of
\* its row ends it differently or brings it back (UpdateWithStatus).
FinishedIsFinal ==
    [][\A t \in VideoTasks :
          tasks[t].status \in Finished => tasks'[t].status = tasks[t].status]_vars

\* If tasks time out at all, every submitted task ends, also one whose provider
\* never answers: the sweep fails it when it is overdue (sweepTimedOutTasks).  The
\* exception is a task whose answer set its progress to 100% with an unfinished
\* status (a provider's own progress, task_polling.go:469, or a Suno answer with a
\* reason of failure, task_polling.go:234): neither the loop nor the sweep selects
\* it again.
TasksEnd ==
    TaskTimeout => \A t \in Tasks : tasks[t].status \notin Finished \cup {"none"}
                                   ~> tasks[t].status \in Finished \/ tasks[t].complete

\* When the loop has failed a video task, its user gets back what it was charged
\* (BillOf's refund reaches RefundTaskQuota whichever process won the row), unless
\* it is a task of the older system.
FailuresRefunded ==
    \A t \in VideoTasks \ LegacyTasks : tasks[t].status = "FAILURE" ~> charged[t] = 0

\* The rows are well formed and, under crashes, failing statements, unreadable or odd
\* answers and deleted channels, a video task is refunded at most once and a
\* success is paid exactly once.
ChargesExact == TypeOK /\ NeverOverRefunded /\ SuccessIsPaidOnce
=============================================================================
