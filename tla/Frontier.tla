------------------------------ MODULE Frontier ------------------------------
(***************************************************************************)
(* The crawl frontier, crawler::Scheduler (src/src/scheduler/scheduler.h,  *)
(* scheduler.cpp): a std::priority_queue of CrawlTask ordered by priority  *)
(* alone, and a per-host map domain_backoff_ of the earliest time a host   *)
(* may be contacted again.                                                 *)
(*                                                                         *)
(* The queue is the vector under the std::priority_queue, kept as a      *)
(* binary heap by libstdc++'s push_heap and pop_heap with                  *)
(* CrawlTask::operator<, which compares the priority alone.  Among tasks  *)
(* of equal priority the top is fixed by the order of the pushes and pops  *)
(* that built the vector, so the model keeps the vector and runs the       *)
(* heap algorithms on it.                                                  *)
(*                                                                         *)
(* The steady clock is the variable now, in ticks.  The counters           *)
(* total_scheduled_, total_completed_ and total_failed_ are statistics     *)
(* read by nothing in the crawl and are left out; so is task_callback_,    *)
(* which no caller sets.                                                   *)
(***************************************************************************)
EXTENDS Integers, Sequences, SequencesExt

CONSTANTS
    Urls,             \* canonical URLs that UrlUtils::is_valid accepts
    Hosts,            \* what UrlUtils::extract_domain returns
    HostOf,           \* [Urls -> Hosts], UrlUtils::extract_domain
    Priorities,       \* the priorities callers pass to add_url
    RetryBackoff,     \* retry_backoff_ms_, in ticks
    PolitenessDelay,  \* the 1 second of update_domain_backoff, in ticks
    MaxTime           \* bound on the clock

ASSUME HostOf \in [Urls -> Hosts]
ASSUME 0 \in Priorities /\ Priorities \subseteq Int
ASSUME RetryBackoff \in Nat /\ PolitenessDelay \in Nat /\ MaxTime \in Nat

VARIABLES
    queue,    \* the vector of task_queue_, a heap of Task
    backoff,  \* domain_backoff_; 0 stands for "no entry", which no clock
              \* reading is below
    now       \* std::chrono::steady_clock::now()

frontierVars == <<queue, backoff, now>>

Task == [url: Urls, priority: Priorities, retry: {0, 1},
         ready: 0..(MaxTime + RetryBackoff)]

TypeOK ==
    /\ \A i \in DOMAIN queue : queue[i] \in Task
    /\ backoff \in [Hosts -> 0..(MaxTime + PolitenessDelay)]
    /\ now \in 0..MaxTime

\* Scheduler() with an empty task_queue_ and domain_backoff_.
Init ==
    /\ queue = <<>>
    /\ backoff = [h \in Hosts |-> 0]
    /\ now = 0

\* The task add_url builds: retry_count 0, next_retry_time = now.
NewTask(u, p) == [url |-> u, priority |-> p, retry |-> 0, ready |-> now]

(***************************************************************************)
(* The heap algorithms of libstdc++ on the vector v, whose index i holds  *)
(* the element at offset i - 1.  A task is less than another when its     *)
(* priority is lower.                                                      *)
(*                                                                         *)
(* __push_heap: the hole at offset hole moves up while its parent is less *)
(* than x, then takes x.                                                   *)
(***************************************************************************)
RECURSIVE SiftUp(_, _, _)
SiftUp(v, hole, x) ==
    LET parent == (hole - 1) \div 2
    IN  IF hole > 0 /\ v[parent + 1].priority < x.priority
        THEN SiftUp([v EXCEPT ![hole + 1] = v[parent + 1]], parent, x)
        ELSE [v EXCEPT ![hole + 1] = x]

\* task_queue_.push(x): push_back, then push_heap from the last offset.
Push(v, x) == SiftUp(Append(v, x), Len(v), x)

\* The loop of __adjust_heap over the first len elements: the hole moves
\* down to its larger child, the right one unless it is less than the left.
RECURSIVE SiftDown(_, _, _)
SiftDown(v, hole, len) ==
    IF hole < (len - 1) \div 2
    THEN LET right == 2 * (hole + 1)
             child == IF v[right + 1].priority < v[right].priority
                      THEN right - 1 ELSE right
         IN  SiftDown([v EXCEPT ![hole + 1] = v[child + 1]], child, len)
    ELSE <<v, hole>>

(***************************************************************************)
(* task_queue_.pop(): pop_heap takes the last element x out, moves the   *)
(* hole down from the top of the other len elements (into a lone left     *)
(* child at the end when len is even), pushes x up from there, and        *)
(* pop_back drops the old top.  A heap of one element is just emptied.    *)
(***************************************************************************)
Pop(v) ==
    LET len  == Len(v) - 1
        down == SiftDown(SubSeq(v, 1, len), 0, len)
        hole == down[2]
        last == IF len % 2 = 0 /\ hole = (len - 2) \div 2
                THEN <<[down[1] EXCEPT ![hole + 1] = down[1][2 * hole + 2]],
                       2 * hole + 1>>
                ELSE down
    IN  IF len = 0 THEN <<>> ELSE SiftUp(last[1], last[2], v[len + 1])

\* task_queue_.top()
Top == queue[1]

\* add_url(url, priority) on the vector v: a URL that is_valid rejects
\* (anything outside Urls) is refused and not queued.
AddUrlTo(v, u, p) == IF u \in Urls THEN Push(v, NewTask(u, p)) ELSE v

AddUrl(u, p) ==
    /\ queue' = AddUrlTo(queue, u, p)
    /\ UNCHANGED <<backoff, now>>

\* can_fetch_domain: no entry, or the clock has reached it.
CanFetchDomain(h) == now >= backoff[h]

\* get_next_task returns true: the queue is not empty, the top task is due
\* and its host is out of its politeness window, so it stays popped.
GetNextTask ==
    /\ queue # <<>>
    /\ now >= Top.ready
    /\ CanFetchDomain(HostOf[Top.url])
    /\ queue' = Pop(queue)
    /\ UNCHANGED <<backoff, now>>

\* get_next_task returns false with a non-empty queue: the top task is not
\* due yet, or its host is inside its politeness window; it is popped and
\* pushed back, which may move it within the heap.  (With an empty queue
\* and running_ set, get_next_task sleeps in its loop and does not return.)
NoTaskReady ==
    /\ queue # <<>>
    /\ now < Top.ready \/ ~CanFetchDomain(HostOf[Top.url])
    /\ queue' = Push(Pop(queue), Top)
    /\ UNCHANGED <<backoff, now>>

\* mark_completed: only counters and the unset callback.
MarkCompleted(u) == UNCHANGED frontierVars

\* mark_failed(url, will_retry).  Without a retry only total_failed_ moves.
\* update_domain_backoff(domain): the host's window closes one second,
\* PolitenessDelay ticks, from now.
UpdateDomainBackoff(h) == backoff' = [backoff EXCEPT ![h] = now + PolitenessDelay]

\* With one, a fresh task is pushed with retry_count 1 whatever the count
\* was, the default priority 0, and next_retry_time now + retry_backoff_ms_;
\* then the host's politeness window is opened by update_domain_backoff.
MarkFailed(u, willRetry) ==
    \/ /\ ~willRetry
       /\ UNCHANGED frontierVars
    \/ /\ willRetry
       /\ queue' = Push(queue, [url |-> u, priority |-> 0, retry |-> 1,
                                ready |-> now + RetryBackoff])
       /\ UpdateDomainBackoff(HostOf[u])
       /\ UNCHANGED now

\* The steady clock advances.
Tick ==
    /\ now < MaxTime
    /\ now' = now + 1
    /\ UNCHANGED <<queue, backoff>>

\* Any caller, calling any operation with any argument.
Next ==
    \/ \E u \in Urls, p \in Priorities : AddUrl(u, p)
    \/ GetNextTask
    \/ NoTaskReady
    \/ \E u \in Urls, w \in BOOLEAN : MarkFailed(u, w)
    \/ Tick

Spec == Init /\ [][Next]_frontierVars

=============================================================================
