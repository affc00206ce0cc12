----------------------------- MODULE MCFrontier -----------------------------
(***************************************************************************)
(* The frontier on its own: callers add URLs and take tasks, all at the    *)
(* priority 0 that add_seed_urls and main's link loop use.  A history      *)
(* variable records the order in which add_url queued the URLs.  Each URL *)
(* is added only while it is not queued, so a queued task is named by its  *)
(* URL, and the queue is held to MaxQueue tasks.                           *)
(***************************************************************************)
EXTENDS Frontier, SequencesExt

CONSTANTS MaxQueue

VARIABLE admitted   \* the URLs add_url has queued, in the order it did

mcVars == <<queue, backoff, now, admitted>>

\* Every URL on the one host.
MCHostOf == [u \in Urls |-> CHOOSE h \in Hosts : TRUE]

MCInit == Init /\ admitted = <<>>

\* add_url(u, 0) for a URL that is not queued.
Add(u) ==
    /\ Len(queue) < MaxQueue
    /\ \A i \in DOMAIN queue : queue[i].url # u
    /\ AddUrl(u, 0)
    /\ admitted' = Append(admitted, u)

\* get_next_task returns a task.
Take ==
    /\ GetNextTask
    /\ UNCHANGED admitted

MCNext == (\E u \in Urls : Add(u)) \/ Take

MCSpec == MCInit /\ [][MCNext]_mcVars

\* When u was last queued.
AdmittedAt(u) == SelectLastInSeq(admitted, LAMBDA x : x = u)

(***************************************************************************)
(* Spec 4.3: the frontier is a max-heap on priority with ties broken by   *)
(* earliest admission, so get_next_task returns, among the queued tasks   *)
(* of the top priority, the one queued first.  The code's                  *)
(* std::priority_queue orders CrawlTask by priority alone, and pop_heap    *)
(* moves the hole to the right child on a tie, which reorders tasks of    *)
(* equal priority.                                                         *)
(***************************************************************************)
EarliestAdmittedFirst ==
    [][Take =>
         \A i \in DOMAIN queue :
            queue[i].priority = Top.priority
               => AdmittedAt(Top.url) <= AdmittedAt(queue[i].url)]_mcVars

=============================================================================
