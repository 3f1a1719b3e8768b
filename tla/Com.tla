-------------------------------- MODULE Com --------------------------------
(***************************************************************************)
(* The life of a com_t, the end of the path to userland that each half     *)
(* has: com_init, messages, com_close.                                     *)
(*                                                                         *)
(* The owner is the thread that loads or unloads the module.  A datagram   *)
(* interrupts: the callback of the socket queues a work item, on the       *)
(* workqueue of the CPU the interrupt came to; there the item takes a      *)
(* datagram into com->msg, of which there is one, and handles it.  Nothing *)
(* locks com_t.                                                            *)
(*                                                                         *)
(* A step that uses a field that is not set, or memory that was freed,     *)
(* records it in "bad" and ends the behaviour.  A message is one datagram, *)
(* as udp_send makes it.  A datagram shorter than the size it states is    *)
(* noise that makes udp_recv take the datagrams after it for its rest.     *)
(***************************************************************************)
EXTENDS Naturals, Sequences, FiniteSets, SequencesExt

CONSTANTS Cpus,         \* the CPUs that handle interrupts
          MaxDatagrams, \* bound: datagrams that arrive
          Faults        \* the faults that may happen, see FaultKinds

FaultKinds == {
    "init",   \* the socket cannot be created, bound or allocated
    "alloc",  \* a work item cannot be allocated
    "noise"   \* a datagram is not a message, or only the beginning of one
}

ASSUME ComAssumption ==
    /\ IsFiniteSet(Cpus)
    /\ MaxDatagrams \in Nat
    /\ Faults \subseteq FaultKinds

VARIABLES
    role,    \* "server" (gadget): bound to a port; "client" (driver)
    owner,   \* where the owner is in com_init, com_close
    state,   \* com->state: "unset", "set" or "null"
    wq,      \* com->wq: "unset", "up" or "destroyed"
    sock,    \* the socket: "none", "open", "reachable" or "released"
    rx,      \* datagrams waiting in the socket, numbered in order of arrival
    arrived, \* number of datagrams so far
    noise,   \* those that are not messages
    items,   \* work items queued on each CPU
    at,      \* the worker of each CPU: "idle", "filling" (in the loop of udp_recv),
             \* "received" one datagram or "filled" with several
    msg,     \* com->msg: the datagram it holds, or 0
    handled, \* messages given to cb_recv, in order
    late,    \* work items that could not be allocated
    mixed,   \* history: has a worker received while another one was at it
    swallowed, \* history: datagrams that were taken for the rest of another one
    bad      \* "none", "state", "wq" or "com"

fields  == <<role, state, wq>>
socket  == <<sock, rx, arrived, noise>>
workers == <<items, at, msg, handled>>
history == <<late, mixed, swallowed>>
vars    == <<fields, owner, socket, workers, history, bad>>

Datagrams == 1..MaxDatagrams
Drained   == \A c \in Cpus : items[c] = 0 /\ at[c] = "idle"

TypeOK ==
    /\ role \in {"server", "client"}
    /\ owner \in {"start", "socket", "state", "open", "drained", "released",
                  "failed", "closed"}
    /\ state \in {"unset", "set", "null"}
    /\ wq \in {"unset", "up", "destroyed"}
    /\ sock \in {"none", "open", "reachable", "released"}
    /\ rx \in Seq(Datagrams) /\ handled \in Seq(Datagrams)
    /\ arrived \in 0..MaxDatagrams /\ noise \subseteq Datagrams
    /\ items \in [Cpus -> 0..MaxDatagrams]
    /\ at \in [Cpus -> {"idle", "filling", "received", "filled"}]
    /\ msg \in 0..MaxDatagrams
    /\ late \in 0..MaxDatagrams
    /\ mixed \in BOOLEAN /\ swallowed \in Seq(Datagrams)
    /\ bad \in {"none", "state", "wq", "com"}

Init ==
    /\ role \in {"server", "client"}
    /\ owner = "start"
    /\ state = "unset" /\ wq = "unset"
    /\ sock = "none" /\ rx = <<>> /\ arrived = 0 /\ noise = {}
    /\ items = [c \in Cpus |-> 0] /\ at = [c \in Cpus |-> "idle"]
    /\ msg = 0 /\ handled = <<>>
    /\ late = 0 /\ mixed = FALSE /\ swallowed = <<>>
    /\ bad = "none"

-----------------------------------------------------------------------------
(* The owner: com_init *)

\* com or its message cannot be allocated: the caller is told, after com_log has
\* read com->id, of a com that is NULL or was just freed
AllocFails ==
    /\ owner = "start" /\ "init" \in Faults
    /\ owner' = "failed"
    /\ bad' = "com"
    /\ UNCHANGED <<fields, socket, workers, history>>

\* udp_init: the callback is installed; a server is bound, so that datagrams come
OpenSocket ==
    /\ owner = "start"
    /\ owner' = "socket"
    /\ sock' = IF role = "server" THEN "reachable" ELSE "open"
    /\ UNCHANGED <<fields, rx, arrived, noise, workers, history, bad>>

\* ... or fails: udp_com_init returns NULL, which com_init takes for a state
OpenFails ==
    /\ owner = "start" /\ "init" \in Faults
    /\ owner' = "state"
    /\ state' = "null"
    /\ UNCHANGED <<role, wq, socket, workers, history, bad>>

SetState ==
    /\ owner = "socket"
    /\ owner' = "state"
    /\ state' = "set"
    /\ UNCHANGED <<role, wq, socket, workers, history, bad>>

CreateQueue ==
    /\ owner = "state"
    /\ owner' = "open"
    /\ wq' = "up"
    /\ UNCHANGED <<role, state, socket, workers, history, bad>>

-----------------------------------------------------------------------------
(* com_send, in any thread of the half: a client can be answered from then on *)

Send ==
    /\ owner = "open"
    /\ IF state = "null"
       THEN bad' = "state" /\ UNCHANGED sock
       ELSE sock' = "reachable" /\ UNCHANGED bad
    /\ UNCHANGED <<fields, owner, rx, arrived, noise, workers, history>>

-----------------------------------------------------------------------------
(* The owner: com_close *)

\* Mutant: the workqueue is destroyed without waiting.
DestroyQueue_AtOnce ==
    /\ owner = "open"
    /\ owner' = "drained"
    /\ wq' = "destroyed"
    /\ UNCHANGED <<role, state, socket, workers, history, bad>>

\* flush_workqueue, then destroy_workqueue, which waits too
DestroyQueue ==
    /\ owner = "open" /\ Drained
    /\ owner' = "drained"
    /\ wq' = "destroyed"
    /\ UNCHANGED <<role, state, socket, workers, history, bad>>

\* udp_close: the socket is released, what waits in it is dropped
CloseSocket ==
    /\ owner = "drained"
    /\ IF state = "null"
       THEN bad' = "state" /\ UNCHANGED <<owner, sock, rx>>
       ELSE owner' = "released" /\ sock' = "released" /\ rx' = <<>> /\ UNCHANGED bad
    /\ UNCHANGED <<fields, arrived, noise, workers, history>>

\* free_msg, kfree
Free ==
    /\ owner = "released"
    /\ owner' = "closed"
    /\ UNCHANGED <<fields, socket, workers, history, bad>>

Owner ==
    \/ AllocFails \/ OpenSocket \/ OpenFails \/ SetState \/ CreateQueue
    \/ CloseSocket \/ Free

-----------------------------------------------------------------------------
(* The interrupt: udp_data_ready, wq_recv *)

\* Mutant: the item is queued twice.
QueueItem_Twice(c) ==
    \/ items' = [items EXCEPT ![c] = @ + 2] /\ UNCHANGED late
    \/ "alloc" \in Faults /\ late' = late + 1 /\ UNCHANGED items

QueueItem(c) ==
    \/ items' = [items EXCEPT ![c] = @ + 1] /\ UNCHANGED late
    \/ "alloc" \in Faults /\ late' = late + 1 /\ UNCHANGED items

Arrive(c) ==
    /\ sock = "reachable" /\ arrived < MaxDatagrams
    /\ arrived' = arrived + 1
    /\ rx' = Append(rx, arrived')
    /\ noise' \in {noise, IF "noise" \in Faults THEN noise \cup {arrived'} ELSE noise}
    /\ \/ state = "unset" /\ bad' = "state" /\ UNCHANGED <<items, late>>
       \/ state # "unset" /\ wq # "up" /\ bad' = "wq" /\ UNCHANGED <<items, late>>
       \/ state # "unset" /\ wq = "up" /\ QueueItem(c) /\ UNCHANGED bad
    /\ UNCHANGED <<fields, owner, sock, at, msg, handled, mixed, swallowed>>

-----------------------------------------------------------------------------
(* The worker of a CPU: com_recv *)

\* Mutant: an item takes every datagram there is and keeps the last one.
Receive_Drains(c) ==
    /\ items[c] > 0 /\ at[c] = "idle"
    /\ items' = [items EXCEPT ![c] = @ - 1]
    /\ IF rx = <<>>
       THEN UNCHANGED <<at, rx, msg>>
       ELSE at' = [at EXCEPT ![c] = "received"] /\ rx' = <<>> /\ msg' = Last(rx)
    /\ mixed' = (mixed \/ \E d \in Cpus \ {c} : at[d] # "idle")
    /\ UNCHANGED <<fields, owner, sock, arrived, noise, handled, late, swallowed, bad>>

\* Mutant: the newest datagram is taken.
Receive_Newest(c) ==
    /\ items[c] > 0 /\ at[c] = "idle"
    /\ items' = [items EXCEPT ![c] = @ - 1]
    /\ IF rx = <<>>
       THEN UNCHANGED <<at, rx, msg>>
       ELSE at' = [at EXCEPT ![c] = "received"] /\ rx' = Front(rx) /\ msg' = Last(rx)
    /\ mixed' = (mixed \/ \E d \in Cpus \ {c} : at[d] # "idle")
    /\ UNCHANGED <<fields, owner, sock, arrived, noise, handled, late, swallowed, bad>>

\* udp_recv does not wait: without a datagram the item is over; one that is shorter
\* than its size is the beginning of what is to come
Receive(c) ==
    /\ items[c] > 0 /\ at[c] = "idle"
    /\ items' = [items EXCEPT ![c] = @ - 1]
    /\ IF rx = <<>>
       THEN UNCHANGED <<at, rx, msg>>
       ELSE /\ \/ at' = [at EXCEPT ![c] = "received"]
               \/ Head(rx) \in noise /\ at' = [at EXCEPT ![c] = "filling"]
            /\ rx' = Tail(rx) /\ msg' = Head(rx)
    /\ bad' = IF owner = "closed" THEN "com" ELSE bad
    /\ mixed' = (mixed \/ \E d \in Cpus \ {c} : at[d] # "idle")
    /\ UNCHANGED <<fields, owner, sock, arrived, noise, handled, late, swallowed>>

\* the loop of udp_recv: the next datagram, a message or not, is taken for the rest
\* of the message, or for more of it; without one the item is over
Fill(c) ==
    /\ at[c] = "filling"
    /\ IF rx = <<>>
       THEN at' = [at EXCEPT ![c] = "idle"] /\ UNCHANGED <<rx, swallowed>>
       ELSE /\ at' \in {at, [at EXCEPT ![c] = "filled"]}
            /\ rx' = Tail(rx)
            /\ swallowed' = Append(swallowed, Head(rx))
    /\ bad' = IF owner = "closed" THEN "com" ELSE bad
    /\ UNCHANGED <<fields, owner, sock, arrived, noise, items, msg, handled, late, mixed>>

\* Mutant: the worker does not get over a datagram that is not a message.
Handle_Stuck(c) ==
    /\ at[c] = "received" /\ msg \notin noise
    /\ at' = [at EXCEPT ![c] = "idle"]
    /\ handled' = Append(handled, msg)
    /\ UNCHANGED <<fields, owner, socket, items, msg, history, bad>>

\* check_msg, then cb_recv; both read com->msg as it is by then.  What was put
\* together of several datagrams may pass for a message; it counts as its first one.
Handle(c) ==
    /\ at[c] \in {"received", "filled"}
    /\ at' = [at EXCEPT ![c] = "idle"]
    /\ \/ msg \in noise /\ UNCHANGED handled
       \/ /\ msg \notin noise \/ at[c] = "filled"
          /\ handled' = Append(handled, msg)
    /\ bad' = IF owner = "closed" THEN "com" ELSE bad
    /\ UNCHANGED <<fields, owner, socket, items, msg, history>>

Worker(c) == Receive(c) \/ Fill(c) \/ Handle(c)

-----------------------------------------------------------------------------
Next ==
    /\ bad = "none"
    /\ \/ Owner \/ Send \/ DestroyQueue
       \/ \E c \in Cpus : Arrive(c) \/ Worker(c)

Spec == Init /\ [][Next]_vars

(* The workers run; com_init and com_close do not stop half-way. *)
Fairness ==
    /\ WF_vars(bad = "none" /\ Owner)
    /\ \A c \in Cpus : WF_vars(bad = "none" /\ Worker(c))

FairSpec == Spec /\ Fairness

-----------------------------------------------------------------------------
(* Properties *)

\* The order in which com_init and com_close set up and take down the pieces of
\* com_t is safe but for: a server's datagram before com->state or com->wq is set
\* (com.c:117-125, the socket is bound already), any datagram between
\* destroy_workqueue and the release of the socket (com.c:143-144), and a state
\* that is NULL, which com_init takes for success (com.c:118).  The com_t itself is
\* used when it is not there only where com_init gives up and logs its name
\* (com.c:132-134): no worker and no callback outlives it.
KnownGaps ==
    /\ bad = "state" => state = "null" \/ (role = "server" /\ owner = "socket")
    /\ bad = "wq" => (role = "server" /\ owner = "state") \/ owner = "drained"
    /\ bad = "com" => owner = "failed"

\* One datagram waits for each work item, and one more for each work item that
\* could not be allocated: from then on messages are handled one late, for good
\* (com.c:73).  Only a datagram that udp_recv swallowed (com_udp.c:303) leaves its
\* work item without one.
Backlog ==
    bad = "none" /\ sock = "reachable" =>
        LET awaited == FoldFunction(+, 0, items) + late
        IN  Len(rx) <= awaited /\ awaited <= Len(rx) + Len(swallowed)

\* As long as no two workers are at it at once, a com hands on messages like a
\* pipe: none twice, none before an older one.  Only com->msg, which the workers
\* share, can break this (com.c:50).
Held  == IF \E c \in Cpus : at[c] # "idle" THEN <<msg>> ELSE <<>>
APipe == INSTANCE Pipe WITH put <- arrived, transit <- Held \o rx, got <- handled
ComIsPipe ==
    /\ APipe!PipeInit
    /\ [][mixed' \/ APipe!PipeNext]_(APipe!pipeVars)

\* Every message that arrives is handled, before com_close frees the com if need
\* be, unless a work item is missing or a datagram before it swallowed it: those
\* after it are handled all the same.
Delivered == \A m \in Datagrams :
    m <= arrived ~> \/ m \in Range(handled) \cup noise \cup Range(swallowed)
                    \/ late > 0 \/ mixed \/ bad # "none"
=============================================================================
