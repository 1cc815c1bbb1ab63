----------------------------- MODULE ControlBus -----------------------------
(***************************************************************************)
(* The command path of Photara Studio's local control service:            *)
(*   - one HTTP connection handler (control_server.cpp accepts and serves  *)
(*     one client at a time) that submits a command and waits for it;      *)
(*   - ControlBus: the main and post-present queues, the request_id retry  *)
(*     cache, and the futures the handler waits on (control_bus.cpp);      *)
(*   - the Studio main thread, which pumps both queues once per frame and  *)
(*     stops the bus and then the server on exit (main.cpp).               *)
(*                                                                         *)
(* A ticket is one std::promise made by submit(): its request key, its     *)
(* command (the method/params signature), its deadline and how far it got. *)
(* Operators named Fault... are seeded faults of the definition below them; *)
(* the specification does not use them.                                    *)
(* Time is an integer clock; QueueTtl and ReplyWait are the 5 s deadline   *)
(* set by submit() and the 5 s the handler waits for the future.           *)
(***************************************************************************)
EXTENDS Integers, Sequences

CONSTANTS
    Keys,        \* (client, request_id) pairs of requests that carry an id
    NoKey,       \* a request without request_id: never cached
    Commands,    \* distinct (method, params) signatures
    Deferred,    \* those should_defer() keeps for pump_post_present()
    QueueCap,    \* 256 in the code
    CacheCap,    \* 1024 in the code
    QueueTtl,    \* submit(): deadline = now + 5 s
    ReplyWait,   \* handle_client(): wait_for(5 s)
    MaxTickets,  \* bound: submissions in one behaviour
    MaxTime      \* bound: the clock stops here

ASSUME ControlBusAssumption ==
    /\ NoKey \notin Keys
    /\ Deferred \subseteq Commands
    /\ QueueCap \in Nat \ {0}
    /\ CacheCap \in Nat \ {0}
    /\ QueueTtl \in Nat
    /\ ReplyWait \in Nat
    /\ QueueTtl <= ReplyWait
    /\ MaxTickets \in Nat
    /\ MaxTime \in Nat

VARIABLES
    tickets,             \* every promise submit() has made, in order
    main_queue_,         \* ticket numbers
    post_present_queue_,
    requests_,           \* retry cache: key -> ticket number, 0 if absent
    request_order_,      \* keys, oldest first
    stopping_,
    batch,               \* the local deque a pump or stop() swapped out
    pc,                  \* where the main thread is in its frame
    running,             \* the server's accept loop flag
    conn,                \* the connection being served
    abandoned,           \* tickets a client was told TIMEOUT about
    now

bus == <<main_queue_, post_present_queue_, requests_, request_order_, stopping_>>
vars == <<tickets, bus, batch, pc, running, conn, abandoned, now>>

-----------------------------------------------------------------------------
Phases == {"queued", "running", "settled"}
Answers == {"DONE", "EXPIRED", "SHUTDOWN", "BUSY", "CONFLICT"}
NoAnswer == "none"
Tickets == DOMAIN tickets

Ticket == [key : Keys \cup {NoKey}, cmd : Commands, deadline : Nat,
           phase : Phases, answer : Answers \cup {NoAnswer}]

Settled(t) == tickets[t].phase = "settled"

FaultNeverExpires(t) == FALSE
Expired(t) == now >= tickets[t].deadline

\* The connection handler: waiting in accept(), reading the request, or
\* waiting on the future of a ticket until a given time.
Accepting == [at |-> "accept", ticket |-> 0, until |-> 0]
Reading   == [at |-> "read",   ticket |-> 0, until |-> 0]
WaitOn(t) == [at |-> "wait",   ticket |-> t, until |-> now + ReplyWait]

Frame == {"top", "main", "ui", "post", "exit", "drain", "join", "stopped"}

TypeOK ==
    /\ tickets \in Seq(Ticket)
    /\ main_queue_ \in Seq(Tickets)
    /\ post_present_queue_ \in Seq(Tickets)
    /\ batch \in Seq(Tickets)
    /\ requests_ \in [Keys -> Tickets \cup {0}]
    /\ request_order_ \in Seq(Keys)
    /\ stopping_ \in BOOLEAN
    /\ pc \in Frame
    /\ running \in BOOLEAN
    /\ conn \in {Accepting, Reading} \cup [at : {"wait"}, ticket : Tickets, until : Nat]
    /\ abandoned \subseteq Tickets
    /\ now \in Nat

Init ==
    /\ tickets = <<>>
    /\ main_queue_ = <<>>
    /\ post_present_queue_ = <<>>
    /\ requests_ = [k \in Keys |-> 0]
    /\ request_order_ = <<>>
    /\ stopping_ = FALSE
    /\ batch = <<>>
    /\ pc = "top"
    /\ running = TRUE
    /\ conn = Accepting
    /\ abandoned = {}
    /\ now = 0

-----------------------------------------------------------------------------
(* The connection handler: Server::Impl::accept_loop and handle_client.    *)

Accept ==
    /\ running
    /\ conn.at = "accept"
    /\ conn' = Reading
    /\ UNCHANGED <<tickets, bus, batch, pc, running, abandoned, now>>

\* A malformed, unauthorised, health or events request, or a client that
\* stops sending: answered without submitting a command.
HangUp ==
    /\ conn.at = "read"
    /\ conn' = Accepting
    /\ UNCHANGED <<tickets, bus, batch, pc, running, abandoned, now>>

FaultLateDeadline(key, cmd, phase, answer) ==
    [key |-> key, cmd |-> cmd, deadline |-> now + 2 * ReplyWait,
     phase |-> phase, answer |-> answer]
NewTicket(key, cmd, phase, answer) ==
    [key |-> key, cmd |-> cmd, deadline |-> now + QueueTtl,
     phase |-> phase, answer |-> answer]

Fresh == Len(tickets) + 1

FaultNoLookup(key) == FALSE
Cached(key) == key \in Keys /\ requests_[key] # 0

\* submit() resolved the promise itself: nothing is queued or cached.
Refuse(key, cmd, answer) ==
    /\ tickets' = Append(tickets, NewTicket(key, cmd, "settled", answer))
    /\ conn' = WaitOn(Fresh)
    /\ UNCHANGED bus

\* The same key with the same arguments: the handler gets the old future.
Retry(key, cmd) ==
    /\ Cached(key)
    /\ tickets[requests_[key]].cmd = cmd
    /\ conn' = WaitOn(requests_[key])
    /\ UNCHANGED <<tickets, bus>>

Conflict(key, cmd) ==
    /\ Cached(key)
    /\ tickets[requests_[key]].cmd # cmd
    /\ Refuse(key, cmd, "CONFLICT")

Stopping == stopping_

ShutDown(key, cmd) ==
    /\ ~Cached(key)
    /\ Stopping
    /\ Refuse(key, cmd, "SHUTDOWN")

QueueFull == Len(main_queue_) + Len(post_present_queue_) >= QueueCap

CacheFull == Len(request_order_) >= CacheCap

\* The eviction loop stops at the first request still in flight.
Evictable == Settled(requests_[Head(request_order_)])

\* Only a request that carries an id is looked up and remembered.
Remembered(key) == key \in Keys

Busy(key, cmd) ==
    /\ ~Cached(key)
    /\ ~Stopping
    /\ QueueFull \/ (Remembered(key) /\ CacheFull /\ ~Evictable)
    /\ Refuse(key, cmd, "BUSY")

\* The cache never exceeds its cap, so the eviction loop runs at most once.
Remember(key, t) ==
    IF CacheFull
    THEN /\ requests_' = [requests_ EXCEPT ![Head(request_order_)] = 0, ![key] = t]
         /\ request_order_' = Append(Tail(request_order_), key)
    ELSE /\ requests_' = [requests_ EXCEPT ![key] = t]
         /\ request_order_' = Append(request_order_, key)

Admit(key, cmd) ==
    /\ ~Cached(key)
    /\ ~Stopping
    /\ ~QueueFull
    /\ Remembered(key) /\ CacheFull => Evictable
    /\ tickets' = Append(tickets, NewTicket(key, cmd, "queued", NoAnswer))
    /\ main_queue_' = Append(main_queue_, Fresh)
    /\ conn' = WaitOn(Fresh)
    /\ IF Remembered(key) THEN Remember(key, Fresh)
                          ELSE UNCHANGED <<requests_, request_order_>>
    /\ UNCHANGED <<post_present_queue_, stopping_>>

\* ControlBus::submit, atomic under queue_mutex_.
Submit(key, cmd) ==
    /\ conn.at = "read"
    /\ Len(tickets) < MaxTickets
    /\ \/ Retry(key, cmd)
       \/ Conflict(key, cmd)
       \/ ShutDown(key, cmd)
       \/ Busy(key, cmd)
       \/ Admit(key, cmd)
    /\ UNCHANGED <<batch, pc, running, abandoned, now>>

Reply ==
    /\ conn.at = "wait"
    /\ Settled(conn.ticket)
    /\ conn' = Accepting
    /\ UNCHANGED <<tickets, bus, batch, pc, running, abandoned, now>>

\* 504 TIMEOUT: the outcome of the command is unknown to the client.
Timeout ==
    /\ conn.at = "wait"
    /\ ~Settled(conn.ticket)
    /\ now >= conn.until
    /\ abandoned' = abandoned \cup {conn.ticket}
    /\ conn' = Accepting
    /\ UNCHANGED <<tickets, bus, batch, pc, running, now>>

-----------------------------------------------------------------------------
(* The main thread.                                                        *)

PumpMain ==
    /\ pc = "top"
    /\ batch' = main_queue_
    /\ main_queue_' = <<>>
    /\ pc' = "main"
    /\ UNCHANGED <<tickets, post_present_queue_, requests_, request_order_, stopping_,
                   running, conn, abandoned, now>>

ShouldDefer(t) == tickets[t].cmd \in Deferred

FaultDeferInFront ==
    /\ pc = "main"
    /\ batch # <<>>
    /\ ShouldDefer(Head(batch))
    /\ post_present_queue_' = <<Head(batch)>> \o post_present_queue_
    /\ batch' = Tail(batch)
    /\ UNCHANGED <<tickets, main_queue_, requests_, request_order_, stopping_,
                   pc, running, conn, abandoned, now>>

Defer ==
    /\ pc = "main"
    /\ batch # <<>>
    /\ ShouldDefer(Head(batch))
    /\ post_present_queue_' = Append(post_present_queue_, Head(batch))
    /\ batch' = Tail(batch)
    /\ UNCHANGED <<tickets, main_queue_, requests_, request_order_, stopping_,
                   pc, running, conn, abandoned, now>>

\* The next command of the pump's batch that execute_pending() is called on.
Executing(t) ==
    /\ batch # <<>>
    /\ t = Head(batch)
    /\ \/ pc = "main" /\ ~ShouldDefer(t)
       \/ pc = "post"

Settle(t, answer) ==
    tickets' = [tickets EXCEPT ![t] = [@ EXCEPT !.phase = "settled", !.answer = answer]]

Expire(t) ==
    /\ Executing(t)
    /\ tickets[t].phase = "queued"
    /\ Expired(t)
    /\ Settle(t, "EXPIRED")
    /\ batch' = Tail(batch)
    /\ UNCHANGED <<bus, pc, running, conn, abandoned, now>>

\* execute_command() takes time: the handler may time out while it runs.
Start(t) ==
    /\ Executing(t)
    /\ tickets[t].phase = "queued"
    /\ ~Expired(t)
    /\ tickets' = [tickets EXCEPT ![t] = [@ EXCEPT !.phase = "running"]]
    /\ UNCHANGED <<bus, batch, pc, running, conn, abandoned, now>>

\* Whatever execute_command() returned or threw becomes the result.
Finish(t) ==
    /\ Executing(t)
    /\ tickets[t].phase = "running"
    /\ Settle(t, "DONE")
    /\ batch' = Tail(batch)
    /\ UNCHANGED <<bus, pc, running, conn, abandoned, now>>

EndMain ==
    /\ pc = "main"
    /\ batch = <<>>
    /\ pc' = "ui"
    /\ UNCHANGED <<tickets, bus, batch, running, conn, abandoned, now>>

PumpPost ==
    /\ pc = "ui"
    /\ batch' = post_present_queue_
    /\ post_present_queue_' = <<>>
    /\ pc' = "post"
    /\ UNCHANGED <<tickets, main_queue_, requests_, request_order_, stopping_,
                   running, conn, abandoned, now>>

\* The frame ends; the loop goes on or the window was asked to close.
EndPost ==
    /\ pc = "post"
    /\ batch = <<>>
    /\ pc' \in {"top", "exit"}
    /\ UNCHANGED <<tickets, bus, batch, running, conn, abandoned, now>>

SwappedOut == main_queue_ \o post_present_queue_

\* ControlBus::stop: the locked part, then each swapped-out promise.
StopBus ==
    /\ pc = "exit"
    /\ stopping_' = TRUE
    /\ batch' = SwappedOut
    /\ main_queue_' = <<>>
    /\ post_present_queue_' = <<>>
    /\ pc' = "drain"
    /\ UNCHANGED <<tickets, requests_, request_order_, running, conn, abandoned, now>>

Drain ==
    /\ pc = "drain"
    /\ batch # <<>>
    /\ Settle(Head(batch), "SHUTDOWN")
    /\ batch' = Tail(batch)
    /\ UNCHANGED <<bus, pc, running, conn, abandoned, now>>

FaultKeepAccepting ==
    /\ pc = "drain"
    /\ batch = <<>>
    /\ pc' = "join"
    /\ UNCHANGED <<tickets, bus, batch, running, conn, abandoned, now>>

\* Server::Impl::stop: clear running and close the listener, then join.
StopServer ==
    /\ pc = "drain"
    /\ batch = <<>>
    /\ running' = FALSE
    /\ pc' = "join"
    /\ UNCHANGED <<tickets, bus, batch, conn, abandoned, now>>

Join ==
    /\ pc = "join"
    /\ conn.at = "accept"
    /\ pc' = "stopped"
    /\ UNCHANGED <<tickets, bus, batch, running, conn, abandoned, now>>

Tick ==
    /\ now < MaxTime
    /\ now' = now + 1
    /\ UNCHANGED <<tickets, bus, batch, pc, running, conn, abandoned>>

Terminated == pc = "stopped" /\ UNCHANGED vars

-----------------------------------------------------------------------------
Execute == \E t \in Tickets : Expire(t) \/ Start(t) \/ Finish(t)

MainThread ==
    \/ PumpMain \/ Defer \/ Execute \/ EndMain \/ PumpPost \/ EndPost
    \/ StopBus \/ Drain \/ StopServer \/ Join

Request == \E key \in Keys \cup {NoKey}, cmd \in Commands : Submit(key, cmd)

Next == Accept \/ HangUp \/ Request \/ Reply \/ Timeout \/ MainThread \/ Tick \/ Terminated

\* The frame loop never blocks and commands return; a connection that was
\* accepted is read under a 5 s socket timeout and a ready future is answered.
Fairness ==
    /\ WF_vars(MainThread)
    /\ WF_vars(HangUp \/ Request)
    /\ WF_vars(Reply)

Spec == Init /\ [][Next]_vars /\ Fairness

-----------------------------------------------------------------------------
(* Properties.                                                             *)

Unsettled == {t \in Tickets : ~Settled(t)}

\* A request that is queued or running is the one its key finds in the retry
\* cache: eviction never forgets it, so no retry can be queued beside it
\* (submit: "Never evict an in-flight request").
InFlightIsCached ==
    \A t \in Unsettled : tickets[t].key \in Keys => requests_[tickets[t].key] = t

\* A command the client has been told nothing about (504: outcome unknown) was
\* already started, or will be refused as EXPIRED: it can no longer take effect.
AbandonedIsDead ==
    \A t \in abandoned : tickets[t].phase = "queued" => Expired(t)

\* No step starts a command that its handler gave up on while it was queued
\* (execute_pending: EXPIRED).
AbandonedNeverStarts ==
    [][\A t \in abandoned : tickets[t].phase = "queued" => tickets'[t].phase # "running"]_vars

\* Serving one connection at a time with a wait as long as the deadline means
\* that at most one queued command can still take effect.
AtMostOneLive ==
    \A s, t \in Unsettled :
        /\ tickets[s].phase = "queued" /\ ~Expired(s)
        /\ tickets[t].phase = "queued" /\ ~Expired(t)
        => s = t

\* Two commands of the same kind (deferred or not) are executed in the order
\* they were submitted.
SubmissionOrder ==
    [][\A t \in Tickets : Start(t) =>
        \A s \in 1..(t - 1) : ShouldDefer(s) = ShouldDefer(t) => Settled(s)]_vars

\* Closing the window stops the server: joining its thread never waits for a
\* promise that only the main thread could fulfil (ControlBus::stop, Server::stop).
ShutdownCompletes == (pc = "exit") ~> (pc = "stopped")

\* The bus, its queues, the frame loop and the handler together implement the
\* promise of RetryWindow.
Progress(t) ==
    IF t \notin Tickets THEN "absent"
    ELSE IF tickets[t].phase = "queued" THEN "pending"
    ELSE IF tickets[t].phase = "running" THEN "begun"
    ELSE IF tickets[t].answer = "DONE" THEN "applied" ELSE "refused"
Window == INSTANCE RetryWindow WITH
    Commands <- 1..MaxTickets,
    Capacity <- CacheCap,
    status <- [t \in 1..MaxTickets |-> Progress(t)],
    window <- requests_
ImplementsRetryWindow == Window!Spec
=============================================================================
