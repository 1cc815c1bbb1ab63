-------------------------- MODULE ControlBusProofs --------------------------
(***************************************************************************)
(* Theorems about ControlBus, for every set of keys and commands, every    *)
(* number of submissions and every queue and cache size.                   *)
(*                                                                         *)
(* The first part is about who still waits for a command: with QueueTtl <= *)
(* ReplyWait an abandoned command can no longer begin.  The second is      *)
(* about where the bus holds its promises: commands of a kind are executed *)
(* in the order of their submission, and every step of the bus is a step   *)
(* of RetryWindow or changes nothing it speaks of.                         *)
(***************************************************************************)
EXTENDS ControlBus, FiniteSetTheorems, TLAPS

LEMMA SeqWiden ==
    ASSUME NEW S, NEW T, S \subseteq T, NEW s \in Seq(S)
    PROVE  s \in Seq(T)
  OBVIOUS

LEMMA SeqParts ==
    ASSUME NEW S, NEW s \in Seq(S)
    PROVE  /\ s # <<>> => Head(s) \in S /\ Tail(s) \in Seq(S)
           /\ \A x \in S : Append(s, x) \in Seq(S)
           /\ \A r \in Seq(S) : s \o r \in Seq(S)
  OBVIOUS

LEMMA NewTicketType ==
    ASSUME TypeOK, ControlBusAssumption, NEW key \in Keys \cup {NoKey}, NEW cmd \in Commands,
           NEW phase \in Phases, NEW answer \in Answers \cup {NoAnswer}
    PROVE  NewTicket(key, cmd, phase, answer) \in Ticket
  BY DEF TypeOK, ControlBusAssumption, NewTicket, Ticket

\* Changing how far a ticket got leaves the sequence of tickets well formed.
LEMMA ReplaceTicket ==
    ASSUME TypeOK, NEW t \in Tickets, NEW r \in Ticket,
           tickets' = [tickets EXCEPT ![t] = r]
    PROVE  /\ tickets' \in Seq(Ticket)
           /\ Tickets' = Tickets
           /\ tickets'[t] = r
           /\ \A s \in Tickets : s # t => tickets'[s] = tickets[s]
  BY DEF TypeOK, Tickets

LEMMA SettleStep ==
    ASSUME TypeOK, NEW t \in Tickets, NEW answer \in Answers, Settle(t, answer)
    PROVE  /\ tickets' \in Seq(Ticket)
           /\ Tickets' = Tickets
           /\ \A s \in Tickets : /\ tickets'[s].key = tickets[s].key
                                 /\ tickets'[s].deadline = tickets[s].deadline
                                 /\ s # t => tickets'[s] = tickets[s]
           /\ Settled(t)' /\ tickets'[t].answer = answer
<1> DEFINE r == [tickets[t] EXCEPT !.phase = "settled", !.answer = answer]
<1>1. tickets[t] \in Ticket
  BY DEF TypeOK, Tickets
<1>2. /\ r \in Ticket
      /\ r.key = tickets[t].key
      /\ r.deadline = tickets[t].deadline
      /\ r.phase = "settled" /\ r.answer = answer
  BY <1>1 DEF Ticket, Phases
<1>3. tickets' = [tickets EXCEPT ![t] = r]
  BY DEF Settle
<1> HIDE DEF r
<1> QED
  BY <1>2, <1>3, ReplaceTicket DEF Settled

LEMMA StartStep ==
    ASSUME TypeOK, NEW t \in Tickets, Start(t)
    PROVE  /\ tickets' \in Seq(Ticket)
           /\ Tickets' = Tickets
           /\ \A s \in Tickets : /\ tickets'[s].key = tickets[s].key
                                 /\ tickets'[s].cmd = tickets[s].cmd
                                 /\ tickets'[s].deadline = tickets[s].deadline
                                 /\ s # t => tickets'[s] = tickets[s]
           /\ ~Settled(t)
           /\ tickets'[t].phase = "running"
<1> DEFINE r == [tickets[t] EXCEPT !.phase = "running"]
<1>1. tickets[t] \in Ticket
  BY DEF TypeOK, Tickets
<1>2. /\ r \in Ticket
      /\ r.key = tickets[t].key
      /\ r.cmd = tickets[t].cmd
      /\ r.deadline = tickets[t].deadline
      /\ r.phase = "running"
  BY <1>1 DEF Ticket, Phases
<1>3. tickets' = [tickets EXCEPT ![t] = r] /\ ~Settled(t)
  BY DEF Start, Settled
<1> HIDE DEF r
<1> QED
  BY <1>2, <1>3, ReplaceTicket

LEMMA AppendTicket ==
    ASSUME TypeOK, NEW ticket \in Ticket, tickets' = Append(tickets, ticket)
    PROVE  /\ tickets' \in Seq(Ticket)
           /\ Tickets' = Tickets \cup {Fresh}
           /\ Fresh \notin Tickets /\ Fresh # 0 /\ Fresh \in Nat
           /\ \A s \in Tickets : tickets'[s] = tickets[s]
           /\ tickets'[Fresh] = ticket
  BY DEF TypeOK, Tickets, Fresh

\* The value conn may take, as TypeOK states it.
ConnType == {Accepting, Reading} \cup [at : {"wait"}, ticket : Tickets, until : Nat]

LEMMA Widen ==
    ASSUME TypeOK, Tickets \subseteq Tickets'
    PROVE  /\ main_queue_ \in Seq(Tickets')
           /\ post_present_queue_ \in Seq(Tickets')
           /\ batch \in Seq(Tickets')
           /\ requests_ \in [Keys -> Tickets' \cup {0}]
           /\ conn \in ConnType'
           /\ abandoned \subseteq Tickets'
<1>1. /\ main_queue_ \in Seq(Tickets')
      /\ post_present_queue_ \in Seq(Tickets')
      /\ batch \in Seq(Tickets')
  BY SeqWiden DEF TypeOK
<1> QED
  BY <1>1 DEF TypeOK, ConnType, Accepting, Reading

LEMMA WaitOnType ==
    ASSUME ControlBusAssumption, now \in Nat, NEW t \in Tickets'
    PROVE  WaitOn(t) \in ConnType'
  BY DEF ControlBusAssumption, WaitOn, ConnType

\* Type correctness: every queue, batch and cache entry names a promise that
\* exists, and the handler waits only on such a promise.
THEOREM TypeCorrect == Spec => []TypeOK
<1>1. Init => TypeOK
  <2> SUFFICES ASSUME Init PROVE TypeOK
    OBVIOUS
  <2>1. /\ tickets \in Seq(Ticket)
        /\ main_queue_ \in Seq(Tickets)
        /\ post_present_queue_ \in Seq(Tickets)
        /\ batch \in Seq(Tickets)
        /\ request_order_ \in Seq(Keys)
    BY DEF Init
  <2>2. requests_ \in [Keys -> Tickets \cup {0}] /\ abandoned \subseteq Tickets
    BY DEF Init
  <2> QED
    BY <2>1, <2>2 DEF Init, TypeOK, Frame
<1>2. TypeOK /\ [Next]_vars => TypeOK'
  <2> SUFFICES ASSUME TypeOK, [Next]_vars
               PROVE  TypeOK'
    OBVIOUS
  <2> USE ControlBusAssumption
  <2>0. CASE UNCHANGED vars
    BY <2>0 DEF vars, bus, TypeOK, Tickets
  <2>1. CASE Accept
    BY <2>1 DEF Accept, bus, TypeOK, Tickets
  <2>2. CASE HangUp
    BY <2>2 DEF HangUp, bus, TypeOK, Tickets
  <2>3. ASSUME NEW key \in Keys \cup {NoKey}, NEW cmd \in Commands, Submit(key, cmd)
        PROVE  TypeOK'
    <3> USE <2>3
    <3>0. UNCHANGED <<batch, pc, running, abandoned, now>>
      BY DEF Submit
    <3>1. CASE Retry(key, cmd)
      <4>1. requests_[key] \in Tickets /\ Tickets' = Tickets
        BY <3>1 DEF Retry, Cached, TypeOK, Tickets
      <4>2. conn' \in ConnType'
        BY <3>1, <4>1, WaitOnType DEF Retry, TypeOK
      <4> QED
        BY <3>0, <3>1, <4>1, <4>2 DEF Retry, bus, TypeOK, ConnType
    <3>2. ASSUME NEW answer \in Answers, Refuse(key, cmd, answer)
          PROVE  TypeOK'
      <4>1. NewTicket(key, cmd, "settled", answer) \in Ticket
        BY NewTicketType DEF Phases
      <4>2. /\ tickets' \in Seq(Ticket)
            /\ Tickets' = Tickets \cup {Fresh}
        BY <3>2, <4>1, AppendTicket DEF Refuse
      <4>3. conn' \in ConnType'
        BY <3>2, <4>2, WaitOnType DEF Refuse, TypeOK
      <4> QED
        BY <3>0, <3>2, <4>2, <4>3, Widen DEF Refuse, bus, TypeOK, ConnType
    <3>3. CASE Conflict(key, cmd)
      BY <3>2, <3>3 DEF Conflict, Answers
    <3>4. CASE ShutDown(key, cmd)
      BY <3>2, <3>4 DEF ShutDown, Answers
    <3>5. CASE Busy(key, cmd)
      BY <3>2, <3>5 DEF Busy, Answers
    <3>6. CASE Admit(key, cmd)
      <4>1. NewTicket(key, cmd, "queued", NoAnswer) \in Ticket
        BY NewTicketType DEF Phases
      <4>2. /\ tickets' \in Seq(Ticket)
            /\ Tickets' = Tickets \cup {Fresh}
        BY <3>6, <4>1, AppendTicket DEF Admit
      <4>3. conn' \in ConnType'
        BY <3>6, <4>2, WaitOnType DEF Admit, TypeOK
      <4>4. main_queue_' \in Seq(Tickets')
        BY <3>6, <4>2, Widen, SeqParts DEF Admit
      <4>5. requests_' \in [Keys -> Tickets' \cup {0}] /\ request_order_' \in Seq(Keys)
        <5>1. CASE ~Remembered(key)
          BY <3>6, <4>2, <5>1, Widen DEF Admit, TypeOK
        <5>2. CASE Remembered(key) /\ ~CacheFull
          <6>0. key \in Keys /\ request_order_' = Append(request_order_, key)
            BY <3>6, <5>2 DEF Admit, Remember, Remembered
          <6>1. request_order_' \in Seq(Keys)
            BY <6>0, SeqParts DEF TypeOK
          <6>2. requests_' \in [Keys -> Tickets' \cup {0}]
            BY <3>6, <4>2, <5>2, Widen DEF Admit, Remember, Remembered
          <6> QED
            BY <6>1, <6>2
        <5>3. CASE Remembered(key) /\ CacheFull
          <6>1. request_order_ # <<>>
            BY <5>3 DEF CacheFull, ControlBusAssumption, TypeOK
          <6>2. Head(request_order_) \in Keys /\ Tail(request_order_) \in Seq(Keys)
            BY <6>1, SeqParts DEF TypeOK
          <6>0. key \in Keys /\ request_order_' = Append(Tail(request_order_), key)
            BY <3>6, <5>3 DEF Admit, Remember, Remembered
          <6>3. request_order_' \in Seq(Keys)
            BY <6>0, <6>2, SeqParts
          <6>4. requests_' \in [Keys -> Tickets' \cup {0}]
            BY <3>6, <4>2, <5>3, <6>2, Widen DEF Admit, Remember, Remembered
          <6> QED
            BY <6>3, <6>4
        <5> QED
          BY <5>1, <5>2, <5>3
      <4> QED
        BY <3>0, <3>6, <4>2, <4>3, <4>4, <4>5, Widen DEF Admit, TypeOK, ConnType
    <3> QED
      BY <3>1, <3>3, <3>4, <3>5, <3>6 DEF Submit
  <2>4. CASE Reply
    BY <2>4 DEF Reply, bus, TypeOK, Tickets
  <2>5. CASE Timeout
    BY <2>5 DEF Timeout, bus, TypeOK, Tickets, Accepting, Reading
  <2>6. CASE PumpMain
    BY <2>6 DEF PumpMain, TypeOK, Tickets, Frame
  <2>7. CASE Defer
    <3>1. Head(batch) \in Tickets /\ Tail(batch) \in Seq(Tickets)
      BY <2>7, SeqParts DEF Defer, TypeOK
    <3>2. post_present_queue_' \in Seq(Tickets)
      BY <2>7, <3>1, SeqParts DEF Defer, TypeOK
    <3> QED
      BY <2>7, <3>1, <3>2 DEF Defer, TypeOK, Tickets
  <2>8. ASSUME NEW t \in Tickets, NEW answer \in Answers, Settle(t, answer),
               UNCHANGED <<bus, pc, running, conn, abandoned, now>>,
               batch # <<>>, batch' = Tail(batch)
        PROVE  TypeOK'
    <3>1. tickets' \in Seq(Ticket) /\ Tickets' = Tickets
      BY <2>8, SettleStep
    <3>2. Tail(batch) \in Seq(Tickets)
      BY <2>8, SeqParts DEF TypeOK
    <3> QED
      BY <2>8, <3>1, <3>2 DEF TypeOK, bus
  <2>9. ASSUME NEW t \in Tickets, Expire(t) \/ Finish(t)
        PROVE  TypeOK'
    BY <2>8, <2>9 DEF Expire, Finish, Executing, Answers
  <2>10. ASSUME NEW t \in Tickets, Start(t)
         PROVE  TypeOK'
    <3>1. tickets' \in Seq(Ticket) /\ Tickets' = Tickets
      BY <2>10, StartStep
    <3> QED
      BY <2>10, <3>1 DEF Start, TypeOK, bus
  <2>11. CASE EndMain \/ EndPost \/ StopServer \/ Join
    BY <2>11 DEF EndMain, EndPost, StopServer, Join, bus, TypeOK, Tickets, Frame
  <2>12. CASE PumpPost
    BY <2>12 DEF PumpPost, TypeOK, Tickets, Frame
  <2>13. CASE StopBus
    <3>1. batch' \in Seq(Tickets)
      BY <2>13, SeqParts DEF StopBus, SwappedOut, TypeOK
    <3> QED
      BY <2>13, <3>1 DEF StopBus, TypeOK, Tickets, Frame
  <2>14. CASE Drain
    <3>1. Head(batch) \in Tickets
      BY <2>14, SeqParts DEF Drain, TypeOK
    <3> QED
      BY <2>8, <2>14, <3>1 DEF Drain, Answers
  <2>15. CASE Tick
    BY <2>15 DEF Tick, bus, TypeOK, Tickets
  <2> QED
    BY <2>0, <2>1, <2>2, <2>3, <2>4, <2>5, <2>6, <2>7, <2>9, <2>10, <2>11, <2>12,
       <2>13, <2>14, <2>15 DEF Next, Request, MainThread, Execute, Terminated
<1> QED
  BY <1>1, <1>2, PTL DEF Spec

-----------------------------------------------------------------------------
(* The inductive invariant.  No command may lose its cache entry before it *)
(* has a result; and the wait of whoever is told TIMEOUT has outlasted the *)
(* deadline of the command it waited for, so that a command nobody waits   *)
(* for any more is either settled, or already begun, or expired.           *)

DeadlineInReach == \A t \in Tickets : tickets[t].deadline <= now + QueueTtl
WaitOutlastsDeadline ==
    conn.at = "wait" => tickets[conn.ticket].deadline <= conn.until
WaitedOrAbandoned ==
    \A t \in Unsettled : (conn.at = "wait" /\ conn.ticket = t) \/ t \in abandoned
AbandonedIsLate == \A t \in abandoned : Settled(t) \/ Expired(t)

IInv ==
    /\ InFlightIsCached
    /\ DeadlineInReach
    /\ WaitOutlastsDeadline
    /\ WaitedOrAbandoned
    /\ AbandonedIsLate

LEMMA DeadlineType == ASSUME TypeOK, NEW t \in Tickets PROVE tickets[t].deadline \in Nat
<1>1. tickets[t] \in Ticket
  BY DEF TypeOK, Tickets
<1> QED
  BY <1>1 DEF Ticket

\* A ticket that makes progress keeps its key and deadline; IInv can only be
\* disturbed by one that becomes unsettled, and none does.
LEMMA ProgressKeepsIInv ==
    ASSUME TypeOK, IInv, ControlBusAssumption,
           Tickets' = Tickets,
           \A s \in Tickets : /\ tickets'[s].key = tickets[s].key
                              /\ tickets'[s].deadline = tickets[s].deadline
                              /\ Settled(s) => Settled(s)',
           UNCHANGED <<requests_, conn, abandoned, now>>
    PROVE  IInv'
<1>1. Unsettled' \subseteq Unsettled /\ abandoned \subseteq Tickets
  BY DEF Unsettled, TypeOK
<1>2. conn.at = "wait" => conn.ticket \in Tickets
  BY DEF TypeOK, Accepting, Reading
<1>3. InFlightIsCached'
  BY <1>1 DEF IInv, InFlightIsCached, Unsettled
<1>4. DeadlineInReach' /\ WaitOutlastsDeadline'
  BY <1>2 DEF IInv, DeadlineInReach, WaitOutlastsDeadline
<1>5. WaitedOrAbandoned'
  BY <1>1 DEF IInv, WaitedOrAbandoned
<1>6. AbandonedIsLate'
  BY <1>1 DEF IInv, AbandonedIsLate, Expired
<1> QED
  BY <1>3, <1>4, <1>5, <1>6 DEF IInv

\* The handler stops waiting without a timeout only for a settled ticket.
LEMMA HandlerKeepsIInv ==
    ASSUME TypeOK, IInv, Accept \/ HangUp \/ Reply
    PROVE  IInv'
<1>1. UNCHANGED <<tickets, requests_, abandoned, now>> /\ conn'.at # "wait"
  BY DEF Accept, HangUp, Reply, bus, Accepting, Reading
<1>2. Unsettled' = Unsettled
  BY <1>1 DEF Unsettled, Tickets, Settled
<1>3. \A t \in Unsettled : t \in abandoned
  BY DEF IInv, WaitedOrAbandoned, Accept, HangUp, Reply, Unsettled
<1>4. WaitedOrAbandoned' /\ WaitOutlastsDeadline'
  BY <1>1, <1>2, <1>3 DEF WaitedOrAbandoned, WaitOutlastsDeadline
<1> QED
  BY <1>1, <1>2, <1>4
  DEF IInv, InFlightIsCached, DeadlineInReach, AbandonedIsLate, Expired, Settled, Tickets

LEMMA TimeoutKeepsIInv ==
    ASSUME TypeOK, IInv, ControlBusAssumption, Timeout
    PROVE  IInv'
<1>1. /\ UNCHANGED <<tickets, requests_, now>>
      /\ conn'.at # "wait"
      /\ abandoned' = abandoned \cup {conn.ticket}
  BY DEF Timeout, bus, Accepting
<1>2. Unsettled' = Unsettled
  BY <1>1 DEF Unsettled, Tickets, Settled
<1>3. WaitedOrAbandoned' /\ WaitOutlastsDeadline'
  BY <1>1, <1>2 DEF IInv, WaitedOrAbandoned, WaitOutlastsDeadline
<1>4. Expired(conn.ticket)
  <2>1. conn.at = "wait" /\ now >= conn.until
    BY DEF Timeout
  <2>2. conn.ticket \in Tickets /\ conn.until \in Nat /\ now \in Nat
    BY <2>1 DEF TypeOK, Accepting, Reading
  <2>3. tickets[conn.ticket].deadline \in Nat
    BY <2>2, DeadlineType
  <2> QED
    BY <2>1, <2>2, <2>3 DEF IInv, WaitOutlastsDeadline, Expired
<1>5. AbandonedIsLate'
  BY <1>1, <1>4 DEF IInv, AbandonedIsLate, Expired, Settled
<1> QED
  BY <1>1, <1>2, <1>3, <1>5 DEF IInv, InFlightIsCached, DeadlineInReach, Tickets

LEMMA TickKeepsIInv ==
    ASSUME TypeOK, IInv, ControlBusAssumption, Tick
    PROVE  IInv'
<1>1. UNCHANGED <<tickets, requests_, conn, abandoned>> /\ now' = now + 1
  BY DEF Tick, bus
<1>2. Unsettled' = Unsettled /\ Tickets' = Tickets
  BY <1>1 DEF Unsettled, Tickets, Settled
<1>3. \A t \in Tickets : tickets[t].deadline \in Nat
  BY DeadlineType
<1>4. now \in Nat /\ QueueTtl \in Nat /\ abandoned \subseteq Tickets
  BY DEF TypeOK, ControlBusAssumption
<1>5. DeadlineInReach'
  BY <1>1, <1>2, <1>3, <1>4 DEF IInv, DeadlineInReach
<1>6. AbandonedIsLate'
  BY <1>1, <1>3, <1>4 DEF IInv, AbandonedIsLate, Expired, Settled
<1> QED
  BY <1>1, <1>2, <1>5, <1>6 DEF IInv, InFlightIsCached, WaitOutlastsDeadline, WaitedOrAbandoned

\* A request that submit() answers itself leaves nothing unsettled behind.
LEMMA RefuseKeepsIInv ==
    ASSUME TypeOK, IInv, ControlBusAssumption, conn.at = "read",
           NEW key \in Keys \cup {NoKey}, NEW cmd \in Commands, NEW answer \in Answers,
           Refuse(key, cmd, answer), UNCHANGED <<abandoned, now>>
    PROVE  IInv'
<1> DEFINE fresh == NewTicket(key, cmd, "settled", answer)
<1>1. /\ fresh \in Ticket
      /\ fresh.deadline = now + QueueTtl
      /\ fresh.phase = "settled"
  BY NewTicketType DEF Phases, NewTicket
<1>2. tickets' = Append(tickets, fresh) /\ UNCHANGED requests_ /\ conn' = WaitOn(Fresh)
  BY DEF Refuse, bus
<1> HIDE DEF fresh
<1>3. /\ Tickets' = Tickets \cup {Fresh}
      /\ Fresh \notin Tickets
      /\ \A s \in Tickets : tickets'[s] = tickets[s]
      /\ tickets'[Fresh] = fresh
  BY <1>1, <1>2, AppendTicket
<1>4. Unsettled' = Unsettled
  BY <1>1, <1>3 DEF Unsettled, Settled
<1>5. InFlightIsCached'
  BY <1>2, <1>3, <1>4 DEF IInv, InFlightIsCached, Unsettled
<1>6. DeadlineInReach'
  <2> SUFFICES ASSUME NEW t \in Tickets' PROVE tickets'[t].deadline <= now + QueueTtl
    BY DEF DeadlineInReach
  <2>1. CASE t = Fresh
    BY <1>1, <1>3, <2>1 DEF ControlBusAssumption, TypeOK
  <2>2. CASE t \in Tickets
    BY <1>3, <2>2 DEF IInv, DeadlineInReach
  <2> QED
    BY <1>3, <2>1, <2>2
<1>7. WaitOutlastsDeadline'
  <2>1. conn'.ticket = Fresh /\ conn'.until = now + ReplyWait
    BY <1>2 DEF WaitOn
  <2>2. tickets'[conn'.ticket].deadline = now + QueueTtl
    BY <1>1, <1>3, <2>1
  <2> QED
    BY <2>1, <2>2 DEF WaitOutlastsDeadline, ControlBusAssumption, TypeOK
<1>8. WaitedOrAbandoned'
  BY <1>4 DEF IInv, WaitedOrAbandoned
<1>9. AbandonedIsLate'
  BY <1>3 DEF IInv, AbandonedIsLate, Settled, Expired, TypeOK
<1> QED
  BY <1>5, <1>6, <1>7, <1>8, <1>9 DEF IInv

LEMMA RetryKeepsIInv ==
    ASSUME TypeOK, IInv, ControlBusAssumption, conn.at = "read",
           NEW key \in Keys \cup {NoKey}, NEW cmd \in Commands,
           Retry(key, cmd), UNCHANGED <<abandoned, now>>
    PROVE  IInv'
<1>1. /\ UNCHANGED <<tickets, requests_>>
      /\ conn' = WaitOn(requests_[key])
      /\ requests_[key] \in Tickets
  BY DEF Retry, bus, Cached, TypeOK
<1>2. Unsettled' = Unsettled /\ Tickets' = Tickets
  BY <1>1 DEF Unsettled, Settled, Tickets
<1>3. WaitOutlastsDeadline'
  <2>1. tickets[requests_[key]].deadline \in Nat
    BY <1>1, DeadlineType
  <2> QED
    BY <1>1, <2>1 DEF IInv, DeadlineInReach, WaitOutlastsDeadline, WaitOn,
                      ControlBusAssumption, TypeOK
<1>4. WaitedOrAbandoned'
  BY <1>2 DEF IInv, WaitedOrAbandoned
<1> QED
  BY <1>1, <1>2, <1>3, <1>4
  DEF IInv, InFlightIsCached, DeadlineInReach, AbandonedIsLate, Settled, Expired

\* The new request takes the cache entry of its key, which was free; making
\* room for it forgets only a settled request.
LEMMA AdmitKeepsIInv ==
    ASSUME TypeOK, IInv, ControlBusAssumption, conn.at = "read",
           NEW key \in Keys \cup {NoKey}, NEW cmd \in Commands,
           Admit(key, cmd), UNCHANGED <<abandoned, now>>
    PROVE  IInv'
<1> DEFINE fresh == NewTicket(key, cmd, "queued", NoAnswer)
<1>1. /\ fresh \in Ticket
      /\ fresh.key = key
      /\ fresh.deadline = now + QueueTtl
  BY NewTicketType DEF Phases, NewTicket
<1>2. tickets' = Append(tickets, fresh) /\ conn' = WaitOn(Fresh)
  BY DEF Admit
<1> HIDE DEF fresh
<1>3. /\ Tickets' = Tickets \cup {Fresh}
      /\ Fresh \notin Tickets
      /\ \A s \in Tickets : tickets'[s] = tickets[s]
      /\ tickets'[Fresh] = fresh
  BY <1>1, <1>2, AppendTicket
<1>4. Unsettled' \subseteq Unsettled \cup {Fresh} /\ Unsettled \subseteq Unsettled'
  BY <1>3 DEF Unsettled, Settled
<1>5. InFlightIsCached'
  <2> SUFFICES ASSUME NEW t \in Unsettled', tickets'[t].key \in Keys
               PROVE  requests_'[tickets'[t].key] = t
    BY DEF InFlightIsCached
  <2>1. CASE t = Fresh
    <3>1. key \in Keys /\ tickets'[t].key = key
      BY <1>1, <1>3, <2>1
    <3> QED
      BY <2>1, <3>1 DEF Admit, Remembered, Remember, TypeOK
  <2>2. CASE t \in Unsettled
    <3> DEFINE k == tickets[t].key
    <3>1. tickets'[t].key = k /\ t \in Tickets
      BY <1>3, <2>2 DEF Unsettled
    <3>2. requests_[k] = t /\ k \in Keys
      BY <2>2, <3>1 DEF IInv, InFlightIsCached
    <3>3. t # 0
      BY <3>1 DEF TypeOK, Tickets
    <3>4. k # key \/ key \notin Keys
      BY <3>2, <3>3 DEF Admit, Cached
    <3>5. ~Settled(t)
      BY <2>2 DEF Unsettled
    <3>6. Remembered(key) /\ CacheFull => k # Head(request_order_)
      BY <3>2, <3>5 DEF Admit, Evictable
    <3>7. requests_'[k] = requests_[k]
      BY <3>2, <3>4, <3>6 DEF Admit, Remembered, Remember, TypeOK
    <3> QED
      BY <3>1, <3>2, <3>7
  <2> QED
    BY <1>4, <2>1, <2>2
<1>6. DeadlineInReach'
  <2> SUFFICES ASSUME NEW t \in Tickets' PROVE tickets'[t].deadline <= now + QueueTtl
    BY DEF DeadlineInReach
  <2>1. CASE t = Fresh
    BY <1>1, <1>3, <2>1 DEF ControlBusAssumption, TypeOK
  <2>2. CASE t \in Tickets
    BY <1>3, <2>2 DEF IInv, DeadlineInReach
  <2> QED
    BY <1>3, <2>1, <2>2
<1>7. WaitOutlastsDeadline'
  <2>1. conn'.ticket = Fresh /\ conn'.until = now + ReplyWait
    BY <1>2 DEF WaitOn
  <2>2. tickets'[conn'.ticket].deadline = now + QueueTtl
    BY <1>1, <1>3, <2>1
  <2> QED
    BY <2>1, <2>2 DEF WaitOutlastsDeadline, ControlBusAssumption, TypeOK
<1>8. WaitedOrAbandoned'
  BY <1>2, <1>4 DEF IInv, WaitedOrAbandoned, WaitOn
<1>9. AbandonedIsLate'
  BY <1>3 DEF IInv, AbandonedIsLate, Settled, Expired, TypeOK
<1> QED
  BY <1>5, <1>6, <1>7, <1>8, <1>9 DEF IInv

LEMMA IInvInductive == TypeOK /\ IInv /\ [Next]_vars => IInv'
<1> SUFFICES ASSUME TypeOK, IInv, [Next]_vars PROVE IInv'
  OBVIOUS
<1> USE ControlBusAssumption
<1>1. CASE Accept \/ HangUp \/ Reply
  BY <1>1, HandlerKeepsIInv
<1>2. ASSUME NEW key \in Keys \cup {NoKey}, NEW cmd \in Commands, Submit(key, cmd)
      PROVE  IInv'
  <2>0. conn.at = "read" /\ UNCHANGED <<abandoned, now>>
    BY <1>2 DEF Submit
  <2>1. CASE Retry(key, cmd)
    BY <2>0, <2>1, RetryKeepsIInv
  <2>2. CASE Conflict(key, cmd) \/ ShutDown(key, cmd) \/ Busy(key, cmd)
    BY <2>0, <2>2, RefuseKeepsIInv DEF Conflict, ShutDown, Busy, Answers
  <2>3. CASE Admit(key, cmd)
    BY <2>0, <2>3, AdmitKeepsIInv
  <2> QED
    BY <1>2, <2>1, <2>2, <2>3 DEF Submit
<1>3. CASE Timeout
  BY <1>3, TimeoutKeepsIInv
<1>4. CASE Tick
  BY <1>4, TickKeepsIInv
<1>5. ASSUME NEW t \in Tickets, NEW answer \in Answers, Settle(t, answer),
             UNCHANGED <<bus, conn, abandoned, now>>
      PROVE  IInv'
  <2>1. \A s \in Tickets : Settled(s) => Settled(s)'
    BY <1>5, SettleStep DEF Settled
  <2> QED
    BY <1>5, <2>1, SettleStep, ProgressKeepsIInv DEF bus
<1>6. ASSUME NEW t \in Tickets, Expire(t) \/ Finish(t)
      PROVE  IInv'
  BY <1>5, <1>6 DEF Expire, Finish, Answers
<1>7. ASSUME NEW t \in Tickets, Start(t)
      PROVE  IInv'
  <2>1. \A s \in Tickets : Settled(s) => Settled(s)'
    BY <1>7, StartStep DEF Settled
  <2>2. UNCHANGED <<requests_, conn, abandoned, now>>
    BY <1>7 DEF Start, bus
  <2> QED
    BY <1>7, <2>1, <2>2, StartStep, ProgressKeepsIInv
<1>8. CASE Drain
  <2>1. Head(batch) \in Tickets
    BY <1>8, SeqParts DEF Drain, TypeOK
  <2> QED
    BY <1>5, <1>8, <2>1 DEF Drain, Answers
<1>9. CASE \/ PumpMain \/ Defer \/ EndMain \/ PumpPost \/ EndPost
           \/ StopBus \/ StopServer \/ Join \/ UNCHANGED vars
  <2>1. UNCHANGED <<tickets, requests_, conn, abandoned, now>>
    BY <1>9 DEF PumpMain, Defer, EndMain, PumpPost, EndPost, StopBus, StopServer, Join, vars, bus
  <2>2. Tickets' = Tickets /\ \A s \in Tickets : Settled(s) => Settled(s)'
    BY <2>1 DEF Tickets, Settled
  <2> QED
    BY <2>1, <2>2, ProgressKeepsIInv
<1> QED
  BY <1>1, <1>2, <1>3, <1>4, <1>6, <1>7, <1>8, <1>9
  DEF Next, Request, MainThread, Execute, Terminated

LEMMA IInvHolds == Spec => [](TypeOK /\ IInv)
<1>1. Init => IInv
  BY DEF Init, IInv, InFlightIsCached, DeadlineInReach, WaitOutlastsDeadline,
         WaitedOrAbandoned, AbandonedIsLate, Unsettled, Tickets, Accepting
<1> QED
  BY <1>1, IInvInductive, TypeCorrect, PTL DEF Spec

-----------------------------------------------------------------------------
\* A request in flight is never evicted from the retry cache, whatever its
\* size: a retry with the same request_id joins it and cannot run beside it.
THEOREM InFlightStaysCached == Spec => []InFlightIsCached
  BY IInvHolds, PTL DEF IInv

\* A command the client was told nothing about and that has not begun can no
\* longer begin, provided the deadline is no longer than the reply wait.
THEOREM AbandonedCommandsAreDead == Spec => []AbandonedIsDead
<1>1. IInv => AbandonedIsDead
  BY DEF IInv, AbandonedIsLate, AbandonedIsDead, Settled
<1> QED
  BY <1>1, IInvHolds, PTL

\* So no step starts a queued command that the handler has given up on
\* (ControlBus::pump, expiry).
THEOREM AbandonedCommandsNeverStart == Spec => AbandonedNeverStarts
<1>1. TypeOK /\ IInv /\ [Next]_vars =>
        \A t \in abandoned : tickets[t].phase = "queued" => tickets'[t].phase # "running"
  <2> SUFFICES ASSUME TypeOK, IInv, [Next]_vars,
                      NEW t \in abandoned, tickets[t].phase = "queued"
               PROVE  tickets'[t].phase # "running"
    OBVIOUS
  <2>1. t \in Tickets /\ Expired(t)
    BY DEF TypeOK, IInv, AbandonedIsLate, Settled
  <2>2. CASE tickets'[t] = tickets[t]
    BY <2>2
  <2>3. ASSUME NEW s \in Tickets, NEW answer \in Answers, Settle(s, answer)
        PROVE  tickets'[t].phase # "running"
    BY <2>1, <2>3, SettleStep DEF Settled
  <2>4. ASSUME NEW s \in Tickets, Start(s)
        PROVE  tickets'[t].phase # "running"
    <3>1. s # t
      BY <2>1, <2>4 DEF Start
    <3> QED
      BY <2>1, <2>4, <3>1, StartStep
  <2>5. ASSUME NEW s \in Tickets, Execute
        PROVE  tickets'[t].phase # "running"
    BY <2>3, <2>4, <2>5 DEF Execute, Expire, Finish, Answers
  <2>6. CASE Drain
    <3>1. Head(batch) \in Tickets
      BY <2>6, SeqParts DEF Drain, TypeOK
    <3> QED
      BY <2>3, <2>6, <3>1 DEF Drain, Answers
  <2>7. ASSUME NEW ticket, tickets' = Append(tickets, ticket)
        PROVE  tickets'[t].phase # "running"
    BY <2>1, <2>7 DEF TypeOK, Tickets
  <2>8. CASE Request
    BY <2>7, <2>8 DEF Request, Submit, Retry, Conflict, ShutDown, Busy, Admit, Refuse
  <2> QED
    BY <2>1, <2>2, <2>5, <2>6, <2>8
    DEF Next, MainThread, Accept, HangUp, Reply, Timeout, Tick, Terminated, PumpMain, Defer,
        EndMain, PumpPost, EndPost, StopBus, StopServer, Join, vars
<1> QED
  BY <1>1, IInvHolds, PTL DEF Spec, AbandonedNeverStarts

\* At most one queued command can still take effect: the one being waited for.
THEOREM OneLiveCommand == Spec => []AtMostOneLive
<1>1. IInv => AtMostOneLive
  BY DEF IInv, WaitedOrAbandoned, AbandonedIsLate, AtMostOneLive, Unsettled
<1> QED
  BY <1>1, IInvHolds, PTL

-----------------------------------------------------------------------------
(* Where the promises are. *)

Elems(s) == {s[i] : i \in 1..Len(s)}
Distinct(s) == \A i, j \in 1..Len(s) : s[i] = s[j] => i = j
Ascending(s) == \A i, j \in 1..Len(s) : i < j => s[i] < s[j]
Before(S, T) == \A x \in S, y \in T : x < y

-----------------------------------------------------------------------------
(* The elements of a sequence and their order.                             *)

LEMMA ElemsEmpty == Elems(<<>>) = {} /\ Distinct(<<>>) /\ Ascending(<<>>)
  BY DEF Elems, Distinct, Ascending

LEMMA ElemsType == ASSUME NEW S, NEW s \in Seq(S) PROVE Elems(s) \subseteq S
  BY DEF Elems

LEMMA ElemsAppend ==
    ASSUME NEW S, NEW s \in Seq(S), NEW x \in S
    PROVE  Elems(Append(s, x)) = Elems(s) \cup {x}
<1> DEFINE r == Append(s, x)
<1>1. /\ Len(r) = Len(s) + 1 /\ Len(s) \in Nat
      /\ r[Len(s) + 1] = x
      /\ \A i \in 1..Len(s) : r[i] = s[i]
  OBVIOUS
<1>2. 1..(Len(s) + 1) = (1..Len(s)) \cup {Len(s) + 1}
  BY <1>1
<1> HIDE DEF r
<1>3. Elems(r) = {r[i] : i \in (1..Len(s)) \cup {Len(s) + 1}}
  BY <1>1, <1>2 DEF Elems
<1>4. \A y : y \in Elems(r) <=> y \in Elems(s) \cup {x}
  BY <1>1, <1>3 DEF Elems
<1> QED
  BY <1>4 DEF r

LEMMA DistinctAppend ==
    ASSUME NEW S, NEW s \in Seq(S), Distinct(s), NEW x \in S, x \notin Elems(s)
    PROVE  Distinct(Append(s, x))
  BY DEF Distinct, Elems

LEMMA AscendingAppend ==
    ASSUME NEW s \in Seq(Nat), Ascending(s), NEW x \in Nat, Before(Elems(s), {x})
    PROVE  Ascending(Append(s, x))
  BY DEF Ascending, Elems, Before

LEMMA DistinctTail ==
    ASSUME NEW S, NEW s \in Seq(S), Distinct(s), s # <<>>
    PROVE  /\ Head(s) \in Elems(s)
           /\ Elems(Tail(s)) = Elems(s) \ {Head(s)}
           /\ Distinct(Tail(s))
<1> DEFINE r == Tail(s)
<1>1. /\ Len(s) \in Nat /\ Len(s) >= 1 /\ Len(r) = Len(s) - 1
      /\ Head(s) = s[1]
      /\ \A i \in 1..Len(r) : r[i] = s[i + 1]
  OBVIOUS
<1> HIDE DEF r
<1>2. Head(s) \in Elems(s)
  BY <1>1 DEF Elems
<1>3. ASSUME NEW x \in Elems(r) PROVE x \in Elems(s) /\ x # Head(s)
  <2>1. PICK i \in 1..Len(r) : x = r[i]
    BY <1>3 DEF Elems
  <2>2. i + 1 \in 1..Len(s) /\ x = s[i + 1] /\ i + 1 # 1
    BY <1>1, <2>1
  <2> QED
    BY <1>1, <2>2 DEF Elems, Distinct
<1>4. ASSUME NEW x \in Elems(s), x # Head(s) PROVE x \in Elems(r)
  <2>1. PICK i \in 1..Len(s) : x = s[i]
    BY <1>4 DEF Elems
  <2>2. i - 1 \in 1..Len(r) /\ x = r[i - 1]
    BY <1>1, <1>4, <2>1
  <2> QED
    BY <2>2 DEF Elems
<1>5. Distinct(r)
  <2> SUFFICES ASSUME NEW i \in 1..Len(r), NEW j \in 1..Len(r), r[i] = r[j]
               PROVE  i = j
    BY DEF Distinct
  <2>1. s[i + 1] = s[j + 1] /\ i + 1 \in 1..Len(s) /\ j + 1 \in 1..Len(s)
    BY <1>1
  <2>2. i + 1 = j + 1
    BY <2>1 DEF Distinct
  <2> QED
    BY <2>2
<1> QED
  BY <1>2, <1>3, <1>4, <1>5 DEF r

LEMMA AscendingTail ==
    ASSUME NEW s \in Seq(Nat), Ascending(s), s # <<>>
    PROVE  /\ Ascending(Tail(s))
           /\ \A x \in Elems(s) : Head(s) <= x
<1> DEFINE r == Tail(s)
<1>1. /\ Len(s) \in Nat /\ Len(s) >= 1 /\ Len(r) = Len(s) - 1
      /\ Head(s) = s[1]
      /\ \A i \in 1..Len(r) : r[i] = s[i + 1]
      /\ \A i \in 1..Len(s) : s[i] \in Nat
  OBVIOUS
<1> HIDE DEF r
<1>2. Ascending(r)
  <2> SUFFICES ASSUME NEW i \in 1..Len(r), NEW j \in 1..Len(r), i < j
               PROVE  r[i] < r[j]
    BY DEF Ascending
  <2>1. i + 1 \in 1..Len(s) /\ j + 1 \in 1..Len(s) /\ i + 1 < j + 1
    BY <1>1
  <2> QED
    BY <1>1, <2>1 DEF Ascending
<1>3. \A x \in Elems(s) : Head(s) <= x
  <2> SUFFICES ASSUME NEW i \in 1..Len(s) PROVE s[1] <= s[i]
    BY <1>1 DEF Elems
  <2>1. CASE i = 1
    BY <1>1, <2>1
  <2>2. CASE i # 1
    BY <1>1, <2>2 DEF Ascending
  <2> QED
    BY <2>1, <2>2
<1> QED
  BY <1>2, <1>3 DEF r

LEMMA AscendingDistinct ==
    ASSUME NEW s \in Seq(Nat), Ascending(s)
    PROVE  Distinct(s)
<1> SUFFICES ASSUME NEW i \in 1..Len(s), NEW j \in 1..Len(s), s[i] = s[j], i # j
             PROVE  FALSE
  BY DEF Distinct
<1>1. s[i] \in Nat /\ s[j] \in Nat
  OBVIOUS
<1>2. CASE i < j
  BY <1>1, <1>2 DEF Ascending
<1>3. CASE j < i
  BY <1>1, <1>3 DEF Ascending
<1> QED
  BY <1>2, <1>3

LEMMA ElemsConcat ==
    ASSUME NEW S, NEW s \in Seq(S), NEW r \in Seq(S)
    PROVE  /\ Elems(s \o r) = Elems(s) \cup Elems(r)
           /\ Distinct(s) /\ Distinct(r) /\ Elems(s) \cap Elems(r) = {} => Distinct(s \o r)
<1> DEFINE c == s \o r
           n == Len(s)
<1>1. /\ n \in Nat /\ Len(r) \in Nat
      /\ Len(c) = n + Len(r)
      /\ \A i \in 1..n : c[i] = s[i]
      /\ \A i \in 1..Len(c) : i > n => c[i] = r[i - n]
  OBVIOUS
<1> HIDE DEF c
<1>2. \A i \in 1..Len(c) : i \in 1..n \/ (i > n /\ i - n \in 1..Len(r))
  BY <1>1
<1>3. \A i \in 1..Len(r) : i + n \in 1..Len(c) /\ i + n > n /\ (i + n) - n = i
  BY <1>1
<1>4. ASSUME NEW x \in Elems(c) PROVE x \in Elems(s) \cup Elems(r)
  BY <1>1, <1>2 DEF Elems
<1>5. ASSUME NEW x \in Elems(s) PROVE x \in Elems(c)
  <2>1. \A i \in 1..n : i \in 1..Len(c)
    BY <1>1
  <2> QED
    BY <1>1, <2>1 DEF Elems
<1>6. ASSUME NEW x \in Elems(r) PROVE x \in Elems(c)
  <2>1. PICK i \in 1..Len(r) : x = r[i]
    BY DEF Elems
  <2>2. i + n \in 1..Len(c) /\ c[i + n] = x
    BY <1>1, <1>3, <2>1
  <2> QED
    BY <2>2 DEF Elems
<1>7. ASSUME Distinct(s), Distinct(r), Elems(s) \cap Elems(r) = {} PROVE Distinct(c)
  <2> SUFFICES ASSUME NEW i \in 1..Len(c), NEW j \in 1..Len(c), c[i] = c[j]
               PROVE  i = j
    BY DEF Distinct
  <2>1. CASE i \in 1..n /\ j \in 1..n
    BY <1>1, <1>7, <2>1 DEF Distinct
  <2>2. CASE i > n /\ j > n
    <3>1. i - n \in 1..Len(r) /\ j - n \in 1..Len(r) /\ r[i - n] = r[j - n]
      BY <1>1, <1>2, <2>2
    <3>2. i - n = j - n
      BY <1>7, <3>1 DEF Distinct
    <3> QED
      BY <1>1, <3>2
  <2>3. \A k \in 1..n : c[k] \in Elems(s)
    BY <1>1 DEF Elems
  <2>4. \A k \in 1..Len(c) : k > n => c[k] \in Elems(r)
    BY <1>1, <1>2 DEF Elems
  <2> QED
    BY <1>2, <1>7, <2>1, <2>2, <2>3, <2>4
<1> QED
  BY <1>4, <1>5, <1>6, <1>7 DEF c

\* A sequence has no more elements than places.
LEMMA ElemsCardinality ==
    ASSUME NEW S, NEW s \in Seq(S)
    PROVE  Cardinality(Elems(s)) \in Nat /\ Cardinality(Elems(s)) <= Len(s)
<1> DEFINE n == Len(s)
           f == [i \in 1..n |-> s[i]]
<1>1. n \in Nat /\ f \in Surjection(1..n, Elems(s))
  BY DEF Surjection, Elems
<1> HIDE DEF n, f
<1>2. IsFiniteSet(1..n) /\ Cardinality(1..n) = n
  <2>1. IsFiniteSet(1..n) /\ Cardinality(1..n) = IF 1 > n THEN 0 ELSE n - 1 + 1
    BY <1>1, FS_Interval
  <2> QED
    BY <1>1, <2>1
<1>3. IsFiniteSet(Elems(s)) /\ Cardinality(Elems(s)) <= n
  BY <1>1, <1>2, FS_Surjection
<1>4. Cardinality(Elems(s)) \in Nat
  BY <1>3, FS_CardinalityType
<1> QED
  BY <1>3, <1>4 DEF n

-----------------------------------------------------------------------------
(* The invariant.  Each unsettled promise is in one place, once; each      *)
(* place holds its promises in the order of their submission, and what a   *)
(* pump took from a queue was submitted before what is in the queue now.   *)

Main == Elems(main_queue_)
Post == Elems(post_present_queue_)
Batch == Elems(batch)
AreDeferred(T) == \A t \in T : ShouldDefer(t)

InOrder ==
    /\ Ascending(main_queue_) /\ Ascending(post_present_queue_) /\ Distinct(batch)
    /\ pc # "drain" => Ascending(batch)
    /\ Before(Batch, Main) /\ Before(Post, Main)
    /\ pc = "main" => Before(Post, Batch)

PlaceOfKind ==
    /\ AreDeferred(Post) /\ (pc = "post" => AreDeferred(Batch))
    /\ pc \notin {"main", "ui"} => Post = {}
    /\ pc \notin {"main", "post", "drain"} => batch = <<>>
    /\ pc \in {"drain", "join", "stopped"} => stopping_ /\ Main = {}

\* What is held has not begun, but for the command that a pump is executing.
HeldWaits ==
    /\ \A t \in Main \cup Post : tickets[t].phase = "queued"
    /\ \A t \in Batch : tickets[t].phase = "queued"
                      \/ (tickets[t].phase = "running" /\ Executing(t))

UnsettledIsHeld ==
    /\ Len(tickets) <= MaxTickets
    /\ Unsettled \subseteq Main \cup Post \cup Batch

QInv == InOrder /\ PlaceOfKind /\ HeldWaits /\ UnsettledIsHeld

LEMMA PlacesType ==
    ASSUME TypeOK
    PROVE  /\ Tickets \subseteq Nat \ {0}
           /\ main_queue_ \in Seq(Nat) /\ post_present_queue_ \in Seq(Nat) /\ batch \in Seq(Nat)
           /\ Main \subseteq Tickets /\ Post \subseteq Tickets /\ Batch \subseteq Tickets
<1>1. Tickets \subseteq Nat \ {0}
  BY DEF TypeOK, Tickets
<1>2. /\ main_queue_ \in Seq(Tickets)
      /\ post_present_queue_ \in Seq(Tickets)
      /\ batch \in Seq(Tickets)
  BY DEF TypeOK
<1>3. main_queue_ \in Seq(Nat) /\ post_present_queue_ \in Seq(Nat) /\ batch \in Seq(Nat)
  BY <1>1, <1>2, SeqWiden
<1> QED
  BY <1>1, <1>2, <1>3, ElemsType DEF Main, Post, Batch

\* No promise is held in two places.
LEMMA PlacesApart ==
    ASSUME TypeOK, QInv
    PROVE  Main \cap Batch = {} /\ Post \cap Batch = {} /\ Main \cap Post = {}
<1>1. Batch # {} => pc \in {"main", "post", "drain"}
  BY ElemsEmpty DEF QInv, PlaceOfKind, Batch
<1>2. \A x, y \in Nat : x < y => x # y
  OBVIOUS
<1>3. Before(Post, Batch) \/ Post = {} \/ Batch = {}
  BY <1>1 DEF QInv, PlaceOfKind, InOrder
<1> QED
  BY <1>2, <1>3, PlacesType DEF QInv, InOrder, Before

\* A step that touches neither the promises nor the places they are held in.
LEMMA PlacesKeepQInv ==
    ASSUME QInv, UNCHANGED <<tickets, main_queue_, post_present_queue_, stopping_, batch, pc>>
    PROVE  QInv'
  BY DEF QInv, InOrder, PlaceOfKind, HeldWaits, UnsettledIsHeld, Main, Post, Batch,
         Unsettled, Settled, Tickets, AreDeferred, ShouldDefer, Executing

\* A request that submit() answers itself is held nowhere.
LEMMA RefuseKeepsQInv ==
    ASSUME TypeOK, QInv, ControlBusAssumption, Len(tickets) < MaxTickets,
           NEW key \in Keys \cup {NoKey}, NEW cmd \in Commands, NEW answer \in Answers,
           Refuse(key, cmd, answer), UNCHANGED <<batch, pc>>
    PROVE  QInv'
<1> DEFINE fresh == NewTicket(key, cmd, "settled", answer)
<1>1. fresh \in Ticket /\ fresh.phase = "settled"
  BY NewTicketType DEF Phases, NewTicket
<1>2. /\ tickets' = Append(tickets, fresh)
      /\ UNCHANGED <<main_queue_, post_present_queue_, stopping_, batch, pc>>
  BY DEF Refuse, bus
<1> HIDE DEF fresh
<1>3. /\ Tickets' = Tickets \cup {Fresh}
      /\ \A s \in Tickets : tickets'[s] = tickets[s]
      /\ tickets'[Fresh] = fresh
  BY <1>1, <1>2, AppendTicket
<1>4. Main' = Main /\ Post' = Post /\ Batch' = Batch
  BY <1>2 DEF Main, Post, Batch
<1>5. Unsettled' = Unsettled
  BY <1>1, <1>3, AppendTicket, <1>2 DEF Unsettled, Settled
<1>6. Len(tickets') <= MaxTickets
  BY <1>2 DEF TypeOK, ControlBusAssumption
<1>7. \A t \in Main \cup Post \cup Batch : tickets'[t] = tickets[t]
  BY <1>3, PlacesType
<1> QED
  BY <1>2, <1>4, <1>5, <1>6, <1>7
  DEF QInv, InOrder, PlaceOfKind, HeldWaits, UnsettledIsHeld, AreDeferred, ShouldDefer, Executing

\* What submit() queues was submitted after everything else that is held.
LEMMA AdmitKeepsQInv ==
    ASSUME TypeOK, QInv, ControlBusAssumption, Len(tickets) < MaxTickets,
           NEW key \in Keys \cup {NoKey}, NEW cmd \in Commands,
           Admit(key, cmd), UNCHANGED <<batch, pc>>
    PROVE  QInv'
<1> DEFINE fresh == NewTicket(key, cmd, "queued", NoAnswer)
<1>1. fresh \in Ticket /\ fresh.phase = "queued"
  BY NewTicketType DEF Phases, NewTicket
<1>2. /\ tickets' = Append(tickets, fresh)
      /\ main_queue_' = Append(main_queue_, Fresh)
      /\ UNCHANGED <<post_present_queue_, stopping_, batch, pc>>
      /\ ~stopping_
  BY DEF Admit, Stopping
<1> HIDE DEF fresh
<1>3. /\ Tickets' = Tickets \cup {Fresh}
      /\ Fresh \in Nat
      /\ \A s \in Tickets : tickets'[s] = tickets[s]
      /\ tickets'[Fresh] = fresh
  BY <1>1, <1>2, AppendTicket
<1>4. \A t \in Tickets : t < Fresh
  BY DEF Fresh, Tickets, TypeOK
<1>5. Main' = Main \cup {Fresh} /\ Post' = Post /\ Batch' = Batch
  BY <1>2, <1>3, PlacesType, ElemsAppend DEF Main, Post, Batch
<1>6. InOrder'
  <2>1. Ascending(main_queue_)'
    BY <1>2, <1>3, <1>4, PlacesType, AscendingAppend DEF QInv, InOrder, Before, Main
  <2>2. Before(Batch, Main)' /\ Before(Post, Main)'
    BY <1>4, <1>5, PlacesType DEF QInv, InOrder, Before
  <2> QED
    BY <1>2, <1>5, <2>1, <2>2 DEF QInv, InOrder
<1>7. \A t \in Main \cup Post \cup Batch : tickets'[t] = tickets[t]
  BY <1>3, PlacesType
<1>8. PlaceOfKind'
  BY <1>2, <1>5, <1>7 DEF QInv, PlaceOfKind, AreDeferred, ShouldDefer
<1>9. HeldWaits'
  BY <1>1, <1>2, <1>3, <1>5, <1>7 DEF QInv, HeldWaits, Executing, ShouldDefer
<1>10. UnsettledIsHeld'
  <2>1. Len(tickets') <= MaxTickets
    BY <1>2 DEF TypeOK, ControlBusAssumption
  <2>2. Unsettled' \subseteq Unsettled \cup {Fresh}
    BY <1>3 DEF Unsettled, Settled
  <2> QED
    BY <1>5, <2>1, <2>2 DEF QInv, UnsettledIsHeld
<1> QED
  BY <1>6, <1>8, <1>9, <1>10 DEF QInv

\* The main thread settles the promise at the head of its batch.
LEMMA SettleKeepsQInv ==
    ASSUME TypeOK, QInv, batch # <<>>, NEW t \in Tickets, t = Head(batch),
           NEW answer \in Answers, Settle(t, answer),
           batch' = Tail(batch), UNCHANGED <<bus, pc>>
    PROVE  QInv'
<1>1. /\ UNCHANGED <<main_queue_, post_present_queue_, stopping_, pc>>
      /\ Main' = Main /\ Post' = Post
  BY DEF bus, Main, Post
<1>2. /\ t \in Batch
      /\ Batch' = Batch \ {t}
      /\ Distinct(batch)'
  BY PlacesType, DistinctTail DEF QInv, InOrder, Batch
<1>3. /\ Tickets' = Tickets
      /\ \A s \in Tickets : s # t => tickets'[s] = tickets[s]
      /\ Settled(t)'
  BY SettleStep
<1>4. \A s \in Main \cup Post \cup Batch' : tickets'[s] = tickets[s]
  BY <1>2, <1>3, PlacesApart, PlacesType
<1>5. InOrder'
  <2>1. pc # "drain" => Ascending(batch')
    BY PlacesType, AscendingTail DEF QInv, InOrder
  <2> QED
    BY <1>1, <1>2, <2>1 DEF QInv, InOrder, Before
<1>6. PlaceOfKind'
  <2>1. pc \in {"main", "post", "drain"}
    BY DEF QInv, PlaceOfKind
  <2> QED
    BY <1>1, <1>2, <1>4, <2>1 DEF QInv, PlaceOfKind, AreDeferred, ShouldDefer
<1>7. HeldWaits'
  <2>1. \A s \in Batch' : tickets[s].phase = "queued"
    BY <1>2 DEF QInv, HeldWaits, Executing
  <2> QED
    BY <1>1, <1>4, <2>1 DEF QInv, HeldWaits
<1>8. UnsettledIsHeld'
  <2>1. Unsettled' \subseteq Unsettled \ {t}
    BY <1>3 DEF Unsettled, Settled
  <2>2. Len(tickets') = Len(tickets)
    BY DEF Settle, TypeOK
  <2> QED
    BY <1>1, <1>2, <2>1, <2>2 DEF QInv, UnsettledIsHeld
<1> QED
  BY <1>5, <1>6, <1>7, <1>8 DEF QInv

\* A pump begins the command at the head of its batch, which stays there.
LEMMA StartKeepsQInv ==
    ASSUME TypeOK, QInv, NEW t \in Tickets, Start(t)
    PROVE  QInv'
<1>1. /\ UNCHANGED <<main_queue_, post_present_queue_, stopping_, batch, pc>>
      /\ Main' = Main /\ Post' = Post /\ Batch' = Batch
  BY DEF Start, bus, Main, Post, Batch
<1>2. /\ Tickets' = Tickets
      /\ \A s \in Tickets : /\ tickets'[s].cmd = tickets[s].cmd
                            /\ s # t => tickets'[s] = tickets[s]
      /\ tickets'[t].phase = "running"
      /\ ~Settled(t)
  BY StartStep
<1>3. batch # <<>> /\ t = Head(batch) /\ Executing(t)
  BY DEF Start, Executing
<1>4. t \notin Main \cup Post
  BY <1>3, PlacesApart, PlacesType, DistinctTail DEF QInv, InOrder, Batch
<1>5. InOrder' /\ PlaceOfKind'
  BY <1>1, <1>2, PlacesType
  DEF QInv, InOrder, PlaceOfKind, AreDeferred, ShouldDefer
<1>6. HeldWaits'
  <2>1. Executing(t)'
    BY <1>1, <1>2, <1>3 DEF Executing, ShouldDefer
  <2>2. \A s \in Main \cup Post : tickets'[s].phase = "queued"
    BY <1>2, <1>4, PlacesType DEF QInv, HeldWaits
  <2>3. \A s \in Batch : s # t => tickets'[s].phase = "queued"
    BY <1>2, <1>3, PlacesType DEF QInv, HeldWaits, Executing
  <2> QED
    BY <1>1, <1>2, <2>1, <2>2, <2>3 DEF HeldWaits
<1>7. UnsettledIsHeld'
  <2>1. Unsettled' = Unsettled
    BY <1>2 DEF Unsettled, Settled
  <2>2. Len(tickets') = Len(tickets)
    BY DEF Start, TypeOK
  <2> QED
    BY <1>1, <2>1, <2>2 DEF QInv, UnsettledIsHeld
<1> QED
  BY <1>5, <1>6, <1>7 DEF QInv

\* The steps of the main thread that move promises and settle none.
LEMMA MoveKeepsQInv ==
    ASSUME TypeOK, QInv,
           PumpMain \/ Defer \/ EndMain \/ PumpPost \/ EndPost \/ StopBus \/ StopServer \/ Join
    PROVE  QInv'
<1>0. /\ UNCHANGED tickets
      /\ Unsettled' = Unsettled /\ Len(tickets') = Len(tickets)
  BY DEF PumpMain, Defer, EndMain, PumpPost, EndPost, StopBus, StopServer, Join,
         Unsettled, Settled, Tickets
<1> USE DEF AreDeferred, ShouldDefer, Before
<1>1. CASE PumpMain
  <2>1. Main' = {} /\ Post' = Post /\ Batch' = Main /\ Batch = {}
    BY <1>1, ElemsEmpty DEF PumpMain, Main, Post, Batch, QInv, PlaceOfKind
  <2>2. Ascending(main_queue_') /\ Distinct(batch') /\ Ascending(batch')
    BY <1>1, ElemsEmpty, PlacesType, AscendingDistinct DEF PumpMain, QInv, InOrder
  <2> QED
    BY <1>0, <1>1, <2>1, <2>2
    DEF PumpMain, QInv, InOrder, PlaceOfKind, HeldWaits, UnsettledIsHeld
<1>2. CASE Defer
  <2> DEFINE t == Head(batch)
  <2>1. /\ pc = "main" /\ pc' = "main" /\ batch # <<>> /\ ShouldDefer(t)
        /\ post_present_queue_' = Append(post_present_queue_, t)
        /\ batch' = Tail(batch)
        /\ UNCHANGED <<main_queue_, stopping_>>
    BY <1>2 DEF Defer
  <2>2. t \in Batch /\ t \in Nat
    BY <2>1, PlacesType, DistinctTail DEF QInv, InOrder, Batch
  <2>3. /\ Main' = Main /\ Post' = Post \cup {t} /\ Batch' = Batch \ {t}
        /\ Distinct(batch') /\ Ascending(batch')
        /\ \A s \in Batch' : t < s
    BY <2>1, <2>2, PlacesType, DistinctTail, AscendingTail, ElemsAppend
    DEF QInv, InOrder, Main, Post, Batch
  <2>4. Ascending(post_present_queue_')
    BY <2>1, <2>2, PlacesType, AscendingAppend DEF QInv, InOrder, Post
  <2>5. \A s \in Batch : tickets[s].phase = "queued"
    BY <2>1 DEF QInv, HeldWaits, Executing
  <2> HIDE DEF t
  <2>6. InOrder'
    BY <2>1, <2>2, <2>3, <2>4 DEF QInv, InOrder
  <2> QED
    BY <1>0, <2>1, <2>2, <2>3, <2>5, <2>6
    DEF QInv, PlaceOfKind, HeldWaits, UnsettledIsHeld
<1>3. CASE PumpPost
  <2>1. Main' = Main /\ Post' = {} /\ Batch' = Post /\ Batch = {}
    BY <1>3, ElemsEmpty DEF PumpPost, Main, Post, Batch, QInv, PlaceOfKind
  <2>2. Ascending(post_present_queue_') /\ Distinct(batch') /\ Ascending(batch')
    BY <1>3, ElemsEmpty, PlacesType, AscendingDistinct DEF PumpPost, QInv, InOrder
  <2> QED
    BY <1>0, <1>3, <2>1, <2>2
    DEF PumpPost, QInv, InOrder, PlaceOfKind, HeldWaits, UnsettledIsHeld
<1>4. CASE StopBus
  <2>1. /\ Main' = {} /\ Post' = {} /\ Batch' = Main \cup Post /\ Batch = {} /\ Post = {}
        /\ Distinct(batch')
    BY <1>4, ElemsEmpty, ElemsConcat, PlacesType, AscendingDistinct
    DEF StopBus, SwappedOut, Main, Post, Batch, QInv, InOrder, PlaceOfKind
  <2>2. Ascending(main_queue_') /\ Ascending(post_present_queue_')
    BY <1>4, ElemsEmpty DEF StopBus
  <2> QED
    BY <1>0, <1>4, <2>1, <2>2
    DEF StopBus, QInv, InOrder, PlaceOfKind, HeldWaits, UnsettledIsHeld
<1>5. CASE EndMain \/ EndPost \/ StopServer \/ Join
  <2>1. /\ UNCHANGED <<main_queue_, post_present_queue_, stopping_, batch>>
        /\ Main' = Main /\ Post' = Post /\ Batch' = Batch
    BY <1>5 DEF EndMain, EndPost, StopServer, Join, bus, Main, Post, Batch
  <2>2. batch = <<>> /\ Batch = {}
    BY <1>5, ElemsEmpty DEF EndMain, EndPost, StopServer, Join, Batch, QInv, PlaceOfKind
  <2> QED
    BY <1>0, <1>5, <2>1, <2>2, ElemsEmpty
    DEF EndMain, EndPost, StopServer, Join, QInv, InOrder, PlaceOfKind, HeldWaits, UnsettledIsHeld
<1> QED
  BY <1>1, <1>2, <1>3, <1>4, <1>5

LEMMA QInvHolds == Spec => [](TypeOK /\ QInv)
<1>1. Init => QInv
  BY ElemsEmpty, ControlBusAssumption
  DEF Init, QInv, InOrder, PlaceOfKind, HeldWaits, UnsettledIsHeld, Main, Post, Batch,
      Unsettled, Tickets, Before, AreDeferred, ControlBusAssumption
<1>2. TypeOK /\ QInv /\ [Next]_vars => QInv'
  <2> SUFFICES ASSUME TypeOK, QInv, [Next]_vars PROVE QInv'
    OBVIOUS
  <2> USE ControlBusAssumption
  <2>1. CASE Accept \/ HangUp \/ Reply \/ Timeout \/ Tick \/ UNCHANGED vars
    BY <2>1, PlacesKeepQInv DEF Accept, HangUp, Reply, Timeout, Tick, vars, bus
  <2>2. ASSUME NEW key \in Keys \cup {NoKey}, NEW cmd \in Commands, Submit(key, cmd)
        PROVE  QInv'
    <3>0. Len(tickets) < MaxTickets /\ UNCHANGED <<batch, pc>>
      BY <2>2 DEF Submit
    <3>1. CASE Retry(key, cmd)
      BY <3>0, <3>1, PlacesKeepQInv DEF Retry, bus
    <3>2. CASE Conflict(key, cmd) \/ ShutDown(key, cmd) \/ Busy(key, cmd)
      BY <3>0, <3>2, RefuseKeepsQInv DEF Conflict, ShutDown, Busy, Answers
    <3>3. CASE Admit(key, cmd)
      BY <3>0, <3>3, AdmitKeepsQInv
    <3> QED
      BY <2>2, <3>1, <3>2, <3>3 DEF Submit
  <2>3. ASSUME NEW t \in Tickets, Expire(t) \/ Finish(t)
        PROVE  QInv'
    BY <2>3, SettleKeepsQInv DEF Expire, Finish, Executing, Answers
  <2>4. CASE Drain
    <3>1. Head(batch) \in Tickets
      BY <2>4, SeqParts DEF Drain, TypeOK
    <3> QED
      BY <2>4, <3>1, SettleKeepsQInv DEF Drain, Answers
  <2>5. ASSUME NEW t \in Tickets, Start(t)
        PROVE  QInv'
    BY <2>5, StartKeepsQInv
  <2> QED
    BY <2>1, <2>2, <2>3, <2>4, <2>5, MoveKeepsQInv
    DEF Next, Request, MainThread, Execute, Terminated
<1> QED
  BY <1>1, <1>2, TypeCorrect, PTL DEF Spec

-----------------------------------------------------------------------------
\* When a pump starts a command, every earlier one of its kind, deferred or
\* not, has its result: nothing overtakes (ControlBus::pump, should_defer).
THEOREM KindsStayInOrder == Spec => SubmissionOrder
<1>1. ASSUME TypeOK, QInv, NEW t \in Tickets, Start(t), NEW s \in 1..(t - 1),
             ShouldDefer(s) = ShouldDefer(t)
      PROVE  Settled(s)
  <2> SUFFICES ASSUME ~Settled(s) PROVE FALSE
    OBVIOUS
  <2>1. s \in Tickets /\ s \in Nat /\ t \in Nat /\ s < t
    BY <1>1 DEF TypeOK, Tickets
  <2>2. s \in Main \cup Post \cup Batch
    BY <1>1, <2>1 DEF QInv, UnsettledIsHeld, Unsettled
  <2>3. /\ batch # <<>> /\ t = Head(batch)
        /\ (pc = "main" /\ ~ShouldDefer(t)) \/ pc = "post"
    BY <1>1 DEF Start, Executing
  <2>4. t \in Batch /\ \A u \in Batch : t <= u
    BY <1>1, <2>3, PlacesType, DistinctTail, AscendingTail DEF QInv, InOrder, Batch
  <2>5. CASE s \in Main
    BY <1>1, <2>1, <2>4, <2>5 DEF QInv, InOrder, Before
  <2>6. CASE s \in Post
    BY <1>1, <2>3, <2>6 DEF QInv, PlaceOfKind, AreDeferred
  <2>7. CASE s \in Batch
    BY <2>1, <2>4, <2>7
  <2> QED
    BY <2>2, <2>5, <2>6, <2>7
<1>2. TypeOK /\ QInv /\ [Next]_vars =>
        [\A t \in Tickets : Start(t) =>
           \A s \in 1..(t - 1) : ShouldDefer(s) = ShouldDefer(t) => Settled(s)]_vars
  BY <1>1
<1> QED
  BY <1>2, QInvHolds, PTL DEF Spec, SubmissionOrder

-----------------------------------------------------------------------------
(* The retry cache: request_order_ lists the keys of requests_, each once, *)
(* so that the length it is bounded by is the number of keys remembered.   *)

CacheOrdered ==
    /\ Distinct(request_order_) /\ Len(request_order_) <= CacheCap
    /\ \A k \in Keys : requests_[k] # 0 <=> k \in Elems(request_order_)

\* submit() adds a key that was absent, and makes room first when it must.
LEMMA AdmitKeepsCache ==
    ASSUME TypeOK, CacheOrdered, ControlBusAssumption,
           NEW key \in Keys \cup {NoKey}, NEW cmd \in Commands, Admit(key, cmd)
    PROVE  CacheOrdered'
<1>0. request_order_ \in Seq(Keys) /\ Fresh # 0 /\ CacheCap \in Nat \ {0}
  BY DEF TypeOK, Fresh, ControlBusAssumption
<1>1. CASE ~Remembered(key)
  BY <1>1 DEF Admit, CacheOrdered
<1>2. CASE Remembered(key) /\ ~CacheFull
  <2>1. /\ key \in Keys /\ requests_[key] = 0
        /\ requests_' = [requests_ EXCEPT ![key] = Fresh]
        /\ request_order_' = Append(request_order_, key)
    BY <1>2 DEF Admit, Remember, Remembered, Cached
  <2>2. /\ Distinct(request_order_')
        /\ Elems(request_order_') = Elems(request_order_) \cup {key}
    BY <1>0, <2>1, DistinctAppend, ElemsAppend DEF CacheOrdered
  <2>3. Len(request_order_') <= CacheCap
    BY <1>0, <1>2, <2>1 DEF CacheFull
  <2>4. \A k \in Keys : requests_'[k] # 0 <=> k \in Elems(request_order_')
    BY <1>0, <2>1, <2>2 DEF CacheOrdered, TypeOK
  <2> QED
    BY <2>2, <2>3, <2>4 DEF CacheOrdered
<1>3. CASE Remembered(key) /\ CacheFull
  <2> DEFINE old == Head(request_order_)
             rest == Tail(request_order_)
  <2>0. request_order_ # <<>>
    BY <1>0, <1>3 DEF CacheFull
  <2>1. /\ key \in Keys /\ requests_[key] = 0
        /\ requests_' = [requests_ EXCEPT ![old] = 0, ![key] = Fresh]
        /\ request_order_' = Append(rest, key)
    BY <1>3 DEF Admit, Remember, Remembered, Cached
  <2>2. /\ rest \in Seq(Keys) /\ Len(rest) = Len(request_order_) - 1
        /\ old \in Elems(request_order_)
        /\ Elems(rest) = Elems(request_order_) \ {old}
        /\ Distinct(rest)
    BY <1>0, <2>0, DistinctTail DEF CacheOrdered
  <2> HIDE DEF old, rest
  <2>3. /\ Distinct(request_order_')
        /\ Elems(request_order_') = Elems(rest) \cup {key}
    BY <2>1, <2>2, DistinctAppend, ElemsAppend DEF CacheOrdered
  <2>4. Len(request_order_') <= CacheCap
    BY <1>0, <2>1, <2>2 DEF CacheOrdered
  <2>5. \A k \in Keys : requests_'[k] # 0 <=> k \in Elems(request_order_')
    BY <1>0, <2>1, <2>2, <2>3 DEF CacheOrdered, TypeOK
  <2> QED
    BY <2>3, <2>4, <2>5 DEF CacheOrdered
<1> QED
  BY <1>1, <1>2, <1>3

LEMMA CacheHolds == Spec => []CacheOrdered
<1>1. Init => CacheOrdered
  BY ElemsEmpty, ControlBusAssumption DEF Init, CacheOrdered, ControlBusAssumption
<1>2. TypeOK /\ CacheOrdered /\ [Next]_vars => CacheOrdered'
  <2> SUFFICES ASSUME TypeOK, CacheOrdered, [Next]_vars PROVE CacheOrdered'
    OBVIOUS
  <2>1. CASE UNCHANGED <<requests_, request_order_>>
    BY <2>1 DEF CacheOrdered
  <2>2. ASSUME NEW key \in Keys \cup {NoKey}, NEW cmd \in Commands, Submit(key, cmd)
        PROVE  CacheOrdered'
    BY <2>1, <2>2, AdmitKeepsCache, ControlBusAssumption
    DEF Submit, Retry, Conflict, ShutDown, Busy, Refuse, bus
  <2>3. CASE Execute
    BY <2>1, <2>3 DEF Execute, Expire, Start, Finish, bus
  <2> QED
    BY <2>1, <2>2, <2>3
    DEF Next, Request, MainThread, Accept, HangUp, Reply, Timeout, Tick, Terminated, PumpMain,
        Defer, EndMain, PumpPost, EndPost, StopBus, Drain, StopServer, Join, vars, bus
<1> QED
  BY <1>1, <1>2, TypeCorrect, PTL DEF Spec

-----------------------------------------------------------------------------
(* The refinement.  Progress of a promise is what RetryWindow knows of it. *)

LEMMA SameProgress ==
    ASSUME UNCHANGED <<tickets, requests_>>
    PROVE  UNCHANGED Window!vars
  BY DEF Window!vars, Progress, Tickets

\* A step that changes how far one promise got is a step of RetryWindow.
LEMMA ProgressOf ==
    ASSUME TypeOK, QInv, NEW t \in Tickets, Tickets' = Tickets,
           \A s \in Tickets : s # t => tickets'[s] = tickets[s],
           UNCHANGED requests_, NEW from, NEW to,
           Progress(t) = from, Progress(t)' = to
    PROVE  Window!Become(t, from, to) /\ t \in 1..MaxTickets
<1>1. t \in 1..MaxTickets
  BY ControlBusAssumption DEF ControlBusAssumption, TypeOK, Tickets, QInv, UnsettledIsHeld
<1>2. \A s \in 1..MaxTickets : s # t => Progress(s)' = Progress(s)
  BY DEF Progress
<1> QED
  BY <1>1, <1>2 DEF Window!Become

\* A promise that submit() makes is the next one, and the others stay as they are.
LEMMA ProgressOfFresh ==
    ASSUME TypeOK, Len(tickets) < MaxTickets, NEW t, t = Fresh,
           NEW ticket \in Ticket, tickets' = Append(tickets, ticket)
    PROVE  /\ t \in 1..MaxTickets
           /\ Progress(t) = "absent"
           /\ \A s \in 1..MaxTickets : s # t => Progress(s)' = Progress(s)
           /\ ticket.phase = "queued" => Progress(t)' = "pending"
           /\ ticket.phase = "settled" /\ ticket.answer # "DONE" => Progress(t)' = "refused"
<1>1. /\ Tickets' = Tickets \cup {t}
      /\ t \notin Tickets
      /\ \A s \in Tickets : tickets'[s] = tickets[s]
      /\ tickets'[t] = ticket
  BY AppendTicket
<1>2. t \in 1..MaxTickets
  BY ControlBusAssumption DEF ControlBusAssumption, Fresh, TypeOK
<1>3. \A s \in 1..MaxTickets : s # t => Progress(s)' = Progress(s)
  BY <1>1 DEF Progress
<1>4. /\ ticket.phase = "queued" => Progress(t)' = "pending"
      /\ ticket.phase = "settled" /\ ticket.answer # "DONE" => Progress(t)' = "refused"
  BY <1>1 DEF Progress
<1> QED
  BY <1>1, <1>2, <1>3, <1>4 DEF Progress

\* (The instance has a copy of Cardinality, hence the definitions at the end of <3>.)
LEMMA StepOfWindow ==
    ASSUME TypeOK, QInv, CacheOrdered, CacheOrdered', TypeOK', [Next]_vars
    PROVE  [Window!Next]_(Window!vars)
<1> USE ControlBusAssumption
<1>1. CASE UNCHANGED <<tickets, requests_>>
  BY <1>1, SameProgress
<1>2. ASSUME NEW key \in Keys \cup {NoKey}, NEW cmd \in Commands, NEW answer \in Answers \ {"DONE"},
             Len(tickets) < MaxTickets, Refuse(key, cmd, answer)
      PROVE  Window!Next
  <2> DEFINE fresh == NewTicket(key, cmd, "settled", answer)
  <2>1. /\ fresh \in Ticket /\ fresh.phase = "settled" /\ fresh.answer # "DONE"
        /\ tickets' = Append(tickets, fresh)
        /\ UNCHANGED requests_
    BY <1>2, NewTicketType DEF Phases, NewTicket, Refuse, bus
  <2> HIDE DEF fresh
  <2>2. PICK t : t = Fresh
    OBVIOUS
  <2>3. Window!Become(t, "absent", "refused") /\ t \in 1..MaxTickets
    BY <1>2, <2>1, <2>2, ProgressOfFresh DEF Window!Become
  <2> QED
    BY <2>3 DEF Window!Next, Window!Reject
<1>3. ASSUME NEW key \in Keys \cup {NoKey}, NEW cmd \in Commands,
             Len(tickets) < MaxTickets, Admit(key, cmd)
      PROVE  Window!Next
  <2> DEFINE fresh == NewTicket(key, cmd, "queued", NoAnswer)
  <2>1. /\ fresh \in Ticket /\ fresh.phase = "queued"
        /\ tickets' = Append(tickets, fresh)
    BY <1>3, NewTicketType DEF Phases, NewTicket, Admit
  <2> HIDE DEF fresh
  <2>2. PICK t : t = Fresh
    OBVIOUS
  <2>3. /\ t \in 1..MaxTickets
        /\ Progress(t) = "absent" /\ Progress(t)' = "pending"
        /\ \A s \in 1..MaxTickets : s # t => Progress(s)' = Progress(s)
    BY <1>3, <2>1, <2>2, ProgressOfFresh
  <2>4. Window!Accept(t, key)
    <3>1. key \in Keys => requests_[key] = 0
      BY <1>3 DEF Admit, Cached
    <3>2. Cardinality({k \in Keys : requests_'[k] # 0}) <= CacheCap
      <4> DEFINE S == {k \in Keys : requests_'[k] # 0}
      <4>1. request_order_' \in Seq(Keys) /\ Len(request_order_') <= CacheCap
        BY DEF TypeOK, CacheOrdered
      <4>2. S = Elems(request_order_')
        BY <4>1, ElemsType DEF CacheOrdered
      <4> HIDE DEF S
      <4>3. Cardinality(Elems(request_order_')) <= Len(request_order_')
        BY <4>1, ElemsCardinality
      <4>4. Cardinality(Elems(request_order_')) \in Nat /\ Len(request_order_') \in Nat
        BY <4>1, ElemsCardinality
      <4>5. Cardinality(S) <= CacheCap
        BY <4>1, <4>2, <4>3, <4>4 DEF ControlBusAssumption
      <4> QED
        BY <4>5 DEF S
    <3>3. \E forgotten \in
             SUBSET {k \in Window!Remembered(requests_) : Window!Known(requests_[k])} :
             requests_' = [k \in Keys |-> IF k = key THEN t
                                         ELSE IF k \in forgotten THEN 0 ELSE requests_[k]]
      <4>1. CASE ~Remembered(key)
        <5>1. requests_' = requests_ /\ key \notin Keys
          BY <1>3, <4>1 DEF Admit, Remembered
        <5>2. PICK none : none = {}
          OBVIOUS
        <5>3. requests_' = [k \in Keys |-> IF k = key THEN t
                                          ELSE IF k \in none THEN 0 ELSE requests_[k]]
          BY <5>1, <5>2 DEF TypeOK
        <5> QED
          BY <5>2, <5>3
      <4>2. CASE Remembered(key) /\ ~CacheFull
        <5>1. requests_' = [requests_ EXCEPT ![key] = t] /\ key \in Keys
          BY <1>3, <2>2, <4>2 DEF Admit, Remember, Remembered
        <5>2. PICK none : none = {}
          OBVIOUS
        <5>3. requests_' = [k \in Keys |-> IF k = key THEN t
                                          ELSE IF k \in none THEN 0 ELSE requests_[k]]
          BY <5>1, <5>2 DEF TypeOK
        <5> QED
          BY <5>2, <5>3
      <4>3. CASE Remembered(key) /\ CacheFull
        <5> DEFINE old == Head(request_order_)
        <5>0. request_order_ \in Seq(Keys) /\ request_order_ # <<>>
          BY <4>3 DEF CacheFull, TypeOK, ControlBusAssumption
        <5>1. /\ requests_' = [requests_ EXCEPT ![old] = 0, ![key] = t]
              /\ key \in Keys /\ Settled(requests_[old])
          BY <1>3, <2>2, <4>3 DEF Admit, Remember, Remembered, Evictable
        <5>2. old \in Keys /\ requests_[old] # 0
          BY <5>0, DistinctTail, SeqParts DEF CacheOrdered
        <5> HIDE DEF old
        <5>3. requests_[old] \in Tickets /\ requests_[old] \in 1..MaxTickets
          BY <5>2 DEF TypeOK, Tickets, QInv, UnsettledIsHeld, ControlBusAssumption
        <5>4. old \in {k \in Window!Remembered(requests_) : Window!Known(requests_[k])}
          BY <5>1, <5>2, <5>3
          DEF Window!Remembered, Window!Known, Window!Outcome, Progress, Settled
        <5>5. requests_' = [k \in Keys |-> IF k = key THEN t
                                          ELSE IF k \in {old} THEN 0 ELSE requests_[k]]
          BY <5>1, <5>2 DEF TypeOK
        <5> QED
          BY <5>4, <5>5
      <4> QED
        BY <4>1, <4>2, <4>3
    <3>4. [s \in 1..MaxTickets |-> Progress(s)']
          = [[s \in 1..MaxTickets |-> Progress(s)] EXCEPT ![t] = "pending"]
      BY <2>3
    <3> QED
      BY <2>3, <3>1, <3>2, <3>3, <3>4
      DEF Window!Accept, Window!Remembered, Window!Cardinality, Cardinality
  <2> QED
    BY <2>3, <2>4 DEF Window!Next
<1>4. ASSUME NEW t \in Tickets, NEW answer \in Answers, Settle(t, answer), UNCHANGED bus,
             \/ tickets[t].phase = "running" /\ answer = "DONE"
             \/ tickets[t].phase = "queued" /\ answer # "DONE"
      PROVE  Window!Next
  <2>1. /\ Tickets' = Tickets
        /\ \A s \in Tickets : s # t => tickets'[s] = tickets[s]
    BY <1>4, SettleStep
  <2>2. tickets'[t].phase = "settled" /\ tickets'[t].answer = answer
    BY <1>4, SettleStep DEF Settled
  <2>3. UNCHANGED requests_
    BY <1>4 DEF bus
  <2>4. CASE tickets[t].phase = "running" /\ answer = "DONE"
    <3>1. Progress(t) = "begun" /\ Progress(t)' = "applied"
      BY <1>4, <2>1, <2>2, <2>4 DEF Progress
    <3> QED
      BY <1>4, <2>1, <2>3, <3>1, ProgressOf DEF Window!Next, Window!Apply
  <2>5. CASE tickets[t].phase = "queued" /\ answer # "DONE"
    <3>1. Progress(t) = "pending" /\ Progress(t)' = "refused"
      BY <1>4, <2>1, <2>2, <2>5 DEF Progress
    <3> QED
      BY <1>4, <2>1, <2>3, <3>1, ProgressOf DEF Window!Next, Window!Refuse
  <2> QED
    BY <1>4, <2>4, <2>5
<1>5. ASSUME NEW t \in Tickets, Expire(t) \/ Finish(t)
      PROVE  Window!Next
  BY <1>4, <1>5 DEF Expire, Finish, Answers
<1>6. ASSUME NEW t \in Tickets, Start(t)
      PROVE  Window!Next
  <2>1. /\ Tickets' = Tickets
        /\ \A s \in Tickets : s # t => tickets'[s] = tickets[s]
        /\ tickets'[t].phase = "running" /\ tickets[t].phase = "queued"
        /\ UNCHANGED requests_
    BY <1>6, StartStep DEF Start, bus
  <2>2. Progress(t) = "pending" /\ Progress(t)' = "begun"
    BY <2>1 DEF Progress
  <2> QED
    BY <1>6, <2>1, <2>2, ProgressOf DEF Window!Next, Window!Begin
<1>7. CASE Drain
  <2>1. Head(batch) \in Tickets /\ Head(batch) \in Batch
    BY <1>7, PlacesType, DistinctTail DEF Drain, QInv, InOrder, Batch
  <2>2. tickets[Head(batch)].phase = "queued"
    BY <1>7, <2>1 DEF Drain, QInv, HeldWaits, Executing
  <2> QED
    BY <1>4, <1>7, <2>1, <2>2 DEF Drain, Answers
<1>8. CASE Request
  <2>1. PICK key \in Keys \cup {NoKey}, cmd \in Commands : Submit(key, cmd)
    BY <1>8 DEF Request
  <2>2. Len(tickets) < MaxTickets
    BY <2>1 DEF Submit
  <2>3. CASE Retry(key, cmd)
    BY <1>1, <2>3 DEF Retry, bus
  <2>4. CASE Conflict(key, cmd) \/ ShutDown(key, cmd) \/ Busy(key, cmd)
    BY <1>2, <2>2, <2>4 DEF Conflict, ShutDown, Busy, Answers
  <2>5. CASE Admit(key, cmd)
    BY <1>3, <2>2, <2>5
  <2> QED
    BY <2>1, <2>3, <2>4, <2>5 DEF Submit
<1> QED
  BY <1>1, <1>5, <1>6, <1>7, <1>8
  DEF Next, MainThread, Execute, Accept, HangUp, Reply, Timeout, Tick, Terminated, PumpMain,
      Defer, EndMain, PumpPost, EndPost, StopBus, StopServer, Join, vars, bus

\* The bus keeps what RetryWindow promises of a numbered request: begun at most
\* once, never begun after it was refused, and found by its key until its
\* outcome is known, in a window within its capacity (ControlBus::submit, pump, stop).
THEOREM ImplementsPromise == Spec => Window!Safety
<1>1. Init => Window!Init
  BY DEF Init, Window!Init, Progress, Tickets
<1>2. /\ TypeOK /\ QInv /\ CacheOrdered /\ TypeOK' /\ CacheOrdered' /\ [Next]_vars
      => [Window!Next]_(Window!vars)
  BY StepOfWindow
<1> QED
  BY <1>1, <1>2, QInvHolds, CacheHolds, PTL DEF Spec, Window!Safety
=============================================================================
