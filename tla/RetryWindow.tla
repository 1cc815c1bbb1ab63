---------------------------- MODULE RetryWindow ----------------------------
(***************************************************************************)
(* What the control service promises a client that numbers its requests:  *)
(* a command is begun at most once, a refused command was never begun, and *)
(* until its outcome is known its key finds it.  Only keys whose command   *)
(* has its outcome may be forgotten, and the window never exceeds its      *)
(* capacity.  Nothing is said of queues, threads, frames or time.          *)
(***************************************************************************)
EXTENDS Naturals, FiniteSets

CONSTANTS Keys, NoKey, Commands, Capacity

VARIABLES status, window

Outcome == {"applied", "refused"}
Known(c) == status[c] \in Outcome
Remembered(w) == {k \in Keys : w[k] # 0}

vars == <<status, window>>

Init ==
    /\ status = [c \in Commands |-> "absent"]
    /\ window = [k \in Keys |-> 0]

\* The new command takes its place in the window; some keys whose outcome is
\* known may be forgotten to make room.
Accept(c, key) ==
    /\ status[c] = "absent"
    /\ key \in Keys => window[key] = 0
    /\ status' = [status EXCEPT ![c] = "pending"]
    /\ \E forgotten \in SUBSET {k \in Remembered(window) : Known(window[k])} :
          window' = [k \in Keys |-> IF k = key THEN c
                                    ELSE IF k \in forgotten THEN 0 ELSE window[k]]
    /\ Cardinality(Remembered(window')) <= Capacity

Become(c, from, to) ==
    /\ status[c] = from
    /\ status' = [status EXCEPT ![c] = to]
    /\ UNCHANGED window

Reject(c) == Become(c, "absent", "refused")
Begin(c)  == Become(c, "pending", "begun")
Apply(c)  == Become(c, "begun", "applied")
Refuse(c) == Become(c, "pending", "refused")

Next == \E c \in Commands :
    \/ \E key \in Keys \cup {NoKey} : Accept(c, key)
    \/ Reject(c) \/ Begin(c) \/ Apply(c) \/ Refuse(c)

Safety == Init /\ [][Next]_vars

\* A command once accepted gets its outcome.
Fairness == \A c \in Commands : WF_vars(Begin(c) \/ Refuse(c) \/ Apply(c))

Spec == Safety /\ Fairness
=============================================================================
