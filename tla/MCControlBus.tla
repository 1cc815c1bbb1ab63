---------------------------- MODULE MCControlBus ----------------------------
(* Small instance of ControlBus: two keys and an anonymous request, one    *)
(* immediate and one deferred command, queue and cache of one entry.       *)
EXTENDS ControlBus
CONSTANTS k1, k2, anonymous, state, start

MCKeys == {k1, k2}
MCCommands == {state, start}
MCDeferred == {start}
=============================================================================
