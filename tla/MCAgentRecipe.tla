---------------------------- MODULE MCAgentRecipe ---------------------------
EXTENDS AgentRecipe

\* The window and an agent without a recipe; a recipe whose answers may be lost;
\* one whose Studio changes, beside another agent; one beside the window; one
\* that finds a project without unsaved changes; and one beside exports.
Cast(runs, user, agent, fresh, splats, starts, changing, losing) ==
    [recipe |-> runs, user |-> user, agent |-> agent, clean |-> fresh,
     exports |-> splats, ops |-> starts, changes |-> changing, lost |-> losing]
MCCrews == {Cast(FALSE, TRUE,  TRUE,  FALSE, FALSE, 2, 0, 0),
            Cast(TRUE,  FALSE, FALSE, FALSE, FALSE, 3, 0, 1),
            Cast(TRUE,  FALSE, TRUE,  FALSE, FALSE, 2, 1, 0),
            Cast(TRUE,  TRUE,  FALSE, FALSE, FALSE, 2, 0, 0),
            Cast(TRUE,  FALSE, TRUE,  TRUE,  FALSE, 2, 0, 0),
            Cast(TRUE,  FALSE, FALSE, FALSE, TRUE,  2, 0, 0)}
=============================================================================
