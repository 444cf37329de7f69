------------------------------ MODULE MCGuard ------------------------------
(***************************************************************************)
(* Model-checking instance of Guard: the observations of the runs.  The    *)
(* cfg files choose the profile and the bounds.                            *)
(***************************************************************************)
EXTENDS Guard

Shape(held, neutral, invalid, gap) ==
    [held |-> held, neutral |-> neutral, invalid |-> invalid, gap |-> gap]

Released == Shape(FALSE, TRUE, FALSE, FALSE)
Held     == Shape(TRUE, TRUE, FALSE, FALSE)

\* Presses and releases only.
Presses == {Released, Held}

\* With an invalid analog value.
Invalid == Presses \cup {Shape(FALSE, TRUE, TRUE, FALSE)}

\* With a control held that is not the dead-man, and a press after a gap.
Lossy == Presses \cup {Shape(FALSE, FALSE, FALSE, FALSE),
                       Shape(TRUE, TRUE, FALSE, TRUE)}
=============================================================================
