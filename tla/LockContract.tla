---------------------------- MODULE LockContract ----------------------------
(***************************************************************************)
(* What ext-session-lock promises, without saying how: a client asks for   *)
(* the lock and is refused or granted it; while it is granted no output is *)
(* given a frame with live session contents, and only a live client of the *)
(* lock ends it. A client that dies leaves the lock held, and another may  *)
(* take its place.                                                         *)
(***************************************************************************)
CONSTANT Output

VARIABLES lock,     \* free, pending or held
          alive,    \* whether the client that has or asked for it is alive
          exposed   \* the outputs whose last frame has live session contents

contractVars == <<lock, alive, exposed>>

Init == lock = "free" /\ alive = FALSE /\ exposed = {}

Ask ==
    /\ lock = "free" /\ lock' = "pending"
    /\ alive' = TRUE
    /\ UNCHANGED exposed

\* Granted at the end of the wait, or at once when there is no output.
Grant ==
    /\ lock # "held" /\ lock' = "held"
    /\ alive' \in {alive, lock = "free"}
    /\ exposed' = {}

Refuse ==
    /\ lock = "pending" /\ lock' = "free"
    /\ exposed' \subseteq Output
    /\ UNCHANGED alive

\* Another client takes a dead client's place.
Replace ==
    /\ lock = "held" /\ ~alive
    /\ alive' = TRUE
    /\ UNCHANGED <<lock, exposed>>

Die ==
    /\ alive /\ ~alive'
    /\ UNCHANGED <<lock, exposed>>

Release ==
    /\ lock = "held" /\ alive
    /\ lock' = "free" /\ alive' = FALSE
    /\ UNCHANGED exposed

\* A frame, or an output that comes or goes.
Show ==
    /\ exposed' \subseteq IF lock = "held" THEN {} ELSE Output
    /\ UNCHANGED <<lock, alive>>

Next == Ask \/ Grant \/ Refuse \/ Replace \/ Die \/ Release \/ Show

Spec == Init /\ [][Next]_contractVars

\* Every request is decided.
FairSpec == Spec /\ WF_contractVars(lock = "pending" /\ (Grant \/ Refuse))
=============================================================================
