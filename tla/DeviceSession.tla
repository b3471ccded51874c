--------------------------- MODULE DeviceSession ---------------------------
(***************************************************************************)
(* What login, refreshToken, logout and the removals of tokens together     *)
(* promise about the session of a device: it is a right that one request or *)
(* token holds at a time.  A login opens it, a refresh passes it on to a    *)
(* holder that never held it before, and once it has ended it is not        *)
(* opened again; the user has to log in on a new device row.                *)
(***************************************************************************)
CONSTANT Holders      \* logins, refreshes and the tokens named after them

VARIABLES
    holding,    \* device, named after its login -> who holds its session
    used        \* those who have held a session, or spent their chance to

deviceSessionVars == <<holding, used>>

DeviceSessionInit ==
    /\ holding = [d \in Holders |-> {}]
    /\ used = {}

OpenSession(d) ==
    /\ d \notin used
    /\ holding' = [holding EXCEPT ![d] = {d}]
    /\ used' = used \cup {d}

PassSession(d, new) ==
    /\ \E old \in Holders : holding[d] = {old}
    /\ new \notin used
    /\ holding' = [holding EXCEPT ![d] = {new}]
    /\ used' = used \cup {new}

\* A removal may end many sessions at once, and a refresh may end one that it
\* does not live to pass on.
EndSessions ==
    /\ holding' \in [Holders -> SUBSET Holders]
    /\ \A d \in Holders : holding'[d] \in {holding[d], {}}
    /\ \/ used' = used
       \/ \E h \in Holders : used' = used \cup {h}

DeviceSessionNext ==
    \/ EndSessions
    \/ \E d \in Holders : OpenSession(d)
    \/ \E d, new \in Holders : PassSession(d, new)

DeviceSessionSpec == DeviceSessionInit /\ [][DeviceSessionNext]_deviceSessionVars

=============================================================================
