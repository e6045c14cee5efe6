------------------------------ MODULE Sessions ------------------------------
(***************************************************************************)
(* What the service promises about sessions, whatever requests overlap and *)
(* wherever they fail: a session is issued once, for one account, by a     *)
(* credential check or as the successor of a session that is over; it      *)
(* ends, and never comes back.  Handlers, stores and clocks are not seen   *)
(* here; AuthService implements it.                                        *)
(***************************************************************************)
CONSTANTS SessionIds, UserIds, None

VARIABLES
    state,              \* of each session
    owner,              \* the account it is for
    from                \* the session it succeeds, or None

vars == <<state, owner, from>>

Init ==
    /\ state = [s \in SessionIds |-> "unissued"]
    /\ owner = [s \in SessionIds |-> None]
    /\ from = [s \in SessionIds |-> None]

\* A session whose request was slow may be over when it is issued.
IssueTo(s, u, t) ==
    /\ state[s] = "unissued"
    /\ \E st \in {"live", "over"} : state' = [state EXCEPT ![s] = st]
    /\ owner' = [owner EXCEPT ![s] = u]
    /\ from' = [from EXCEPT ![s] = t]

\* register and login
Issue(s) == \E u \in UserIds : IssueTo(s, u, None)

\* refresh
Succeed(s, t) == state[t] = "over" /\ IssueTo(s, owner[t], t)

\* Rotation, logout, logout_all, delete_me, change_password and the passing
\* of time end sessions, logout_all and time many at once.
End ==
    \E ended \in SUBSET {s \in SessionIds : state[s] = "live"} :
        /\ state' = [s \in SessionIds |-> IF s \in ended THEN "over" ELSE state[s]]
        /\ UNCHANGED <<owner, from>>

Next ==
    \/ \E s \in SessionIds : Issue(s) \/ \E t \in SessionIds : Succeed(s, t)
    \/ End

Spec == Init /\ [][Next]_vars
=============================================================================
