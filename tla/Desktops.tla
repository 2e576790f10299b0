------------------------------- MODULE Desktops -------------------------------
(***************************************************************************)
(* What the session manager promises to the people who log in: a desktop   *)
(* comes into being for a user whose password a login screen accepted; it  *)
(* is shown on one client at a time, parked, taken out and shown again     *)
(* where that user logs in next; it stays in existence until its user logs *)
(* out or its processes die; and it is not in transit for ever.            *)
(*                                                                         *)
(* SessionManager implements this specification as long as the requests of *)
(* one client or one user do not overlap.                                  *)
(***************************************************************************)
CONSTANTS Clients, Users, Sessions, Nobody, NoScreen

VARIABLES
    client,  \* client[s]: where the login screen s is, or Nobody
    proof,   \* proof[s]: whose password it accepted, or Nobody
    user,    \* user[d]: whose desktop d is, or Nobody
    place,   \* place[d]: see Places
    on,      \* on[d]: the client that shows it, or Nobody
    screen,  \* screen[d]: the login screen that d answers, or NoScreen
    alive    \* alive[d]: the desktop's processes run

vars == <<client, proof, user, place, on, screen, alive>>

Places == {"none", "moving", "shown", "parked", "leaving", "ended"}
Exists(d) == place[d] \in {"moving", "shown", "parked", "leaving"}

Init ==
    /\ client = [s \in Sessions |-> Nobody] /\ proof = [s \in Sessions |-> Nobody]
    /\ user = [d \in Sessions |-> Nobody] /\ screen = [d \in Sessions |-> NoScreen]
    /\ on = [d \in Sessions |-> Nobody] /\ place = [d \in Sessions |-> "none"] /\ alive = [d \in Sessions |-> FALSE]

\* A launch shows a login screen on its client.
Launches(s, c) ==
    /\ client[s] = Nobody /\ client' = [client EXCEPT ![s] = c]
    /\ UNCHANGED <<proof, user, place, on, screen, alive>>

Proves(s, u) ==
    /\ client[s] # Nobody /\ proof[s] = Nobody
    /\ proof' = [proof EXCEPT ![s] = u]
    /\ UNCHANGED <<client, user, place, on, screen, alive>>

\* A screen's proof is good for one desktop of that user.
Answers(d, s) == s = screen[d] \/ (proof[s] = user[d] /\ \A e \in Sessions : screen[e] # s)

\* Users have one desktop at most.
Opens(d, s) ==
    /\ place[d] = "none" /\ client[d] = Nobody
    /\ proof[s] # Nobody /\ \A e \in Sessions : screen[e] # s
    /\ \A e \in Sessions : Exists(e) => user[e] # proof[s]
    /\ user' = [user EXCEPT ![d] = proof[s]] /\ screen' = [screen EXCEPT ![d] = s]
    /\ place' = [place EXCEPT ![d] = "moving"] /\ alive' = [alive EXCEPT ![d] = TRUE]
    /\ UNCHANGED <<client, proof, on>>

\* A client shows one desktop at most.
Shows(d, s) ==
    /\ place[d] = "moving" /\ Answers(d, s)
    /\ \A e \in Sessions : on[e] # client[s]
    /\ place' = [place EXCEPT ![d] = "shown"] /\ on' = [on EXCEPT ![d] = client[s]]
    /\ screen' = [screen EXCEPT ![d] = s]
    /\ UNCHANGED <<client, proof, user, alive>>

Parks(d) ==
    /\ place[d] = "moving" /\ place' = [place EXCEPT ![d] = "parked"]
    /\ UNCHANGED <<client, proof, user, on, screen, alive>>

Takes(d) ==
    /\ place[d] \in {"shown", "parked"} /\ place' = [place EXCEPT ![d] = "moving"]
    /\ on' = [on EXCEPT ![d] = Nobody]
    /\ UNCHANGED <<client, proof, user, screen, alive>>

LogsOut(d) ==
    /\ place[d] \in {"shown", "parked"} /\ place' = [place EXCEPT ![d] = "leaving"]
    /\ on' = [on EXCEPT ![d] = Nobody]
    /\ UNCHANGED <<client, proof, user, screen, alive>>

Dies(d) ==
    /\ Exists(d) /\ alive[d] /\ alive' = [alive EXCEPT ![d] = FALSE]
    /\ UNCHANGED <<client, proof, user, place, on, screen>>

\* Only a desktop that is dead or left ends; TerminateSession may fail to end its processes.
Ends(d) ==
    /\ Exists(d) /\ (place[d] = "leaving" \/ ~alive[d])
    /\ place' = [place EXCEPT ![d] = "ended"] /\ on' = [on EXCEPT ![d] = Nobody]
    /\ alive' \in {alive, [alive EXCEPT ![d] = FALSE]}
    /\ UNCHANGED <<client, proof, user, screen>>

Arrives(d) == Parks(d) \/ Ends(d) \/ \E s \in Sessions : Shows(d, s)

Next ==
    \E d \in Sessions :
       \/ \E c \in Clients : Launches(d, c)
       \/ \E u \in Users : Proves(d, u)
       \/ \E s \in Sessions : Opens(d, s)
       \/ Takes(d) \/ LogsOut(d) \/ Dies(d) \/ Arrives(d)

\* What may happen.
SafeSpec == Init /\ [][Next]_vars

\* A desktop in transit arrives.
Spec == SafeSpec /\ \A d \in Sessions : WF_vars(place[d] \in {"moving", "leaving"} /\ Arrives(d))
=============================================================================
