--------------------------- MODULE ConnectionLife ---------------------------
(***************************************************************************)
(* What a TcpServer promises about each connection it accepts: it is       *)
(* announced to the user, later reported down, and only then destroyed,    *)
(* each of these once.  Only while the server is being torn down may a     *)
(* connection be destroyed that was not reported down.  A connection that  *)
(* is spoiled once it is down is destroyed too, but what else the user is  *)
(* told of it is open.                                                     *)
(***************************************************************************)
EXTENDS Sequences

CONSTANT Conn

VARIABLES phase,
          told,     \* connection -> the reports the user got, "up" and "down"
          ending

vars == <<phase, told, ending>>

Init == /\ phase = [c \in Conn |-> "absent"]
        /\ told = [c \in Conn |-> << >>]
        /\ ending = FALSE

Tell(c, what) == told' = [told EXCEPT ![c] = Append(@, what)]

\* On the base loop connectEstablished is run by newConnection itself.
accept(c) == /\ phase[c] = "absent" /\ ~ending
             /\ \/ phase' = [phase EXCEPT ![c] = "accepted"] /\ UNCHANGED told
                \/ phase' = [phase EXCEPT ![c] = "up"] /\ Tell(c, "up")
             /\ UNCHANGED ending

up(c) == /\ phase[c] = "accepted"
         /\ phase' = [phase EXCEPT ![c] = "up"] /\ Tell(c, "up")
         /\ UNCHANGED ending

\* At the end connectDestoryed reports down and drops the last pointer in one step.
down(c) == /\ phase[c] = "up"
           /\ \E p \in {"down"} \cup (IF ending THEN {"freed"} ELSE {}) :
                phase' = [phase EXCEPT ![c] = p]
           /\ Tell(c, "down")
           /\ UNCHANGED ending

spoil(c) == /\ phase[c] = "down"
            /\ phase' = [phase EXCEPT ![c] = "spoiled"]
            /\ told' = [told EXCEPT ![c] = << >>]
            /\ UNCHANGED ending

\* A loop that ends lets go of all its functors at once.
free(S) == /\ \A c \in S : \/ phase[c] \in {"down", "spoiled"}
                           \/ ending /\ phase[c] \in {"accepted", "up"}
           /\ phase' = [c \in Conn |-> IF c \in S THEN "freed" ELSE phase[c]]
           /\ UNCHANGED <<told, ending>>

end == ~ending /\ ending' = TRUE /\ UNCHANGED <<phase, told>>

Next == \/ \E c \in Conn : accept(c) \/ up(c) \/ down(c) \/ spoil(c)
        \/ \E S \in SUBSET Conn : free(S)
        \/ end

Spec == Init /\ [][Next]_vars
=============================================================================
