------------------------------ MODULE Serving -------------------------------
(***************************************************************************)
(* What Traefik sees of Render, without its files: the certificates that   *)
(* tls.yml makes it serve.  Hosts appear and disappear all at once, and    *)
(* only when each certificate that stays is renewed already; one that is   *)
(* being renewed may for a moment be torn, a new certificate with the old  *)
(* key; none is ever missing.  An attempt may end at any point.            *)
(***************************************************************************)
EXTENDS Integers

CONSTANTS Hosts,        \* file stems
          MaxVersion    \* certificate versions per host

VARIABLES served,       \* host -> version, or one of the two below
          goal,         \* what the latest attempt was asked for
          phase,        \* whether an attempt is under way
          result        \* the outcome of the latest attempt

vars == <<served, goal, phase, result>>

NotServed == 0          \* tls.yml does not name the host
Torn == -1              \* its two files are of different versions

Certs == [Hosts -> 0..MaxVersion]

Init == /\ served = [h \in Hosts |-> NotServed] /\ goal \in Certs
        /\ phase = "idle" /\ result = "none"

Begin(certs) == /\ phase = "idle" /\ phase' = "busy"
                /\ goal' = certs /\ result' = "none"
                /\ UNCHANGED served

Renew(h) == /\ phase = "busy"
            /\ NotServed \notin {served[h], goal[h]} /\ served[h] # goal[h]
            /\ \E v \in {Torn, goal[h]} : served' = [served EXCEPT ![h] = v]
            /\ UNCHANGED <<goal, phase, result>>

Switch == /\ phase = "busy"
          /\ \A h \in Hosts : NotServed \notin {served[h], goal[h]} => served[h] = goal[h]
          /\ served' = goal
          /\ UNCHANGED <<goal, phase, result>>

Succeed == /\ phase = "busy" /\ served = goal
           /\ phase' = "idle" /\ result' = "ok"
           /\ UNCHANGED <<served, goal>>

GiveUp == /\ phase = "busy"
          /\ phase' = "idle" /\ result' \in {"error", "none"}
          /\ UNCHANGED <<served, goal>>

Next == \/ \E certs \in Certs : Begin(certs)
        \/ \E h \in Hosts : Renew(h)
        \/ Switch \/ Succeed \/ GiveUp

Spec == Init /\ [][Next]_vars
=============================================================================
