-------------------------- MODULE DeliveryPromise --------------------------
(***************************************************************************)
(* What the e-mail job promises about one monthly report, without saying   *)
(* how: a job is granted to one attempt at a time, an attempt may cause    *)
(* its external effect (the SMTP server takes the message) at any moment,  *)
(* even after it has lost the job, and the job is granted again only when  *)
(* the previous attempt had no effect or somebody accepted the risk of a   *)
(* second one.  Attempts are numbered in the order they are granted.       *)
(***************************************************************************)
EXTENDS Naturals

CONSTANT Jobs

VARIABLES
  phase,     (* phase[j]: "open", "held", "limbo" (nobody knows) or "closed" *)
  last,      (* last[j]: the latest attempt granted for j, 0 before any      *)
  granted,   (* how many attempts were granted so far                        *)
  effects,   (* effects[j]: attempts for j whose effect happened             *)
  permitted  (* attempts after which a second effect was accepted            *)

vars == <<phase, last, granted, effects, permitted>>

Phases == {"open", "held", "limbo", "closed"}

TypeOK ==
  /\ phase \in [Jobs -> Phases]
  /\ last \in [Jobs -> Nat]
  /\ granted \in Nat
  /\ effects \in [Jobs -> SUBSET Nat]
  /\ permitted \in SUBSET Nat

Init ==
  /\ phase = [j \in Jobs |-> "open"]
  /\ last = [j \in Jobs |-> 0]
  /\ granted = 0
  /\ effects = [j \in Jobs |-> {}]
  /\ permitted = {}

Move(j, from, to) ==
  /\ phase[j] = from
  /\ phase' = [phase EXCEPT ![j] = to]

\* No silent second effect: the latest attempt had none, or a second is accepted.
SecondTryIsSafe(j) == last[j] \in effects[j] => last[j] \in permitted

Grant(j) ==
  /\ Move(j, "open", "held")
  /\ SecondTryIsSafe(j)
  /\ granted' = granted + 1
  /\ last' = [last EXCEPT ![j] = granted + 1]
  /\ UNCHANGED <<effects, permitted>>

\* The attempt gives the job back, or finishes it; or it is found abandoned.
Release(j) ==
  /\ Move(j, "held", "open") \/ Move(j, "held", "closed") \/ Move(j, "held", "limbo")
  /\ UNCHANGED <<last, granted, effects, permitted>>

\* Somebody looks at an abandoned job and closes it, or accepts another try.
Settle(j) ==
  /\ Move(j, "limbo", "closed")
  /\ UNCHANGED <<last, granted, effects, permitted>>

Retry(j) ==
  /\ Move(j, "limbo", "open")
  /\ permitted' = permitted \union {last[j]}
  /\ UNCHANGED <<last, granted, effects>>

\* An attempt has its effect: it is the latest one and the job was not given
\* back, or a second effect was already accepted.  The effect may be reported
\* as an error, which accepts a second one.
Effect(j, g) ==
  /\ (g = last[j] /\ phase[j] # "open") \/ g \in permitted
  /\ effects' = [effects EXCEPT ![j] = @ \union {g}]
  /\ permitted' \in {permitted, permitted \union {g}}
  /\ UNCHANGED <<phase, last, granted>>

Next ==
  \E j \in Jobs :
    \/ Grant(j)
    \/ Release(j)
    \/ Settle(j)
    \/ Retry(j)
    \/ \E g \in 1 .. granted : Effect(j, g)

Spec == Init /\ [][Next]_vars

\* Of all the attempts that had an effect, only the latest one was not
\* followed by an accepted second try.
NoSilentDuplicate == \A j \in Jobs : effects[j] \subseteq {last[j]} \union permitted
=============================================================================
