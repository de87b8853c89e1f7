----------------------------- MODULE AfcService -----------------------------
(***************************************************************************)
(* What src/src/backend.rs promises its callers: a blocking request        *)
(* service that can be closed.                                             *)
(*                                                                         *)
(*   - A call that is made while the service is open is carried out on the *)
(*     device exactly once, and its caller gets the device's answer.       *)
(*   - A call that is made after closing began is refused, and never       *)
(*     carried out.                                                        *)
(*   - The service is closed only when every call it admitted has been     *)
(*     answered; after that it touches the device no more.                 *)
(*                                                                         *)
(* There is no queue and no thread here: any admitted call may be next.    *)
(***************************************************************************)
CONSTANT Client      \* the threads that make calls

VARIABLES service,   \* "open", "closing" or "closed"
          stage,     \* where each client's call is
          result     \* what each client's last call returned

vars == <<service, stage, result>>

Outcome == {"ok", "err"}                \* what the device answers
Stages == {"idle", "admitted", "late", "executed", "answered", "refused"}

TypeOK ==
    /\ service \in {"open", "closing", "closed"}
    /\ stage \in [Client -> Stages]
    /\ result \in [Client -> Outcome \union {"none", "stopped"}]

Init ==
    /\ service = "open"
    /\ stage = [c \in Client |-> "idle"]
    /\ result = [c \in Client |-> "none"]

MoveTo(c, from, to) ==
    /\ stage[c] = from
    /\ stage' = [stage EXCEPT ![c] = to]

Call(c) ==
    /\ MoveTo(c, "idle", IF service = "open" THEN "admitted" ELSE "late")
    /\ UNCHANGED <<service, result>>

Execute(c) ==
    /\ service # "closed"
    /\ MoveTo(c, "admitted", "executed")
    /\ UNCHANGED <<service, result>>

Answer(c) ==
    /\ MoveTo(c, "executed", "answered")
    /\ UNCHANGED <<service, result>>

\* The late calls are refused together, when the service closes.
Close ==
    /\ service = "closing"
    /\ \A c \in Client : stage[c] \notin {"admitted", "executed"}
    /\ service' = "closed"
    /\ stage' = [c \in Client |-> IF stage[c] = "late" THEN "refused" ELSE stage[c]]
    /\ UNCHANGED result

BeginClose ==
    /\ service = "open"
    /\ service' = "closing"
    /\ UNCHANGED <<stage, result>>

Return(c) ==
    /\ \/ /\ MoveTo(c, "answered", "idle")
          /\ \E r \in Outcome : result' = [result EXCEPT ![c] = r]
       \/ /\ MoveTo(c, "refused", "idle")
          /\ result' = [result EXCEPT ![c] = "stopped"]
    /\ UNCHANGED service

\* A call of a closed service fails at once.
Reject(c) ==
    /\ service = "closed"
    /\ stage[c] = "idle"
    /\ result' = [result EXCEPT ![c] = "stopped"]
    /\ UNCHANGED <<service, stage>>

Next ==
    \/ BeginClose
    \/ Close
    \/ \E c \in Client :
          Call(c) \/ Execute(c) \/ Answer(c) \/ Return(c) \/ Reject(c)

Spec == Init /\ [][Next]_vars

\* Every call that was admitted is carried out and answered, every call that
\* was made comes back, and closing ends.
Fairness ==
    /\ WF_vars(Close)
    /\ \A c \in Client :
          WF_vars(Execute(c)) /\ WF_vars(Answer(c)) /\ WF_vars(Return(c))

FairSpec == Spec /\ Fairness
=============================================================================
