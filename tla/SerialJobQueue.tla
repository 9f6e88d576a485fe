--------------------------- MODULE SerialJobQueue ---------------------------
(***************************************************************************)
(* What the strategy job ledger promises its users, whatever the number of *)
(* application processes, worker children and takeovers behind it: a single *)
(* server that serves jobs one at a time in order of arrival, where a wish  *)
(* to cancel, once acknowledged, is never answered by success, and no end   *)
(* is ever revised.                                                         *)
(***************************************************************************)
EXTENDS Naturals

CONSTANT MaxJobs

VARIABLES phase,    \* where each job stands
          wish      \* whether its cancellation was acknowledged

JobIds == 1..MaxJobs
Ends == {"done", "failed", "cancelled", "lost"}

TypeOK == /\ phase \in [JobIds -> {"unborn", "waiting", "serving"} \cup Ends]
          /\ wish \in [JobIds -> BOOLEAN]

Init == /\ phase = [j \in JobIds |-> "unborn"]
        /\ wish = [j \in JobIds |-> FALSE]

Newest(j) == /\ phase[j] = "unborn"
             /\ \A k \in JobIds : k < j => phase[k] # "unborn"

Arrive(j) == /\ Newest(j)
             /\ phase' = [phase EXCEPT ![j] = "waiting"]
             /\ UNCHANGED wish

Serve(j) == /\ phase[j] = "waiting"
            /\ \A k \in JobIds : phase[k] # "serving"
            /\ \A k \in JobIds : phase[k] = "waiting" => j <= k
            /\ phase' = [phase EXCEPT ![j] = "serving"]
            /\ UNCHANGED wish

\* A wish is answered by cancellation, or by losing the server.
Answers(j, end) == IF wish[j] THEN end \in {"cancelled", "lost"} ELSE end # "cancelled"

Finish(j, end) == /\ phase[j] = "serving"
                  /\ Answers(j, end)
                  /\ phase' = [phase EXCEPT ![j] = end]
                  /\ UNCHANGED wish

\* Success that brings a follow-up job with it, in one step.
HandOver(j, k) == /\ phase[j] = "serving"
                  /\ Answers(j, "done")
                  /\ Newest(k)
                  /\ phase' = [phase EXCEPT ![j] = "done", ![k] = "waiting"]
                  /\ UNCHANGED wish

Withdraw(j) == /\ phase[j] = "waiting"
               /\ phase' = [phase EXCEPT ![j] = "cancelled"]
               /\ wish' = [wish EXCEPT ![j] = TRUE]

Wish(j) == /\ phase[j] = "serving" /\ ~wish[j]
           /\ wish' = [wish EXCEPT ![j] = TRUE]
           /\ UNCHANGED phase

Next == \E j \in JobIds : \/ Arrive(j)
                          \/ Serve(j)
                          \/ \E end \in Ends : Finish(j, end)
                          \/ \E k \in JobIds : HandOver(j, k)
                          \/ Withdraw(j)
                          \/ Wish(j)

Spec == Init /\ [][Next]_<<phase, wish>>
=============================================================================
