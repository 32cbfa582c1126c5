--------------------------- MODULE ArchivePromise ---------------------------
(***************************************************************************)
(* What approval and archive promise each other, whatever happens to the   *)
(* workers between them.  A document goes one way: draft, approved, its    *)
(* PDF stored, its record written.  The approval opens the delivery in the *)
(* same step; the delivery ends at most once, and is reported as done only *)
(* for a document whose record is written.                                 *)
(* ArchivePipeline implements this specification.                          *)
(***************************************************************************)
CONSTANT Docs

VARIABLES stage,     \* how far each document came
          delivery   \* what the registry knows of it

vars == <<stage, delivery>>

Init == /\ stage = [d \in Docs |-> "draft"]
        /\ delivery = [d \in Docs |-> "none"]

Advance(d, from, to) == stage[d] = from /\ stage' = [stage EXCEPT ![d] = to]

Approve(d) == /\ Advance(d, "draft", "approved")
              /\ delivery' = [delivery EXCEPT ![d] = "open"]

(* Also long after the delivery was given up: a slow worker may be at it.  *)
Store(d)  == Advance(d, "approved", "stored") /\ UNCHANGED delivery
Record(d) == Advance(d, "stored", "recorded") /\ UNCHANGED delivery

End(d, how) == /\ delivery[d] = "open"
               /\ how = "done" => stage[d] = "recorded"
               /\ delivery' = [delivery EXCEPT ![d] = how]
               /\ UNCHANGED stage

Next == \E d \in Docs : \/ Approve(d) \/ Store(d) \/ Record(d)
                        \/ \E how \in {"done", "failed"} : End(d, how)

Spec == Init /\ [][Next]_vars
=============================================================================
