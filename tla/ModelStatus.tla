---------------------------- MODULE ModelStatus ----------------------------
(***************************************************************************)
(* What a client of the API may see of a model's status over time, as if   *)
(* every handler, job and reaper were one indivisible step.  A status only *)
(* moves along Moves; several models may move at once, because one start   *)
(* of a process may release several abandoned runs.                        *)
(***************************************************************************)
CONSTANT Uploads

VARIABLE status

States == {"absent", "analyzing", "optimizing", "draft", "failed",
           "deployed", "deleted"}

Moves ==
    ({"absent"} \X {"analyzing"})
    \cup ({"analyzing"} \X {"optimizing", "draft", "failed"})
    \cup ({"optimizing"} \X {"draft", "failed"})
    \cup ({"draft"} \X {"deployed"})
    \cup ({"deployed"} \X {"draft"})
    \cup ((States \ {"absent", "deleted"}) \X {"deleted"})

Init == status = [u \in Uploads |-> "absent"]

Next ==
    /\ status' \in [Uploads -> States]
    /\ \A u \in Uploads :
          status'[u] # status[u] => <<status[u], status'[u]>> \in Moves

Spec == Init /\ [][Next]_status
=============================================================================
