----------------------------- MODULE MCScanManager -----------------------------
(***************************************************************************)
(* Three blocks: one published and one per scanner.  Which of the free     *)
(* blocks malloc returns makes no difference, so here it is one of them.   *)
(***************************************************************************)
EXTENDS ScanManager

OneFree == \A b \in allocated' \ allocated : b = CHOOSE c \in Blocks \ allocated : TRUE

OneFreeSpec == Init /\ [][Next /\ OneFree]_vars /\ Fairness
=============================================================================
