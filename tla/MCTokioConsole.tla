--------------------------- MODULE MCTokioConsole ---------------------------
(* The tokio console, shared by a few users: a behaviour is of its input,  *)
(* or of its output beside at most one read of an input that is silent.    *)
EXTENDS TokioConsole

Apart == begun' = 0 \/ (arrived' = 0 /\ errors' = 0 /\ reads' <= 1)

ApartSpec == Init /\ [][Next /\ Apart]_vars /\ WF_vars(Read)

=============================================================================
