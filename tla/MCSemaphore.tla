----------------------------- MODULE MCSemaphore -----------------------------
(***************************************************************************)
(* Small instances of Semaphore: more queries than permits and queue slots   *)
(* together, so that every branch of acquire and release is taken.           *)
(***************************************************************************)
EXTENDS Semaphore

CONSTANTS q1, q2, q3, q4, q5
FiveQueries == {q1, q2, q3, q4, q5}
=============================================================================
