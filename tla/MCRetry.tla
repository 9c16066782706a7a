------------------------------- MODULE MCRetry -------------------------------
(* Small instances of Retry: a maximum that no doubling of the first size   *)
(* meets, and lengths beyond it.                                           *)
EXTENDS Retry
=============================================================================
