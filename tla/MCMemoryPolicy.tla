---------------------------- MODULE MCMemoryPolicy ----------------------------
(* A small instance of MemoryPolicy: a mebibyte of two bytes, a word of four bits. *)
EXTENDS MemoryPolicy

CONSTANTS k1, k2, k3

ThreeKeys == {k1, k2, k3}

\* 1 MiB is less than the largest session, 2 MiB less than three of them, 9 MiB wraps to one.
SmallBudgets == {<<1, Unset>>, <<Unset, 2>>, <<1, 2>>, <<Unset, 9>>}

================================================================================
