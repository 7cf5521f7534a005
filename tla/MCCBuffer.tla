------------------------------ MODULE MCCBuffer ------------------------------
(***************************************************************************)
(* CBufferSpec for TLC: a short array and two byte values.                 *)
(***************************************************************************)
EXTENDS CBufferSpec, TLC

ByteSymmetry == Permutations(Byte)

\* With chunks as long as the array, appends that freebyte's wrap-around lets
\* through make the history longer than the array; TLC stops following it.
QueuedAtMostArray == Len(queued) <= m_size
=============================================================================
