------------------------------ MODULE ByteQueue ------------------------------
(***************************************************************************)
(* What CBuffer delivers to AppConn, without indices or wrap-around: a     *)
(* bounded queue of bytes.  A writer's bytes are taken whole or refused,   *)
(* and a reader gets accepted bytes in order, each once.                   *)
(*                                                                         *)
(* The program's buffer promises a little less than that: a read that      *)
(* takes the last byte may leave Capacity stale bytes to be read again.    *)
(* The specification says so (Relapse), and says where it stops: stale     *)
(* bytes only ever stand in front of the accepted ones.                    *)
(***************************************************************************)
EXTENDS Integers, Sequences

CONSTANTS
  Data,      \* the bytes written
  Capacity,  \* the size of the array
  MaxChunk   \* longest chunk a writer offers

VARIABLES
  unread,  \* accepted bytes nobody has taken
  stale,   \* number of bytes in front of them that were taken before
  out      \* the bytes the last read or take returned

bqVars == <<unread, stale, out>>

BQInit == unread = <<>> /\ stale = 0 /\ out = <<>>

\* Taking or reading n bytes returns `junk` stale bytes and then real ones.
Returned(n)  == LET all == stale + Len(unread) IN IF n <= all THEN n ELSE all
Junk(n)      == IF Returned(n) <= stale THEN Returned(n) ELSE stale
Delivers(n) ==
  /\ out' \in Seq(Data)
  /\ Len(out') = Returned(n)
  /\ SubSeq(out', Junk(n) + 1, Returned(n)) = SubSeq(unread, 1, Returned(n) - Junk(n))

\* A write may drop stale bytes, never accepted ones.
Accept == /\ \E n \in 1 .. MaxChunk :
               /\ Len(unread') = Len(unread) + n
               /\ SubSeq(unread', 1, Len(unread)) = unread
          /\ unread' \in Seq(Data)
          /\ Len(unread') < Capacity
          /\ stale' \in {0, stale}
          /\ UNCHANGED out

Read == /\ \E n \in 0 .. Capacity : Delivers(n)
        /\ UNCHANGED <<unread, stale>>

\* After a take that leaves nothing, the array may be readable once more.
Relapse(n) == Returned(n) = stale + Len(unread) /\ stale' = Capacity

Take == \E n \in 0 .. Capacity :
          /\ Delivers(n)
          /\ unread' = SubSeq(unread, Returned(n) - Junk(n) + 1, Len(unread))
          /\ stale' = stale - Junk(n) \/ Relapse(n)

BQNext == Accept \/ Read \/ Take

BQSpec == BQInit /\ [][BQNext]_bqVars
=============================================================================
