---------------------------- MODULE GrowingQueue ----------------------------
(***************************************************************************)
(* What Buffer delivers to its owner, without positions, moves or growth:  *)
(* an unbounded queue of bytes.  One operation keeps it from being just    *)
(* that: Overwrite, in which a caller's array replaces unread bytes.       *)
(***************************************************************************)
EXTENDS Integers, Sequences

CONSTANT Data  \* the bytes written

VARIABLES
  unread,  \* bytes put in and not taken
  io       \* the bytes the last operation put in or handed out

gqVars == <<unread, io>>

GQInit == unread = <<>> /\ io = <<>>

\* What is put in joins at the end.
Put == /\ io' \in Seq(Data)
       /\ unread' = unread \o io'

\* The first n bytes leave, and are handed out or dropped.
Take(n) == /\ unread' = SubSeq(unread, n + 1, Len(unread))
           /\ io' \in {<<>>, SubSeq(unread, 1, n)}

\* The end of what the caller holds takes the place of the first k bytes.
Overwrite(k) ==
  /\ io' \in Seq(Data)
  /\ k <= Len(io')
  /\ Len(io') <= Len(unread)
  /\ unread' = SubSeq(io', Len(io') - k + 1, Len(io'))
                 \o SubSeq(unread, k + 1, Len(unread))

GQNext == Put \/ \E n \in 0 .. Len(unread) : Take(n) \/ Overwrite(n)

GQSpec == GQInit /\ [][GQNext]_gqVars
=============================================================================
