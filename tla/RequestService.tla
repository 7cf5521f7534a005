--------------------------- MODULE RequestService ---------------------------
(***************************************************************************)
(* What the server promises clients that wait for each answer, without     *)
(* connections, descriptors or buffers.  A request is executed once at     *)
(* most, then answered once at most, to the client that made it, and only  *)
(* then does that client make its next one.  Requests and answers may be   *)
(* lost: nothing obliges the service to a step.                            *)
(*                                                                         *)
(* Its weakness: the service may spoil clients, for good.  They then get   *)
(* any replies, make requests early and have them executed or not; the     *)
(* others notice nothing of it.                                            *)
(***************************************************************************)
EXTENDS Naturals, Sequences

CONSTANTS
  Clients,
  MaxReq    \* requests a client makes at most

VARIABLES
  asked,     \* how many requests each client has made
  executed,  \* the requests of each that were executed
  replies,   \* the replies of each, by the client and the request they are for
  spoilt     \* the clients nothing is promised to any more

rsVars == <<asked, executed, replies, spoilt>>

RSInit ==
  /\ asked = [c \in Clients |-> 0]
  /\ executed = [c \in Clients |-> <<>>]
  /\ replies = [c \in Clients |-> <<>>]
  /\ spoilt = {}

Ask(c) ==
  /\ asked[c] = Len(replies[c])
  /\ asked[c] < MaxReq
  /\ asked' = [asked EXCEPT ![c] = @ + 1]
  /\ UNCHANGED <<executed, replies, spoilt>>

Execute(c) ==
  /\ Len(executed[c]) < asked[c]
  /\ executed' = [executed EXCEPT ![c] = Append(@, asked[c])]
  /\ UNCHANGED <<asked, replies, spoilt>>

Answer(c) ==
  /\ Len(replies[c]) < Len(executed[c])
  /\ replies' = [replies EXCEPT ![c] = Append(@, <<c, Len(executed[c])>>)]
  /\ UNCHANGED <<asked, executed, spoilt>>

\* Anything happens to spoilt clients, some of which may just have been spoilt.
Spoil ==
  /\ spoilt \subseteq spoilt' /\ spoilt' \subseteq Clients
  /\ \A c \in Clients \ spoilt' :
       /\ asked'[c] = asked[c]
       /\ executed'[c] = executed[c]
       /\ replies'[c] = replies[c]

RSNext == Spoil \/ \E c \in Clients \ spoilt : Ask(c) \/ Execute(c) \/ Answer(c)

RSSpec == RSInit /\ [][RSNext]_rsVars
=============================================================================
