--------------------------- MODULE MCReplication ---------------------------
(***************************************************************************)
(* Replication on small instances.                                         *)
(***************************************************************************)
EXTENDS Replication, TLC

CONSTANTS c1, c2, b1

NoBots == <<>>
OneBot == <<b1>>

\* Two processes meet only in the sockets, and only the first step of a frame
\* touches these; the other steps of the frame commute with everything another
\* process does. Where all interleavings of three processes are too many, each
\* frame runs to its end before another one starts.
MidFrame(p) == pc[p] \in {"apply", "teams", "play"}

FramesInTurn ==
    \A p, q \in Procs : p # q /\ MidFrame(p) => pc'[q] = pc[q]

\* The instance in which the server reads records that nobody sent has these
\* bounds, too. Nobody wins; what is sent is lost only where it finds no room in a
\* socket; once everybody has a slot, no third datagram comes to the server; and
\* what nobody sent shows a player whom nobody hurt.
MatchGoesOn == \A p \in Procs : pc'[p] # "menu"

Leaves(p, stage) == pc[p] = stage /\ pc'[p] # stage

NothingLost ==
    /\ Leaves(Host, "net") =>
          \A c \in {d \in addrs : Live(d) /\ Len(toClient[d]) < ClientBacklog} :
              toClient'[c] # toClient[c]
    /\ \A c \in Clients :
          Leaves(c, "net") /\ Live(Host) /\ Len(toHost) < HostBacklog => toHost' # toHost

OnceSeated == Known(Host) = Ids /\ Len(toHost') > 2 => Len(toHost') <= Len(toHost)

GarbageIsUnhurt ==
    \A r \in Range(inbox'[Host]) : r.id = Phantom => r.lastHurt = None

\* The clients of a match are interchangeable.
SameClients == Permutations({c1, c2})
=============================================================================
