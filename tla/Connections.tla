---------------------------- MODULE Connections ----------------------------
(***************************************************************************)
(* The framed TCP listener (runtime-native/src/io/transport.rs) and its    *)
(* connections.  Each connection is a child actor of the listener with a   *)
(* task of its own, which reads one frame, makes one request of the target *)
(* and writes one reply, over and over, until the peer, a timeout, a       *)
(* budget, a drain or a stop ends it.                                      *)
(*                                                                         *)
(* Buffers are counted in frames.  What a frame holds, and how its bytes   *)
(* arrive (framing.rs), is left out; that it is charged to two budgets,    *)
(* the listener's and the World's, one atomic step each, is not.           *)
(***************************************************************************)
EXTENDS Integers, FiniteSets

CONSTANTS
  Slot,            \* actor slots connections may use
  LastGen,         \* bound on the generations of a slot
  MaxConnections,  \* TcpConfig.max_connections
  ReadBudget,      \* read_buffer_bytes, in frames
  WriteBudget,     \* write_buffer_bytes, in frames
  WorldBudget      \* what the World's payload budget has left, in frames

ASSUME ConnectionAssumption ==
  IsFiniteSet(Slot) /\ LastGen \in Nat /\ MaxConnections \in Nat \ {0}
  /\ ReadBudget \in Nat /\ WriteBudget \in Nat /\ WorldBudget \in Nat

VARIABLES
  life,         \* the listener actor
  listening,    \* its task still accepts
  conn,         \* per slot: the generation, life and progress of a connection
  request,      \* per slot: the request the connection has made
  table,        \* Shared.connections, keyed by slot
  used          \* bytes charged: read budget, write budget, World budget

vars == <<life, listening, conn, request, table, used>>

\* accepted: activated, not yet in the table; charged, scratched: a buffer, or
\* scratch for a frame, is granted by the listener and not yet by the World;
\* refused, overdrawn: the World has refused it; body: the buffer is there;
\* framed: a frame is read; scratch: its payload is being built; built: the
\* request is made or refused; halfscratch, noscratch, halfframe: what was held
\* for it is being given back; claiming: the reply's buffer is reserved;
\* closing: the loop has ended; unlisted: the guard is gone, the task lease is
\* not.
Reading == {"reading", "body"}
Points == Reading \cup
  {"free", "accepted", "charged", "refused", "framed", "scratched", "overdrawn",
   "scratch", "built", "halfscratch", "noscratch", "halfframe", "awaiting",
   "replied", "claiming", "writing", "closing", "stopped", "unlisted"}

TypeOK ==
  /\ life \in {"Active", "Quiescing", "Stopping"} /\ listening \in BOOLEAN
  /\ conn \in [Slot -> [gen : 0..LastGen, at : Points,
                        life : {"none", "Active", "Quiescing", "Stopping"}]]
  /\ request \in [Slot -> {"none", "pending", "completed", "failed"}]
  /\ table \in [Slot -> 0..LastGen]
  /\ used \in [read : Nat, write : Nat, world : Nat]

\* listen_tcp has returned: the listener is Active and its task runs.
Init ==
  /\ life = "Active" /\ listening = TRUE
  /\ conn = [s \in Slot |-> [gen |-> 0, at |-> "free", life |-> "none"]]
  /\ request = [s \in Slot |-> "none"]
  /\ table = [s \in Slot |-> 0]
  /\ used = [read |-> 0, write |-> 0, world |-> 0]

-----------------------------------------------------------------------------
(* Budgets.  A read buffer is charged to the listener and then to the      *)
(* World, and given back in that order; the connections do so concurrently. *)

\* BufferBudget::reserve_local, and NativeBufferBudget::reserve from the payload
\* budget of the World: each a compare-and-exchange loop.
LocalFits(frames) == used.read + frames <= ReadBudget
WorldFits(frames) == used.world + frames <= WorldBudget

ChargeListener(frames) == used' = [used EXCEPT !.read = @ + frames]
ChargeWorld(frames) == used' = [used EXCEPT !.world = @ + frames]
ChargeReply(frames) == used' = [used EXCEPT !.write = @ + frames]

-----------------------------------------------------------------------------
(* The listener.                                                           *)

Open(s) == conn[s].at \notin {"free", "unlisted"}

\* A connection that finds no connection slot, task permit or actor slot is
\* closed at once, and nothing remembers it.
Accept(s) ==
  /\ listening /\ life = "Active" /\ conn[s].at = "free" /\ conn[s].gen < LastGen
  /\ Cardinality({t \in Slot : Open(t)}) < MaxConnections
  /\ conn' = [conn EXCEPT ![s] = [gen |-> @.gen + 1, at |-> "accepted", life |-> "Active"]]
  /\ UNCHANGED <<life, listening, request, table, used>>

\* The entry is made and the task spawned, whatever has happened meanwhile.
Spawn(s) ==
  /\ conn[s].at = "accepted"
  /\ table' = [table EXCEPT ![s] = conn[s].gen]
  /\ conn' = [conn EXCEPT ![s].at = "reading"]
  /\ UNCHANGED <<life, listening, request, used>>

\* Wrong: a draining listener goes on accepting (allow_drain).
StopListeningLate ==
  /\ listening /\ life = "Stopping" /\ \A s \in Slot : conn[s].at # "accepted"
  /\ listening' = FALSE
  /\ UNCHANGED <<life, conn, request, table, used>>

\* changed_out_of(listener), or a failing accept, which stops the listener.
StopListening ==
  /\ listening /\ life # "Active" /\ \A s \in Slot : conn[s].at # "accepted"
  /\ listening' = FALSE
  /\ UNCHANGED <<life, conn, request, table, used>>

\* Drain and stop reach the listener and its connections under one lock; a
\* stop cancels their requests.  The drain's deadline and its completion are
\* stops too.
Drain ==
  /\ life = "Active" /\ life' = "Quiescing"
  /\ conn' = [s \in Slot |-> IF conn[s].life = "Active"
                             THEN [conn[s] EXCEPT !.life = "Quiescing"] ELSE conn[s]]
  /\ UNCHANGED <<listening, request, table, used>>

Fenced(c) == IF c.life = "none" THEN c ELSE [c EXCEPT !.life = "Stopping"]
Cancelled(r) == IF r = "pending" THEN "failed" ELSE r

Stop ==
  /\ life # "Stopping" /\ life' = "Stopping"
  /\ conn' = [s \in Slot |-> Fenced(conn[s])]
  /\ request' = [s \in Slot |-> Cancelled(request[s])]
  /\ UNCHANGED <<listening, table, used>>

\* stop of a single connection.
StopOne(s) ==
  /\ conn[s].life \in {"Active", "Quiescing"}
  /\ conn' = [conn EXCEPT ![s] = Fenced(@)]
  /\ request' = [request EXCEPT ![s] = Cancelled(@)]
  /\ UNCHANGED <<life, listening, table, used>>

\* The target replies, fails or lets the deadline of the request pass.  A reply
\* that is no frame, or one too large, counts as a failure here.
Decide(s) ==
  /\ request[s] = "pending"
  /\ \E outcome \in {"completed", "failed"} :
       request' = [request EXCEPT ![s] = outcome]
  /\ UNCHANGED <<life, listening, conn, table, used>>

-----------------------------------------------------------------------------
(* connection_loop.  `stage' looks at the actor before the socket.         *)

Step(s, at) ==
  /\ conn' = [conn EXCEPT ![s].at = at]
  /\ UNCHANGED <<life, listening, table>>

Draining(s) == conn[s].life \in {"Active", "Quiescing"}

\* read_frame: the header has come, and a buffer of its size is asked for.
ReadHeader(s) ==
  /\ conn[s].at = "reading" /\ conn[s].life = "Active" /\ UNCHANGED request
  /\ \/ LocalFits(1) /\ ChargeListener(1) /\ Step(s, "charged")
     \/ ~LocalFits(1) /\ UNCHANGED used /\ Step(s, "closing")

\* Before the payload is built: twice the size of the frame.
ReserveScratch(s) ==
  /\ conn[s].at = "framed" /\ UNCHANGED request
  /\ \/ LocalFits(2) /\ ChargeListener(2) /\ Step(s, "scratched")
     \/ ~LocalFits(2) /\ UNCHANGED used /\ Step(s, "noscratch")

\* BufferBudget::reserve, second half: the World is asked for the same.
WorldGrants(s) ==
  /\ UNCHANGED request
  /\ \/ conn[s].at = "charged" /\ WorldFits(1) /\ ChargeWorld(1) /\ Step(s, "body")
     \/ conn[s].at = "scratched" /\ WorldFits(2) /\ ChargeWorld(2) /\ Step(s, "scratch")

WorldRefuses(s) ==
  /\ UNCHANGED <<request, used>>
  /\ \/ conn[s].at = "charged" /\ ~WorldFits(1) /\ Step(s, "refused")
     \/ conn[s].at = "scratched" /\ ~WorldFits(2) /\ Step(s, "overdrawn")

\* Wrong: only a permit that both budgets granted gives anything back.
DropPermitLeaking(s) ==
  /\ UNCHANGED request
  /\ \/ conn[s].at = "refused" /\ UNCHANGED used /\ Step(s, "closing")
     \/ conn[s].at = "overdrawn" /\ UNCHANGED used /\ Step(s, "noscratch")
     \/ conn[s].at = "built" /\ ChargeListener(-2) /\ Step(s, "halfscratch")
     \/ conn[s].at = "noscratch" /\ ChargeListener(-1) /\ Step(s, "halfframe")

\* BufferPermit::drop gives back what the listener granted, whether the World
\* granted it too or not.
DropPermit(s) ==
  /\ UNCHANGED request
  /\ \/ conn[s].at = "refused" /\ ChargeListener(-1) /\ Step(s, "closing")
     \/ conn[s].at = "overdrawn" /\ ChargeListener(-2) /\ Step(s, "noscratch")
     \/ conn[s].at = "built" /\ ChargeListener(-2) /\ Step(s, "halfscratch")
     \/ conn[s].at = "noscratch" /\ ChargeListener(-1) /\ Step(s, "halfframe")

\* Its field, the NativeBufferPermit, is dropped after it.  The frame goes last.
DropNativePermit(s) ==
  /\ UNCHANGED request
  /\ \/ conn[s].at = "halfscratch" /\ ChargeWorld(-2) /\ Step(s, "noscratch")
     \/ /\ conn[s].at = "halfframe" /\ ChargeWorld(-1)
        /\ Step(s, IF request[s] = "none" THEN "closing" ELSE "awaiting")

ReadBody(s) ==
  /\ conn[s].at = "body" /\ conn[s].life = "Active"
  /\ Step(s, "framed") /\ UNCHANGED <<request, used>>

\* End of file, an oversized or truncated frame, the read timeout; or the
\* actor is no longer Active: the drain does not wait for another frame.
ReadEnds(s) ==
  /\ UNCHANGED request
  /\ \/ conn[s].at = "reading" /\ UNCHANGED used /\ Step(s, "closing")
     \/ conn[s].at = "body" /\ ChargeListener(-1) /\ Step(s, "halfframe")

\* World::request refuses an owner that is not Active, and for other reasons.
MakeRequest(s) ==
  /\ conn[s].at = "scratch" /\ Step(s, "built") /\ UNCHANGED used
  /\ \/ conn[s].life = "Active" /\ request' = [request EXCEPT ![s] = "pending"]
     \/ UNCHANGED request

\* await_reply takes the outcome; anything but a reply ends the connection.
\* Once the actor is fenced the reply is no longer waited for.
TakeReply(s) ==
  /\ conn[s].at = "awaiting" /\ (request[s] # "pending" \/ ~Draining(s))
  /\ request' = [request EXCEPT ![s] = "none"]
  /\ Step(s, IF request[s] = "completed" /\ Draining(s) THEN "replied" ELSE "closing")
  /\ UNCHANGED used

\* claim_native_callback or, when draining, claim_native_drain_callback.
ClaimWrite(s) == Draining(s)

\* The reply must fit the write budget, which is the listener's alone.
ReserveReply(s) ==
  /\ conn[s].at = "replied" /\ UNCHANGED request
  /\ \/ used.write < WriteBudget /\ ChargeReply(1) /\ Step(s, "claiming")
     \/ used.write >= WriteBudget /\ UNCHANGED used /\ Step(s, "closing")

\* The write is claimed before the stop fence.
BeginWrite(s) ==
  /\ conn[s].at = "claiming" /\ UNCHANGED request
  /\ \/ ClaimWrite(s) /\ UNCHANGED used /\ Step(s, "writing")
     \/ ~ClaimWrite(s) /\ ChargeReply(-1) /\ Step(s, "closing")

\* The frame is written, or the write fails, times out or is cancelled.
EndWrite(s) ==
  /\ conn[s].at = "writing" /\ ChargeReply(-1) /\ UNCHANGED request
  /\ \/ Draining(s) /\ Step(s, "reading")
     \/ Step(s, "closing")

\* ConnectionGuard::drop, first half: the actor is stopped.
GuardStops(s) ==
  /\ conn[s].at = "closing"
  /\ conn' = [conn EXCEPT ![s].at = "stopped", ![s].life = "Stopping"]
  /\ request' = [request EXCEPT ![s] = "none"]
  /\ UNCHANGED <<life, listening, table, used>>

\* Second half: the table entry goes, and with it the connection slot.
GuardUnlists(s) ==
  /\ conn[s].at = "stopped"
  /\ table' = [table EXCEPT ![s] = 0]
  /\ conn' = [conn EXCEPT ![s].at = "unlisted"]
  /\ UNCHANGED <<life, listening, request, used>>

\* Wrong: the task ends, and its slot is free, before its guard is dropped.
EndTaskEarly(s) ==
  /\ conn[s].at = "stopped"
  /\ conn' = [conn EXCEPT ![s].at = "free", ![s].life = "none"]
  /\ UNCHANGED <<life, listening, request, table, used>>

\* The task lease is the last thing the task gives up: the actor is finalised
\* and its slot may be used again.
EndTask(s) ==
  /\ conn[s].at = "unlisted"
  /\ conn' = [conn EXCEPT ![s].at = "free", ![s].life = "none"]
  /\ UNCHANGED <<life, listening, request, table, used>>

ConnectionStep(s) ==
  \/ Spawn(s) \/ ReadEnds(s) \/ ReserveScratch(s) \/ WorldGrants(s) \/ WorldRefuses(s)
  \/ DropPermit(s) \/ DropNativePermit(s) \/ MakeRequest(s) \/ TakeReply(s)
  \/ ReserveReply(s) \/ BeginWrite(s) \/ EndWrite(s)
  \/ GuardStops(s) \/ GuardUnlists(s) \/ EndTask(s)

Next ==
  \/ StopListening \/ Drain \/ Stop
  \/ \E s \in Slot :
       \/ ConnectionStep(s) \/ ReadHeader(s) \/ ReadBody(s)
       \/ Accept(s) \/ StopOne(s) \/ Decide(s)

\* Every stage of the loop has a timeout or a deadline, and Tokio polls every
\* task that is woken.  A peer need not send anything.
Fairness ==
  /\ WF_vars(StopListening)
  /\ \A s \in Slot : WF_vars(ConnectionStep(s)) /\ WF_vars(Decide(s))

Spec == Init /\ [][Next]_vars /\ Fairness

-----------------------------------------------------------------------------
(* Properties.                                                             *)

\* Shared.connections is keyed by slot, and slots are used again: every entry
\* is a connection whose task still holds the slot, of its generation, and
\* every connection that serves its peer is listed.
TableExact ==
  \A s \in Slot :
    /\ table[s] # 0 => conn[s].at # "free" /\ table[s] = conn[s].gen
    /\ Open(s) /\ conn[s].at # "accepted" => table[s] = conn[s].gen

\* The connections at one of these points.
AtPoint(points) == {s \in Slot : conn[s].at \in points}

\* What is held of a read budget, per point: one frame, or a frame and its
\* scratch.  The two budgets differ wherever a connection is between its two
\* charges, or between giving the first back and the second.
ReadOne == {"charged", "refused", "body", "framed", "halfscratch", "noscratch"}
ReadThree == {"scratched", "overdrawn", "scratch", "built"}
WorldOne == {"body", "framed", "scratched", "overdrawn", "noscratch", "halfframe"}
WorldThree == {"scratch", "built", "halfscratch"}

\* However the reservations and the drops of the connections interleave, and
\* however a connection ends (a buffer the World refuses after the listener has
\* granted it included), each budget holds what the connections hold of it at
\* that point, and nothing else.
BudgetExact ==
  /\ used.read = Cardinality(AtPoint(ReadOne)) + 3 * Cardinality(AtPoint(ReadThree))
  /\ used.world = Cardinality(AtPoint(WorldOne)) + 3 * Cardinality(AtPoint(WorldThree))
  /\ used.write = Cardinality(AtPoint({"claiming", "writing"}))

\* A drained or stopped listener ends: it stops accepting and every connection
\* closes, those with a request under way after their reply.
ListenerEnds ==
  (life # "Active") ~> (~listening /\ \A s \in Slot : conn[s].at = "free")

=============================================================================
