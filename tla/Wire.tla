-------------------------------- MODULE Wire --------------------------------
(***************************************************************************)
(* The duplex wire between core (internal/wire.Mux) and one module process  *)
(* (sdk/brokerclient.brokerWire): two mirror images of the same code, one   *)
(* reader goroutine each, a table of calls that wait for an answer, and one *)
(* goroutine per inbound request.  Both directions share the connection.    *)
(*                                                                         *)
(* A call stands for its envelope id and its response channel.  Each end's  *)
(* outgoing stream holds Capacity envelopes and a writer blocks when it is  *)
(* full; writeMu is left out, as whoever waits for it waits for that room.  *)
(* The table's removal of a waiter and the send to its channel are one step:*)
(* only the reader does either, and what a caller that gave up in between   *)
(* sees is what it sees when it gives up before.                            *)
(***************************************************************************)
EXTENDS Integers, Sequences

CONSTANTS Call,        \* the exchanges of one wire
          Core,        \* those core starts; the module starts the others
          Timed,       \* those with a deadline (RoundTrip with timeout > 0)
          Parent,      \* [Call -> Call \cup {None}]: whose handler makes the call
          None,
          Capacity,    \* envelopes a direction buffers
          SlowStart,   \* the module may serve before its dispatcher is installed
          Mortal       \* the module process may die

End == {"core", "module"}
Peer(e) == CHOOSE f \in End : f # e
From(c) == IF c \in Core THEN "core" ELSE "module"
To(c) == Peer(From(c))

ASSUME WireAssumption ==
  /\ Core \subseteq Call /\ Timed \subseteq Call /\ None \notin Call
  /\ Parent \in [Call -> Call \cup {None}]
  /\ \A c \in Call : Parent[c] # None => From(c) = To(Parent[c])
  /\ Capacity \in Nat \ {0} /\ SlowStart \in BOOLEAN /\ Mortal \in BOOLEAN

VARIABLES call,      \* where a caller stands; "ok", "refused", "timeout" and "error" are outcomes
          box,       \* what its response channel holds
          pending,   \* m.pending of each end
          failed,    \* m.err of each end is set
          stream,    \* envelopes on the way from each end
          serve,     \* where the goroutine serving a call's request stands
          ready,     \* the module's dispatcher is installed
          closed     \* the connection is closed

vars == <<call, box, pending, failed, stream, serve, ready, closed>>

Outcome == {"ok", "refused", "timeout", "error"}
Request(c) == [kind |-> "request", id |-> c]
Response(c, answer) == [kind |-> answer, id |-> c]
Room(e) == Len(stream[e]) < Capacity
Incoming(e) == stream[Peer(e)]
Envelope == [kind : {"request", "ok", "refused"}, id : Call]

Init == /\ call = [c \in Call |-> "idle"] /\ box = [c \in Call |-> "empty"]
        /\ pending = [e \in End |-> {}] /\ failed = [e \in End |-> FALSE]
        /\ stream = [e \in End |-> <<>>] /\ serve = [c \in Call |-> "none"]
        /\ ready \in {TRUE, ~SlowStart} /\ closed = FALSE

-----------------------------------------------------------------------------
(* RoundTrip, roundTrip: the caller's side *)

Register(c) ==
  /\ call[c] = "idle"
  /\ Parent[c] # None => serve[Parent[c]] = "handling"
  /\ IF failed[From(c)]
       THEN call' = [call EXCEPT ![c] = "error"] /\ UNCHANGED pending
       ELSE /\ call' = [call EXCEPT ![c] = "write"]
            /\ pending' = [pending EXCEPT ![From(c)] = @ \cup {c}]
  /\ UNCHANGED <<box, failed, stream, serve, ready, closed>>

Write(c) ==
  /\ call[c] = "write" /\ ~closed /\ Room(From(c))
  /\ stream' = [stream EXCEPT ![From(c)] = Append(@, Request(c))]
  /\ call' = [call EXCEPT ![c] = "wait"]
  /\ UNCHANGED <<box, pending, failed, serve, ready, closed>>

WriteFails(c) ==
  /\ call[c] = "write" /\ closed
  /\ pending' = [pending EXCEPT ![From(c)] = @ \ {c}]
  /\ call' = [call EXCEPT ![c] = "error"]
  /\ UNCHANGED <<box, failed, stream, serve, ready, closed>>

Receive(c) ==
  /\ call[c] = "wait" /\ box[c] # "empty"
  /\ call' = [call EXCEPT ![c] = IF box[c] = "closed" THEN "error" ELSE box[c]]
  /\ UNCHANGED <<box, pending, failed, stream, serve, ready, closed>>

\* mutant: the timed-out caller leaves its waiter behind.
TimeOutForgetting(c) ==
  /\ call[c] = "wait" /\ c \in Timed
  /\ call' = [call EXCEPT ![c] = "timeout"]
  /\ UNCHANGED <<box, pending, failed, stream, serve, ready, closed>>

TimeOut(c) ==
  /\ call[c] = "wait" /\ c \in Timed
  /\ call' = [call EXCEPT ![c] = "timeout"]
  /\ pending' = [pending EXCEPT ![From(c)] = @ \ {c}]
  /\ UNCHANGED <<box, failed, stream, serve, ready, closed>>

-----------------------------------------------------------------------------
(* readLoop.  A send to a full response channel would block the reader. *)

\* mutant: the reader serves a request itself and reads on once the answer is written.
ReadRequestInline(e) ==
  /\ Incoming(e) # <<>> /\ ~failed[e] /\ Room(e) /\ ~closed
  /\ LET m == Head(Incoming(e)) IN
       /\ m.kind = "request" /\ \A d \in Call : Parent[d] # m.id
       /\ serve' = [serve EXCEPT ![m.id] = "answered"]
       /\ stream' = [stream EXCEPT ![Peer(e)] = Tail(@), ![e] = Append(@, Response(m.id, "ok"))]
  /\ UNCHANGED <<call, box, pending, failed, ready, closed>>

ReadRequest(e) ==
  /\ Incoming(e) # <<>> /\ ~failed[e]
  /\ LET m == Head(Incoming(e)) IN
       /\ m.kind = "request"
       /\ serve' = [serve EXCEPT ![m.id] = IF e = "core" \/ ready THEN "handling" ELSE "refusing"]
  /\ stream' = [stream EXCEPT ![Peer(e)] = Tail(@)]
  /\ UNCHANGED <<call, box, pending, failed, ready, closed>>

Deliver(e) ==
  /\ Incoming(e) # <<>> /\ ~failed[e]
  /\ LET m == Head(Incoming(e)) IN
       /\ m.kind # "request"
       /\ IF m.id \in pending[e]
            THEN /\ box[m.id] = "empty"
                 /\ box' = [box EXCEPT ![m.id] = m.kind]
                 /\ pending' = [pending EXCEPT ![e] = @ \ {m.id}]
            ELSE UNCHANGED <<box, pending>>
  /\ stream' = [stream EXCEPT ![Peer(e)] = Tail(@)]
  /\ UNCHANGED <<call, failed, serve, ready, closed>>

(* The read fails: what is still on the way is lost and every waiter is released. *)
Fail(e) ==
  /\ closed /\ ~failed[e]
  /\ \A c \in pending[e] : box[c] = "empty"
  /\ failed' = [failed EXCEPT ![e] = TRUE]
  /\ box' = [c \in Call |-> IF c \in pending[e] THEN "closed" ELSE box[c]]
  /\ pending' = [pending EXCEPT ![e] = {}]
  /\ stream' = [stream EXCEPT ![Peer(e)] = <<>>]
  /\ UNCHANGED <<call, serve, ready, closed>>

-----------------------------------------------------------------------------
(* serveInbound, at the other end *)

Answer(c) ==
  /\ serve[c] \in {"handling", "refusing"}
  /\ \A d \in Call : Parent[d] = c /\ serve[c] = "handling" => call[d] \in Outcome
  /\ IF closed
       THEN serve' = [serve EXCEPT ![c] = "gone"] /\ UNCHANGED stream
       ELSE /\ Room(To(c))
            /\ stream' = [stream EXCEPT ![To(c)] =
                 Append(@, Response(c, IF serve[c] = "handling" THEN "ok" ELSE "refused"))]
            /\ serve' = [serve EXCEPT ![c] = "answered"]
  /\ UNCHANGED <<call, box, pending, failed, ready, closed>>

Install == /\ ~ready /\ ready' = TRUE     \* SetRequestHandler
           /\ UNCHANGED <<call, box, pending, failed, stream, serve, closed>>

Die == /\ Mortal /\ ~closed /\ closed' = TRUE
       /\ UNCHANGED <<call, box, pending, failed, stream, serve, ready>>

Read(e) == ReadRequest(e) \/ Deliver(e) \/ Fail(e)
Calling(c) == Register(c) \/ Write(c) \/ WriteFails(c) \/ Receive(c)
Next == \/ \E e \in End : Read(e)
        \/ \E c \in Call : Calling(c) \/ TimeOut(c) \/ Answer(c)
        \/ Install \/ Die

Spec == Init /\ [][Next]_vars

(* The Go scheduler runs every goroutine that can go on; a deadline passes. *)
FairSpec == /\ Spec /\ WF_vars(Install)
            /\ \A e \in End : WF_vars(Read(e))
            /\ \A c \in Call : WF_vars(Calling(c)) /\ WF_vars(TimeOut(c)) /\ WF_vars(Answer(c))

-----------------------------------------------------------------------------
TypeOK ==
  /\ call \in [Call -> {"idle", "write", "wait"} \cup Outcome]
  /\ box \in [Call -> {"empty", "ok", "refused", "closed"}]
  /\ pending \in [End -> SUBSET Call]
  /\ failed \in [End -> BOOLEAN]
  /\ stream \in [End -> Seq(Envelope)] /\ \A e \in End : Len(stream[e]) <= Capacity
  /\ serve \in [Call -> {"none", "handling", "refusing", "answered", "gone"}]
  /\ ready \in BOOLEAN /\ closed \in BOOLEAN

(* A caller gets the answer to its own request: whoever reports success was served. *)
OwnAnswer == \A c \in Call : call[c] = "ok" => serve[c] = "answered"

(* The reader never meets a full response channel, so one caller cannot stop the wire. *)
ReaderNeverBlocks == \A e \in End : \A c \in pending[e] : box[c] = "empty"

(* Nobody is left waiting on a wire that has failed: who registered is released, who came
   later was turned away. *)
ReleasedOnFailure ==
  \A c \in Call : call[c] = "wait" /\ failed[From(c)] => box[c] # "empty"

(* No caller that has returned is left in the table: a timed-out call leaves nothing for a
   late answer to meet. *)
NoStaleWaiter == \A e \in End : \A c \in pending[e] : call[c] \in {"write", "wait"}

(* Answers, waiters and response channels agree at every step, a failure included. *)
TableIsSound == OwnAnswer /\ ReaderNeverBlocks /\ ReleasedOnFailure /\ NoStaleWaiter

(* The handshake is a single round trip that waits for the module to come up: no request is
   turned away because the module is still starting.  The code does not keep this: TLC
   refutes it (README, section 5). *)
NeverRefused == \A c \in Call : call[c] # "refused"

(* Every call returns, those without a deadline too: an answer comes or the wire fails, with
   requests crossing in both directions and handlers that call back. *)
EveryCallReturns == \A c \in Call : (call[c] = "write") ~> (call[c] \in Outcome)

=============================================================================
