----------------------------- MODULE WireProofs -----------------------------
(***************************************************************************)
(* Proofs about Wire for any set of exchanges, nested in any way, any       *)
(* buffer, deadlines or none, and a process that may die at any moment.     *)
(* IInv follows one envelope id around: a request is on its way at most     *)
(* once and before anybody serves it, an answer is on its way only when     *)
(* somebody has, and a caller that waits is in the table or has its answer. *)
(***************************************************************************)
EXTENDS Wire, TLAPS

\* A request envelope exists once, on its caller's stream, between the write and the read.
RequestInv ==
  /\ \A e \in End : \A k \in 1..Len(stream[e]) : stream[e][k].kind = "request" =>
       /\ e = From(stream[e][k].id)
       /\ serve[stream[e][k].id] = "none"
       /\ call[stream[e][k].id] \notin {"idle", "write"}
  /\ \A c \in Call : call[c] \in {"idle", "write"} => serve[c] = "none"

UniqueInv ==
  \A e \in End : \A k, j \in 1..Len(stream[e]) :
    stream[e][k].kind = "request" /\ stream[e][j].kind = "request"
      /\ stream[e][j].id = stream[e][k].id => j = k

\* A positive answer, on its way, in the caller's channel or taken, was given by a handler.
AnswerInv ==
  /\ \A e \in End : \A k \in 1..Len(stream[e]) :
       stream[e][k].kind = "ok" => serve[stream[e][k].id] = "answered"
  /\ \A c \in Call : box[c] = "ok" \/ call[c] = "ok" => serve[c] = "answered"

\* Who waits is in the table or has something to take; who is in the table waits.
TableInv ==
  /\ \A e \in End : \A c \in pending[e] :
       From(c) = e /\ box[c] = "empty" /\ call[c] \in {"write", "wait"}
  /\ \A c \in Call : call[c] \in {"write", "wait"} /\ box[c] = "empty" => c \in pending[From(c)]
  /\ \A e \in End : failed[e] => pending[e] = {}
  /\ \A c \in Call : call[c] = "idle" => box[c] = "empty"

\* TypeOK, the streams apart from the rest.
Shape ==
  /\ call \in [Call -> {"idle", "write", "wait"} \cup Outcome]
  /\ box \in [Call -> {"empty", "ok", "refused", "closed"}]
  /\ pending \in [End -> SUBSET Call]
  /\ failed \in [End -> BOOLEAN]
  /\ serve \in [Call -> {"none", "handling", "refusing", "answered", "gone"}]
  /\ ready \in BOOLEAN /\ closed \in BOOLEAN
Streams == stream \in [End -> Seq(Envelope)] /\ \A e \in End : Len(stream[e]) <= Capacity

IInv == Shape /\ Streams /\ RequestInv /\ UniqueInv /\ AnswerInv /\ TableInv

LEMMA Ends == "core" \in End /\ "module" \in End /\ Peer("core") = "module" /\ Peer("module") = "core"
              /\ (\A e \in End : Peer(e) \in End /\ Peer(e) # e /\ Peer(Peer(e)) = e)
              /\ (\A c \in Call : From(c) \in End /\ To(c) = Peer(From(c)))
  BY DEF End, Peer, From, To

LEMMA Appending ==
  ASSUME NEW S, NEW s \in Seq(S), NEW x \in S
  PROVE  /\ Append(s, x) \in Seq(S) /\ Len(Append(s, x)) = Len(s) + 1
         /\ \A k \in 1..Len(s) : Append(s, x)[k] = s[k]
         /\ Append(s, x)[Len(s) + 1] = x
         /\ Len(s) \in Nat
  OBVIOUS

LEMMA Popping ==
  ASSUME NEW S, NEW s \in Seq(S), s # <<>>
  PROVE  /\ Tail(s) \in Seq(S) /\ Len(Tail(s)) = Len(s) - 1 /\ Len(s) \in Nat /\ Len(s) >= 1
         /\ \A k \in 1..Len(Tail(s)) : Tail(s)[k] = s[k + 1] /\ k + 1 \in 1..Len(s)
         /\ Head(s) = s[1] /\ Head(s) \in S
  OBVIOUS

LEMMA Flat == (\A e \in End : Peer(e) \in End) /\ (\A c \in Call : From(c) \in End /\ To(c) \in End /\ To(c) # From(c))
  BY Ends

LEMMA OnTheWay ==
  ASSUME Streams, NEW g \in End, NEW k \in 1..Len(stream[g])
  PROVE  stream[g][k] \in Envelope /\ stream[g][k].id \in Call
<1>1. stream[g] \in Seq(Envelope)
  BY DEF Streams
<1>2. stream[g][k] \in Envelope
  BY <1>1
<1> QED
  BY <1>2 DEF Envelope

LEMMA Initially == Init => IInv
<1> SUFFICES ASSUME Init PROVE IInv
  OBVIOUS
<1>1. \A e \in End : stream[e] = <<>> /\ Len(stream[e]) = 0
  BY DEF Init
<1>2. Streams
  BY <1>1, WireAssumption DEF Init, Streams
<1>3. Shape
  BY WireAssumption DEF Init, Shape
<1>4. RequestInv /\ UniqueInv /\ AnswerInv
  BY <1>1 DEF Init, RequestInv, UniqueInv, AnswerInv
<1>5. TableInv
  BY DEF Init, TableInv
<1> QED
  BY <1>2, <1>3, <1>4, <1>5 DEF IInv

-----------------------------------------------------------------------------
(* Everything but the streams keeps its type. *)
LEMMA ShapeStep == IInv /\ [Next]_vars => Shape'
<1> SUFFICES ASSUME IInv, [Next]_vars PROVE Shape'
  OBVIOUS
<1> USE Ends DEF IInv, Shape, Outcome
<1>1. ASSUME NEW c \in Call, Register(c) PROVE Shape'
  <2>1. pending' \in [End -> SUBSET Call]
    <3>1. CASE failed[From(c)]
      BY <1>1, <3>1 DEF Register
    <3>2. CASE ~failed[From(c)]
      BY <1>1, <3>2 DEF Register
    <3> QED
      BY <3>1, <3>2
  <2> QED
    BY <1>1, <2>1 DEF Register
<1>2. ASSUME NEW c \in Call, Write(c) PROVE Shape'
  BY <1>2 DEF Write
<1>3. ASSUME NEW c \in Call, WriteFails(c) PROVE Shape'
  BY <1>3 DEF WriteFails
<1>4. ASSUME NEW c \in Call, Receive(c) PROVE Shape'
  BY <1>4 DEF Receive
<1>5. ASSUME NEW c \in Call, TimeOut(c) PROVE Shape'
  BY <1>5 DEF TimeOut
<1>6. ASSUME NEW c \in Call, Answer(c) PROVE Shape'
  <2>1. CASE closed
    BY <1>6, <2>1 DEF Answer
  <2>2. CASE ~closed
    BY <1>6, <2>2 DEF Answer
  <2> QED
    BY <2>1, <2>2
<1>7. ASSUME NEW e \in End, ReadRequest(e) PROVE Shape'
  <2>1. stream[Peer(e)] \in Seq(Envelope) /\ stream[Peer(e)] # <<>>
    BY <1>7 DEF ReadRequest, Incoming, Streams
  <2>2. Head(stream[Peer(e)]) \in Envelope
    BY <2>1
  <2> QED
    BY <1>7, <2>2 DEF ReadRequest, Incoming, Envelope
<1>8. ASSUME NEW e \in End, Deliver(e) PROVE Shape'
  <2>1. stream[Peer(e)] \in Seq(Envelope) /\ stream[Peer(e)] # <<>>
    BY <1>8 DEF Deliver, Incoming, Streams
  <2>2. Head(stream[Peer(e)]) \in Envelope
    BY <2>1
  <2>3. CASE Head(stream[Peer(e)]).id \in pending[e]
    BY <1>8, <2>2, <2>3 DEF Deliver, Incoming, Envelope
  <2>4. CASE Head(stream[Peer(e)]).id \notin pending[e]
    BY <1>8, <2>4 DEF Deliver, Incoming
  <2> QED
    BY <2>3, <2>4
<1>9. ASSUME NEW e \in End, Fail(e) PROVE Shape'
  BY <1>9 DEF Fail
<1>10. CASE Install
  BY <1>10 DEF Install
<1>11. CASE Die
  BY <1>11 DEF Die
<1>12. CASE UNCHANGED vars
  BY <1>12 DEF vars
<1> QED
  BY <1>1, <1>2, <1>3, <1>4, <1>5, <1>6, <1>7, <1>8, <1>9, <1>10, <1>11, <1>12 DEF Next, Calling, Read

(* The streams keep their type and their bound. *)
LEMMA StreamStep == IInv /\ [Next]_vars => Streams'
<1> SUFFICES ASSUME IInv, [Next]_vars PROVE Streams'
  OBVIOUS
<1> USE Ends, WireAssumption DEF IInv, Streams
<1>1. ASSUME NEW c \in Call, Register(c) PROVE Streams'
  BY <1>1 DEF Register
<1>2. ASSUME NEW c \in Call, Write(c) PROVE Streams'
  <2>1. Request(c) \in Envelope
    BY DEF Request, Envelope
  <2>2. stream' = [stream EXCEPT ![From(c)] = Append(@, Request(c))] /\ Len(stream[From(c)]) < Capacity
    BY <1>2 DEF Write, Room
  <2> QED
    BY <2>1, <2>2, Appending
<1>3. ASSUME NEW c \in Call, WriteFails(c) PROVE Streams'
  BY <1>3 DEF WriteFails
<1>4. ASSUME NEW c \in Call, Receive(c) PROVE Streams'
  BY <1>4 DEF Receive
<1>5. ASSUME NEW c \in Call, TimeOut(c) PROVE Streams'
  BY <1>5 DEF TimeOut
<1>6. ASSUME NEW c \in Call, Answer(c) PROVE Streams'
  <2>1. CASE closed
    BY <1>6, <2>1 DEF Answer
  <2>2. CASE ~closed
    <3>1. PICK m \in Envelope : stream' = [stream EXCEPT ![To(c)] = Append(@, m)]
      BY <1>6, <2>2 DEF Answer, Response, Envelope
    <3>2. Len(stream[To(c)]) < Capacity
      BY <1>6, <2>2 DEF Answer, Room
    <3> QED
      BY <3>1, <3>2, Appending
  <2> QED
    BY <2>1, <2>2
<1>7. ASSUME NEW e \in End, ReadRequest(e) PROVE Streams'
  <2> DEFINE p == Peer(e)
  <2>1. stream[p] \in Seq(Envelope) /\ stream[p] # <<>> /\ p \in End
    BY <1>7 DEF ReadRequest, Incoming
  <2>2. stream' = [stream EXCEPT ![p] = Tail(@)]
    BY <1>7 DEF ReadRequest
  <2> QED
    BY <2>1, <2>2, Popping
<1>8. ASSUME NEW e \in End, Deliver(e) PROVE Streams'
  <2> DEFINE p == Peer(e)
  <2>1. stream[p] \in Seq(Envelope) /\ stream[p] # <<>> /\ p \in End
    BY <1>8 DEF Deliver, Incoming
  <2>2. stream' = [stream EXCEPT ![p] = Tail(@)]
    BY <1>8 DEF Deliver
  <2> QED
    BY <2>1, <2>2, Popping
<1>9. ASSUME NEW e \in End, Fail(e) PROVE Streams'
  BY <1>9 DEF Fail
<1>10. CASE Install
  BY <1>10 DEF Install
<1>11. CASE Die
  BY <1>11 DEF Die
<1>12. CASE UNCHANGED vars
  BY <1>12 DEF vars
<1> QED
  BY <1>1, <1>2, <1>3, <1>4, <1>5, <1>6, <1>7, <1>8, <1>9, <1>10, <1>11, <1>12 DEF Next, Calling, Read

(* The table of waiters. *)
LEMMA TableStep == IInv /\ [Next]_vars => TableInv'
<1> SUFFICES ASSUME IInv, [Next]_vars PROVE TableInv'
  OBVIOUS
<1> USE Ends DEF IInv, Shape, TableInv, Outcome
<1>1. ASSUME NEW c \in Call, Register(c) PROVE TableInv'
  <2>1. CASE failed[From(c)]
    <3>1. call' = [call EXCEPT ![c] = "error"] /\ UNCHANGED <<box, failed, pending>> /\ call[c] = "idle"
      BY <1>1, <2>1 DEF Register
    <3>2. \A f \in End : c \notin pending[f]
      BY <3>1
    <3> QED
      BY <3>1, <3>2
  <2>2. CASE ~failed[From(c)]
    <3>1. /\ call' = [call EXCEPT ![c] = "write"] /\ box' = box /\ failed' = failed
          /\ pending' = [pending EXCEPT ![From(c)] = @ \cup {c}]
      BY <1>1, <2>2 DEF Register
    <3>2. box[c] = "empty"
      BY <1>1 DEF Register
    <3> QED
      BY <2>2, <3>1, <3>2
  <2> QED
    BY <2>1, <2>2
<1>2. ASSUME NEW c \in Call, Write(c) PROVE TableInv'
  BY <1>2 DEF Write
<1>3. ASSUME NEW c \in Call, WriteFails(c) PROVE TableInv'
  BY <1>3 DEF WriteFails
<1>4. ASSUME NEW c \in Call, Receive(c) PROVE TableInv'
  <2>1. c \notin pending[From(c)] /\ call[c] = "wait"
    BY <1>4 DEF Receive
  <2>2. \A d \in Call : d # c => call'[d] = call[d]
    BY <1>4 DEF Receive
  <2>3. call'[c] \in {"ok", "refused", "error"} /\ UNCHANGED <<box, pending, failed>>
    BY <1>4 DEF Receive
  <2> QED
    BY <2>1, <2>2, <2>3
<1>5. ASSUME NEW c \in Call, TimeOut(c) PROVE TableInv'
  BY <1>5 DEF TimeOut
<1>6. ASSUME NEW c \in Call, Answer(c) PROVE TableInv'
  BY <1>6 DEF Answer
<1>7. ASSUME NEW e \in End, ReadRequest(e) PROVE TableInv'
  BY <1>7 DEF ReadRequest
<1>8. ASSUME NEW e \in End, Deliver(e) PROVE TableInv'
  <2> DEFINE m == Head(stream[Peer(e)])
  <2>1. CASE m.id \in pending[e]
    <3>1. /\ box' = [box EXCEPT ![m.id] = m.kind] /\ call' = call /\ failed' = failed
          /\ pending' = [pending EXCEPT ![e] = @ \ {m.id}]
      BY <1>8, <2>1 DEF Deliver, Incoming
    <3>2. m.id \in Call /\ From(m.id) = e /\ call[m.id] \in {"write", "wait"}
      BY <2>1
    <3>3. m \in Envelope
      BY <1>8, Popping DEF Deliver, Incoming, Streams
    <3>4. m.kind # "empty"
      BY <3>3 DEF Envelope
    <3> HIDE DEF m
    <3>5. box'[m.id] # "empty" /\ \A d \in Call : d # m.id => box'[d] = box[d]
      BY <3>1, <3>2, <3>4
    <3>6. /\ \A d \in pending'[e] : d \in pending[e] /\ d # m.id
          /\ \A f \in End : f # e => pending'[f] = pending[f]
          /\ \A d \in pending[e] : d # m.id => d \in pending'[e]
      BY <3>1
    <3>7. \A f \in End : pending'[f] \subseteq pending[f] /\ m.id \notin pending'[f]
      BY <3>2, <3>6
    <3> QED
      BY <3>1, <3>2, <3>5, <3>6, <3>7
  <2>2. CASE m.id \notin pending[e]
    BY <1>8, <2>2 DEF Deliver, Incoming
  <2> QED
    BY <2>1, <2>2
<1>9. ASSUME NEW e \in End, Fail(e) PROVE TableInv'
  <2>1. /\ failed' = [failed EXCEPT ![e] = TRUE] /\ call' = call
        /\ pending' = [pending EXCEPT ![e] = {}]
        /\ \A c \in Call : box'[c] = IF c \in pending[e] THEN "closed" ELSE box[c]
    BY <1>9 DEF Fail
  <2>2. \A f \in End : \A c \in pending[f] : c \in pending[e] => f = e
    OBVIOUS
  <2>3. \A f \in End : pending[f] \subseteq Call /\ pending'[f] \subseteq pending[f] /\ (f # e => pending'[f] = pending[f])
    BY <2>1
  <2>4. \A f \in End : \A c \in pending'[f] : c \in Call /\ c \in pending[f] /\ c \notin pending[e]
    BY <2>1, <2>2, <2>3
  <2>5. \A f \in End : \A c \in pending'[f] : From(c) = f /\ box'[c] = "empty" /\ call'[c] \in {"write", "wait"}
    BY <2>1, <2>4
  <2>6. \A c \in Call : call'[c] \in {"write", "wait"} /\ box'[c] = "empty" => c \in pending'[From(c)]
    BY <2>1, <2>3
  <2>7. \A f \in End : failed'[f] => pending'[f] = {}
    BY <2>1
  <2>8. \A c \in Call : call'[c] = "idle" => box'[c] = "empty"
    BY <2>1
  <2> QED
    BY <2>5, <2>6, <2>7, <2>8
<1>10. CASE Install
  BY <1>10 DEF Install
<1>11. CASE Die
  BY <1>11 DEF Die
<1>12. CASE UNCHANGED vars
  BY <1>12 DEF vars
<1> QED
  BY <1>1, <1>2, <1>3, <1>4, <1>5, <1>6, <1>7, <1>8, <1>9, <1>10, <1>11, <1>12 DEF Next, Calling, Read

(* Requests on their way. *)
LEMMA RequestStep == IInv /\ [Next]_vars => RequestInv'
<1> SUFFICES ASSUME IInv, [Next]_vars PROVE RequestInv'
  OBVIOUS
<1>s. stream \in [End -> Seq(Envelope)]
  BY DEF IInv, Streams
<1>t. /\ call \in [Call -> {"idle", "write", "wait"} \cup Outcome]
      /\ serve \in [Call -> {"none", "handling", "refusing", "answered", "gone"}] /\ RequestInv
  BY DEF IInv, Shape, Streams
<1>i. \A g \in End : \A k \in 1..Len(stream[g]) : stream[g][k] \in Envelope /\ stream[g][k].id \in Call
  BY OnTheWay DEF IInv
<1> USE Flat, <1>t, <1>i DEF RequestInv, Outcome
<1>1. ASSUME NEW c \in Call, Register(c) PROVE RequestInv'
  <2>1. call[c] = "idle" /\ stream' = stream /\ serve' = serve
    BY <1>1 DEF Register
  <2>2. \A d \in Call : d # c => call'[d] = call[d]
    BY <1>1 DEF Register
  <2> QED
    BY <2>1, <2>2
<1>2. ASSUME NEW c \in Call, Write(c) PROVE RequestInv'
  <2> DEFINE f == From(c)
  <2>1. Request(c) \in Envelope /\ Request(c).kind = "request" /\ Request(c).id = c
    BY DEF Request, Envelope
  <2>2. stream[f] \in Seq(Envelope) /\ f \in End
    BY <1>s
  <2>3. stream' = [stream EXCEPT ![f] = Append(@, Request(c))] /\ serve' = serve /\ box' = box
        /\ call' = [call EXCEPT ![c] = "wait"] /\ call[c] = "write"
    BY <1>2 DEF Write
  <2>4. /\ Len(stream'[f]) = Len(stream[f]) + 1 /\ Len(stream[f]) \in Nat
        /\ \A k \in 1..Len(stream[f]) : stream'[f][k] = stream[f][k]
        /\ stream'[f][Len(stream[f]) + 1] = Request(c)
        /\ \A g \in End : g # f => stream'[g] = stream[g]
    BY <1>s, <2>1, <2>2, <2>3, Appending
  <2>5. \A k \in 1..Len(stream[f]) : stream[f][k].kind = "request" => stream[f][k].id # c
    BY <2>2, <2>3
  <2>6. \A k \in 1..Len(stream'[f]) : k \in 1..Len(stream[f]) \/ k = Len(stream[f]) + 1
    BY <2>4
  <2> QED
    BY <2>1, <2>2, <2>3, <2>4, <2>5, <2>6
<1>3. ASSUME NEW c \in Call, WriteFails(c) PROVE RequestInv'
  <2>1. call[c] = "write" /\ call'[c] = "error" /\ stream' = stream /\ serve' = serve
    BY <1>3 DEF WriteFails
  <2>2. \A d \in Call : d # c => call'[d] = call[d]
    BY <1>3 DEF WriteFails
  <2> QED
    BY <2>1, <2>2
<1>4. ASSUME NEW c \in Call, Receive(c) PROVE RequestInv'
  <2>1. call[c] = "wait" /\ call'[c] \notin {"idle", "write"} /\ stream' = stream /\ serve' = serve
    BY <1>4 DEF Receive, IInv, Shape
  <2>2. \A d \in Call : d # c => call'[d] = call[d]
    BY <1>4 DEF Receive
  <2> QED
    BY <2>1, <2>2
<1>5. ASSUME NEW c \in Call, TimeOut(c) PROVE RequestInv'
  BY <1>5 DEF TimeOut
<1>6. ASSUME NEW c \in Call, Answer(c) PROVE RequestInv'
  <2>1. CASE closed
    BY <1>6, <2>1 DEF Answer
  <2>2. CASE ~closed
    <3> DEFINE f == To(c)
               m == Response(c, IF serve[c] = "handling" THEN "ok" ELSE "refused")
    <3>1. m \in Envelope /\ m.kind \in {"ok", "refused"} /\ m.id = c
      BY DEF Response, Envelope
    <3>2. stream[f] \in Seq(Envelope) /\ f \in End
      BY <1>s
    <3>3. stream' = [stream EXCEPT ![f] = Append(@, m)] /\ call' = call /\ box' = box
          /\ serve' = [serve EXCEPT ![c] = "answered"] /\ serve[c] \in {"handling", "refusing"}
      BY <1>6, <2>2 DEF Answer
    <3> HIDE DEF m
    <3>4. /\ Len(stream'[f]) = Len(stream[f]) + 1 /\ Len(stream[f]) \in Nat
          /\ \A k \in 1..Len(stream[f]) : stream'[f][k] = stream[f][k]
          /\ stream'[f][Len(stream[f]) + 1] = m
          /\ \A g \in End : g # f => stream'[g] = stream[g]
      BY <1>s, <3>1, <3>2, <3>3, Appending
    <3>5. ASSUME NEW g \in End, NEW k \in 1..Len(stream'[g])
          PROVE  \/ k \in 1..Len(stream[g]) /\ stream'[g][k] = stream[g][k]
                 \/ stream'[g][k].kind # "request" /\ stream'[g][k].id = c
      <4>1. CASE g = f
        <5>1. k \in 1..Len(stream[f]) \/ k = Len(stream[f]) + 1
          BY <3>4, <4>1
        <5> QED
          BY <3>1, <3>4, <4>1, <5>1
      <4>2. CASE g # f
        BY <3>4, <4>2
      <4> QED
        BY <4>1, <4>2
    <3>6. \A g \in End : \A k \in 1..Len(stream[g]) : stream[g][k].kind = "request" => stream[g][k].id # c
      BY <3>3
    <3>7. call[c] \notin {"idle", "write"} /\ \A d \in Call : d # c => serve'[d] = serve[d]
      BY <3>3
    <3> QED
      BY <3>3, <3>5, <3>6, <3>7
  <2> QED
    BY <2>1, <2>2
<1>7. ASSUME NEW e \in End, ReadRequest(e) PROVE RequestInv'
  <2> DEFINE p == Peer(e)
             m == Head(stream[p])
  <2>1. stream[p] \in Seq(Envelope) /\ stream[p] # <<>> /\ p \in End
    BY <1>7, <1>s DEF ReadRequest, Incoming
  <2>2. stream' = [stream EXCEPT ![p] = Tail(@)] /\ call' = call /\ m.kind = "request"
    BY <1>7, <1>s DEF ReadRequest, Incoming
  <2>3. /\ Len(stream'[p]) = Len(stream[p]) - 1 /\ Len(stream[p]) \in Nat /\ Len(stream[p]) >= 1
        /\ \A k \in 1..Len(stream'[p]) : stream'[p][k] = stream[p][k + 1] /\ k + 1 \in 1..Len(stream[p])
        /\ m = stream[p][1] /\ m \in Envelope
        /\ \A g \in End : g # p => stream'[g] = stream[g]
    BY <1>s, <2>1, <2>2, Popping
  <2>4. m.id \in Call /\ 1 \in 1..Len(stream[p]) /\ m.kind \in {"request", "ok", "refused"}
    BY <2>3 DEF Envelope
  <2> HIDE DEF m
  <2>s. \A k \in 1..Len(stream'[p]) :
          stream'[p][k] = stream[p][k + 1] /\ k + 1 \in 1..Len(stream[p]) /\ k + 1 # 1 /\ k \in Int
    BY <2>3
  <2>5. \A d \in Call : d # m.id => serve'[d] = serve[d]
    BY <1>7 DEF ReadRequest, Incoming, m
  <2>6. call[m.id] \notin {"idle", "write"} /\ p = From(m.id)
    BY <2>2, <2>3, <2>4
  <2>7. \A k \in 1..Len(stream[p]) : stream[p][k].kind = "request" /\ stream[p][k].id = m.id => k = 1
    BY <2>1, <2>2, <2>3, <2>4 DEF IInv, UniqueInv
  <2>8. \A k \in 1..Len(stream'[p]) : stream'[p][k].kind = "request" => stream'[p][k].id # m.id
    BY <2>s, <2>7, SMTT(20)
  <2>9. \A g \in End : g # p => \A k \in 1..Len(stream[g]) : stream[g][k].kind = "request" => stream[g][k].id # m.id
    BY <2>6
  <2>10. \A d \in Call : call'[d] \in {"idle", "write"} => serve'[d] = "none"
    BY <2>2, <2>5, <2>6
  <2>11. \A g \in End : g # p => \A k \in 1..Len(stream'[g]) : stream'[g][k].kind = "request" =>
           /\ g = From(stream'[g][k].id) /\ serve'[stream'[g][k].id] = "none"
           /\ call'[stream'[g][k].id] \notin {"idle", "write"}
    BY <2>2, <2>3, <2>5, <2>9
  <2>12. \A k \in 1..Len(stream'[p]) : stream'[p][k].kind = "request" =>
           /\ p = From(stream'[p][k].id) /\ serve'[stream'[p][k].id] = "none"
           /\ call'[stream'[p][k].id] \notin {"idle", "write"}
    <3> SUFFICES ASSUME NEW k \in 1..Len(stream'[p]), stream'[p][k].kind = "request"
                 PROVE  /\ p = From(stream'[p][k].id) /\ serve'[stream'[p][k].id] = "none"
                        /\ call'[stream'[p][k].id] \notin {"idle", "write"}
      OBVIOUS
    <3>1. stream'[p][k] = stream[p][k + 1] /\ k + 1 \in 1..Len(stream[p])
      BY <2>s
    <3>2. stream'[p][k].id \in Call /\ stream'[p][k].id # m.id
      BY <2>1, <2>8, <3>1
    <3>3. /\ p = From(stream'[p][k].id) /\ serve[stream'[p][k].id] = "none"
          /\ call[stream'[p][k].id] \notin {"idle", "write"}
      BY <2>1, <3>1
    <3> QED
      BY <2>2, <2>5, <3>2, <3>3
  <2> QED
    BY <2>3, <2>10, <2>11, <2>12, SMTT(20)
<1>8. ASSUME NEW e \in End, Deliver(e) PROVE RequestInv'
  <2> DEFINE p == Peer(e)
             m == Head(stream[p])
  <2>1. stream[p] \in Seq(Envelope) /\ stream[p] # <<>> /\ p \in End
    BY <1>8, <1>s DEF Deliver, Incoming
  <2>2. stream' = [stream EXCEPT ![p] = Tail(@)] /\ call' = call /\ m.kind # "request"
    BY <1>8, <1>s DEF Deliver, Incoming
  <2>3. /\ Len(stream'[p]) = Len(stream[p]) - 1 /\ Len(stream[p]) \in Nat /\ Len(stream[p]) >= 1
        /\ \A k \in 1..Len(stream'[p]) : stream'[p][k] = stream[p][k + 1] /\ k + 1 \in 1..Len(stream[p])
        /\ m = stream[p][1] /\ m \in Envelope
        /\ \A g \in End : g # p => stream'[g] = stream[g]
    BY <1>s, <2>1, <2>2, Popping
  <2>4. m.id \in Call /\ 1 \in 1..Len(stream[p]) /\ m.kind \in {"request", "ok", "refused"}
    BY <2>3 DEF Envelope
  <2> HIDE DEF m
  <2>s. \A k \in 1..Len(stream'[p]) :
          stream'[p][k] = stream[p][k + 1] /\ k + 1 \in 1..Len(stream[p]) /\ k + 1 # 1 /\ k \in Int
    BY <2>3
  <2>5. serve' = serve
    BY <1>8 DEF Deliver
  <2>6. \A k \in 1..Len(stream'[p]) : stream'[p][k].kind = "request" =>
           /\ p = From(stream'[p][k].id) /\ serve'[stream'[p][k].id] = "none"
           /\ call'[stream'[p][k].id] \notin {"idle", "write"}
    BY <2>1, <2>2, <2>s, <2>5, SMTT(20)
  <2> QED
    BY <2>2, <2>3, <2>5, <2>6
<1>9. ASSUME NEW e \in End, Fail(e) PROVE RequestInv'
  <2>1. stream' = [stream EXCEPT ![Peer(e)] = <<>>] /\ call' = call /\ serve' = serve
    BY <1>9 DEF Fail
  <2>2. \A g \in End : \A k \in 1..Len(stream'[g]) : stream'[g] = stream[g]
    BY <1>s, <2>1
  <2> QED
    BY <2>1, <2>2
<1>10. CASE Install
  BY <1>10 DEF Install
<1>11. CASE Die
  BY <1>11 DEF Die
<1>12. CASE UNCHANGED vars
  BY <1>12 DEF vars
<1> QED
  BY <1>1, <1>2, <1>3, <1>4, <1>5, <1>6, <1>7, <1>8, <1>9, <1>10, <1>11, <1>12 DEF Next, Calling, Read

(* No request is on its way twice. *)
LEMMA UniqueStep == IInv /\ [Next]_vars => UniqueInv'
<1> SUFFICES ASSUME IInv, [Next]_vars PROVE UniqueInv'
  OBVIOUS
<1>s. stream \in [End -> Seq(Envelope)]
  BY DEF IInv, Streams
<1>t. /\ UniqueInv /\ RequestInv
      /\ call \in [Call -> {"idle", "write", "wait"} \cup Outcome]
  BY DEF IInv, Shape, Streams
<1> USE Flat, <1>t DEF UniqueInv
<1>1. ASSUME NEW c \in Call, Register(c) PROVE UniqueInv'
  BY <1>1 DEF Register
<1>2. ASSUME NEW c \in Call, Write(c) PROVE UniqueInv'
  <2> DEFINE f == From(c)
  <2>1. Request(c) \in Envelope /\ Request(c).kind = "request" /\ Request(c).id = c
    BY DEF Request, Envelope
  <2>2. stream[f] \in Seq(Envelope) /\ f \in End
    BY <1>s
  <2>3. stream' = [stream EXCEPT ![f] = Append(@, Request(c))] /\ serve' = serve /\ box' = box
        /\ call' = [call EXCEPT ![c] = "wait"] /\ call[c] = "write"
    BY <1>2 DEF Write
  <2>4. /\ Len(stream'[f]) = Len(stream[f]) + 1 /\ Len(stream[f]) \in Nat
        /\ \A k \in 1..Len(stream[f]) : stream'[f][k] = stream[f][k]
        /\ stream'[f][Len(stream[f]) + 1] = Request(c)
        /\ \A g \in End : g # f => stream'[g] = stream[g]
    BY <1>s, <2>1, <2>2, <2>3, Appending
  <2> SUFFICES ASSUME NEW g \in End, NEW k \in 1..Len(stream'[g]), NEW j \in 1..Len(stream'[g]),
                      stream'[g][k].kind = "request", stream'[g][j].kind = "request",
                      stream'[g][j].id = stream'[g][k].id
               PROVE  j = k
    OBVIOUS
  <2>5. \A i \in 1..Len(stream[f]) : stream[f][i].kind = "request" => stream[f][i].id # c
    BY <2>2, <2>3 DEF RequestInv
  <2>6. \A i \in 1..Len(stream'[f]) : i \in 1..Len(stream[f]) \/ i = Len(stream[f]) + 1
    BY <2>4
  <2>7. CASE g = f
    <3>1. ASSUME NEW i \in 1..Len(stream'[f]), stream'[f][i].kind = "request"
          PROVE  \/ i = Len(stream[f]) + 1 /\ stream'[f][i].id = c
                 \/ i \in 1..Len(stream[f]) /\ stream'[f][i] = stream[f][i] /\ stream[f][i].id # c
      BY <2>1, <2>4, <2>5, <2>6, <3>1
    <3> QED
      BY <2>2, <2>7, <3>1
  <2>8. CASE g # f
    BY <2>4, <2>8
  <2> QED
    BY <2>7, <2>8
<1>3. ASSUME NEW c \in Call, WriteFails(c) PROVE UniqueInv'
  BY <1>3 DEF WriteFails
<1>4. ASSUME NEW c \in Call, Receive(c) PROVE UniqueInv'
  BY <1>4 DEF Receive
<1>5. ASSUME NEW c \in Call, TimeOut(c) PROVE UniqueInv'
  BY <1>5 DEF TimeOut
<1>6. ASSUME NEW c \in Call, Answer(c) PROVE UniqueInv'
  <2>1. CASE closed
    BY <1>6, <2>1 DEF Answer
  <2>2. CASE ~closed
    <3> DEFINE f == To(c)
               m == Response(c, IF serve[c] = "handling" THEN "ok" ELSE "refused")
    <3>1. m \in Envelope /\ m.kind \in {"ok", "refused"} /\ m.id = c
      BY DEF Response, Envelope
    <3>2. stream[f] \in Seq(Envelope) /\ f \in End
      BY <1>s
    <3>3. stream' = [stream EXCEPT ![f] = Append(@, m)] /\ call' = call /\ box' = box
          /\ serve' = [serve EXCEPT ![c] = "answered"] /\ serve[c] \in {"handling", "refusing"}
      BY <1>6, <2>2 DEF Answer
    <3> HIDE DEF m
    <3>4. /\ Len(stream'[f]) = Len(stream[f]) + 1 /\ Len(stream[f]) \in Nat
          /\ \A k \in 1..Len(stream[f]) : stream'[f][k] = stream[f][k]
          /\ stream'[f][Len(stream[f]) + 1] = m
          /\ \A g \in End : g # f => stream'[g] = stream[g]
      BY <1>s, <3>1, <3>2, <3>3, Appending
    <3>5. ASSUME NEW g \in End, NEW k \in 1..Len(stream'[g])
          PROVE  \/ k \in 1..Len(stream[g]) /\ stream'[g][k] = stream[g][k]
                 \/ stream'[g][k].kind # "request" /\ stream'[g][k].id = c
      <4>1. CASE g = f
        <5>1. k \in 1..Len(stream[f]) \/ k = Len(stream[f]) + 1
          BY <3>4, <4>1
        <5> QED
          BY <3>1, <3>4, <4>1, <5>1
      <4>2. CASE g # f
        BY <3>4, <4>2
      <4> QED
        BY <4>1, <4>2
    <3> SUFFICES ASSUME NEW g \in End, NEW k \in 1..Len(stream'[g]), NEW j \in 1..Len(stream'[g]),
                        stream'[g][k].kind = "request", stream'[g][j].kind = "request",
                        stream'[g][j].id = stream'[g][k].id
                 PROVE  j = k
      OBVIOUS
    <3> QED
      BY <3>5
  <2> QED
    BY <2>1, <2>2
<1>7. ASSUME NEW e \in End, ReadRequest(e) PROVE UniqueInv'
  <2> DEFINE p == Peer(e)
             m == Head(stream[p])
  <2>1. stream[p] \in Seq(Envelope) /\ stream[p] # <<>> /\ p \in End
    BY <1>7, <1>s DEF ReadRequest, Incoming
  <2>2. stream' = [stream EXCEPT ![p] = Tail(@)] /\ call' = call /\ m.kind = "request"
    BY <1>7, <1>s DEF ReadRequest, Incoming
  <2>3. /\ Len(stream'[p]) = Len(stream[p]) - 1 /\ Len(stream[p]) \in Nat /\ Len(stream[p]) >= 1
        /\ \A k \in 1..Len(stream'[p]) : stream'[p][k] = stream[p][k + 1] /\ k + 1 \in 1..Len(stream[p])
        /\ m = stream[p][1] /\ m \in Envelope
        /\ \A g \in End : g # p => stream'[g] = stream[g]
    BY <1>s, <2>1, <2>2, Popping
  <2>4. m.id \in Call /\ 1 \in 1..Len(stream[p]) /\ m.kind \in {"request", "ok", "refused"}
    BY <2>3 DEF Envelope
  <2> HIDE DEF m
  <2>s. \A k \in 1..Len(stream'[p]) :
          stream'[p][k] = stream[p][k + 1] /\ k + 1 \in 1..Len(stream[p]) /\ k + 1 # 1 /\ k \in Int
    BY <2>3
  <2> SUFFICES ASSUME NEW g \in End, NEW k \in 1..Len(stream'[g]), NEW j \in 1..Len(stream'[g]),
                      stream'[g][k].kind = "request", stream'[g][j].kind = "request",
                      stream'[g][j].id = stream'[g][k].id
               PROVE  j = k
    OBVIOUS
  <2>7. CASE g = p
    <3>1. /\ k + 1 \in 1..Len(stream[p]) /\ j + 1 \in 1..Len(stream[p])
          /\ stream[p][k + 1].kind = "request" /\ stream[p][j + 1].kind = "request"
          /\ stream[p][j + 1].id = stream[p][k + 1].id
      BY <2>s, <2>7
    <3>2. j + 1 = k + 1
      BY <2>1, <3>1
    <3> QED
      BY <2>s, <2>7, <3>2
  <2>8. CASE g # p
    BY <2>3, <2>8
  <2> QED
    BY <2>7, <2>8
<1>8. ASSUME NEW e \in End, Deliver(e) PROVE UniqueInv'
  <2> DEFINE p == Peer(e)
             m == Head(stream[p])
  <2>1. stream[p] \in Seq(Envelope) /\ stream[p] # <<>> /\ p \in End
    BY <1>8, <1>s DEF Deliver, Incoming
  <2>2. stream' = [stream EXCEPT ![p] = Tail(@)] /\ call' = call /\ m.kind # "request"
    BY <1>8, <1>s DEF Deliver, Incoming
  <2>3. /\ Len(stream'[p]) = Len(stream[p]) - 1 /\ Len(stream[p]) \in Nat /\ Len(stream[p]) >= 1
        /\ \A k \in 1..Len(stream'[p]) : stream'[p][k] = stream[p][k + 1] /\ k + 1 \in 1..Len(stream[p])
        /\ m = stream[p][1] /\ m \in Envelope
        /\ \A g \in End : g # p => stream'[g] = stream[g]
    BY <1>s, <2>1, <2>2, Popping
  <2>4. m.id \in Call /\ 1 \in 1..Len(stream[p]) /\ m.kind \in {"request", "ok", "refused"}
    BY <2>3 DEF Envelope
  <2> HIDE DEF m
  <2>s. \A k \in 1..Len(stream'[p]) :
          stream'[p][k] = stream[p][k + 1] /\ k + 1 \in 1..Len(stream[p]) /\ k + 1 # 1 /\ k \in Int
    BY <2>3
  <2> SUFFICES ASSUME NEW g \in End, NEW k \in 1..Len(stream'[g]), NEW j \in 1..Len(stream'[g]),
                      stream'[g][k].kind = "request", stream'[g][j].kind = "request",
                      stream'[g][j].id = stream'[g][k].id
               PROVE  j = k
    OBVIOUS
  <2>7. CASE g = p
    <3>1. /\ k + 1 \in 1..Len(stream[p]) /\ j + 1 \in 1..Len(stream[p])
          /\ stream[p][k + 1].kind = "request" /\ stream[p][j + 1].kind = "request"
          /\ stream[p][j + 1].id = stream[p][k + 1].id
      BY <2>s, <2>7
    <3>2. j + 1 = k + 1
      BY <2>1, <3>1
    <3> QED
      BY <2>s, <2>7, <3>2
  <2>8. CASE g # p
    BY <2>3, <2>8
  <2> QED
    BY <2>7, <2>8
<1>9. ASSUME NEW e \in End, Fail(e) PROVE UniqueInv'
  <2>1. stream' = [stream EXCEPT ![Peer(e)] = <<>>]
    BY <1>9 DEF Fail
  <2>2. \A g \in End : \A k \in 1..Len(stream'[g]) : stream'[g] = stream[g]
    BY <1>s, <2>1
  <2> QED
    BY <2>1, <2>2
<1>10. CASE Install
  BY <1>10 DEF Install
<1>11. CASE Die
  BY <1>11 DEF Die
<1>12. CASE UNCHANGED vars
  BY <1>12 DEF vars
<1> QED
  BY <1>1, <1>2, <1>3, <1>4, <1>5, <1>6, <1>7, <1>8, <1>9, <1>10, <1>11, <1>12 DEF Next, Calling, Read

(* Answers and who gave them. *)
LEMMA AnswerStep == IInv /\ [Next]_vars => AnswerInv'
<1> SUFFICES ASSUME IInv, [Next]_vars PROVE AnswerInv'
  OBVIOUS
<1>s. stream \in [End -> Seq(Envelope)]
  BY DEF IInv, Streams
<1>t. /\ call \in [Call -> {"idle", "write", "wait"} \cup Outcome]
      /\ serve \in [Call -> {"none", "handling", "refusing", "answered", "gone"}] /\ AnswerInv
      /\ box \in [Call -> {"empty", "ok", "refused", "closed"}]
  BY DEF IInv, Shape, Streams
<1>i. \A g \in End : \A k \in 1..Len(stream[g]) : stream[g][k] \in Envelope /\ stream[g][k].id \in Call
  BY OnTheWay DEF IInv
<1> USE Flat, <1>t, <1>i DEF AnswerInv, Outcome
<1>1. ASSUME NEW c \in Call, Register(c) PROVE AnswerInv'
  <2>1. call'[c] # "ok" /\ stream' = stream /\ serve' = serve /\ box' = box
    BY <1>1 DEF Register
  <2>2. \A d \in Call : d # c => call'[d] = call[d]
    BY <1>1 DEF Register
  <2> QED
    BY <2>1, <2>2
<1>2. ASSUME NEW c \in Call, Write(c) PROVE AnswerInv'
  <2> DEFINE f == From(c)
  <2>1. Request(c) \in Envelope /\ Request(c).kind = "request" /\ Request(c).id = c
    BY DEF Request, Envelope
  <2>2. stream[f] \in Seq(Envelope) /\ f \in End
    BY <1>s
  <2>3. stream' = [stream EXCEPT ![f] = Append(@, Request(c))] /\ serve' = serve /\ box' = box
        /\ call' = [call EXCEPT ![c] = "wait"] /\ call[c] = "write"
    BY <1>2 DEF Write
  <2>4. /\ Len(stream'[f]) = Len(stream[f]) + 1 /\ Len(stream[f]) \in Nat
        /\ \A k \in 1..Len(stream[f]) : stream'[f][k] = stream[f][k]
        /\ stream'[f][Len(stream[f]) + 1] = Request(c)
        /\ \A g \in End : g # f => stream'[g] = stream[g]
    BY <1>s, <2>1, <2>2, <2>3, Appending
  <2>6. \A k \in 1..Len(stream'[f]) : k \in 1..Len(stream[f]) \/ k = Len(stream[f]) + 1
    BY <2>4
  <2> QED
    BY <2>1, <2>2, <2>3, <2>4, <2>6
<1>3. ASSUME NEW c \in Call, WriteFails(c) PROVE AnswerInv'
  BY <1>3 DEF WriteFails
<1>4. ASSUME NEW c \in Call, Receive(c) PROVE AnswerInv'
  BY <1>4 DEF Receive
<1>5. ASSUME NEW c \in Call, TimeOut(c) PROVE AnswerInv'
  BY <1>5 DEF TimeOut
<1>6. ASSUME NEW c \in Call, Answer(c) PROVE AnswerInv'
  <2>1. CASE closed
    BY <1>6, <2>1 DEF Answer
  <2>2. CASE ~closed
    <3> DEFINE f == To(c)
               m == Response(c, IF serve[c] = "handling" THEN "ok" ELSE "refused")
    <3>1. m \in Envelope /\ m.kind \in {"ok", "refused"} /\ m.id = c
      BY DEF Response, Envelope
    <3>2. stream[f] \in Seq(Envelope) /\ f \in End
      BY <1>s
    <3>3. stream' = [stream EXCEPT ![f] = Append(@, m)] /\ call' = call /\ box' = box
          /\ serve' = [serve EXCEPT ![c] = "answered"] /\ serve[c] \in {"handling", "refusing"}
      BY <1>6, <2>2 DEF Answer
    <3> HIDE DEF m
    <3>4. /\ Len(stream'[f]) = Len(stream[f]) + 1 /\ Len(stream[f]) \in Nat
          /\ \A k \in 1..Len(stream[f]) : stream'[f][k] = stream[f][k]
          /\ stream'[f][Len(stream[f]) + 1] = m
          /\ \A g \in End : g # f => stream'[g] = stream[g]
      BY <1>s, <3>1, <3>2, <3>3, Appending
    <3>5. ASSUME NEW g \in End, NEW k \in 1..Len(stream'[g])
          PROVE  \/ k \in 1..Len(stream[g]) /\ stream'[g][k] = stream[g][k]
                 \/ stream'[g][k].kind # "request" /\ stream'[g][k].id = c
      <4>1. CASE g = f
        <5>1. k \in 1..Len(stream[f]) \/ k = Len(stream[f]) + 1
          BY <3>4, <4>1
        <5> QED
          BY <3>1, <3>4, <4>1, <5>1
      <4>2. CASE g # f
        BY <3>4, <4>2
      <4> QED
        BY <4>1, <4>2
    <3>6. /\ m.kind = "ok" => serve'[c] = "answered"
          /\ \A d \in Call : serve[d] = "answered" => serve'[d] = "answered"
          /\ serve'[c] = "answered"
      BY <3>3
    <3> QED
      BY <3>3, <3>5, <3>6
  <2> QED
    BY <2>1, <2>2
<1>7. ASSUME NEW e \in End, ReadRequest(e) PROVE AnswerInv'
  <2> DEFINE p == Peer(e)
             m == Head(stream[p])
  <2>1. stream[p] \in Seq(Envelope) /\ stream[p] # <<>> /\ p \in End
    BY <1>7, <1>s DEF ReadRequest, Incoming
  <2>2. stream' = [stream EXCEPT ![p] = Tail(@)] /\ call' = call /\ m.kind = "request"
    BY <1>7, <1>s DEF ReadRequest, Incoming
  <2>3. /\ Len(stream'[p]) = Len(stream[p]) - 1 /\ Len(stream[p]) \in Nat /\ Len(stream[p]) >= 1
        /\ \A k \in 1..Len(stream'[p]) : stream'[p][k] = stream[p][k + 1] /\ k + 1 \in 1..Len(stream[p])
        /\ m = stream[p][1] /\ m \in Envelope
        /\ \A g \in End : g # p => stream'[g] = stream[g]
    BY <1>s, <2>1, <2>2, Popping
  <2>4. m.id \in Call /\ 1 \in 1..Len(stream[p]) /\ m.kind \in {"request", "ok", "refused"}
    BY <2>3 DEF Envelope
  <2> HIDE DEF m
  <2>s. \A k \in 1..Len(stream'[p]) :
          stream'[p][k] = stream[p][k + 1] /\ k + 1 \in 1..Len(stream[p]) /\ k + 1 # 1 /\ k \in Int
    BY <2>3
  <2>5. \A d \in Call : d # m.id => serve'[d] = serve[d]
    BY <1>7 DEF ReadRequest, Incoming, m
  <2>6. serve[m.id] = "none" /\ box' = box
    BY <1>7, <2>2, <2>3, <2>4 DEF IInv, RequestInv, ReadRequest
  <2>7. \A d \in Call : serve[d] = "answered" => serve'[d] = "answered"
    BY <2>5, <2>6
  <2> QED
    BY <2>2, <2>3, <2>6, <2>7
<1>8. ASSUME NEW e \in End, Deliver(e) PROVE AnswerInv'
  <2> DEFINE p == Peer(e)
             m == Head(stream[p])
  <2>1. stream[p] \in Seq(Envelope) /\ stream[p] # <<>> /\ p \in End
    BY <1>8, <1>s DEF Deliver, Incoming
  <2>2. stream' = [stream EXCEPT ![p] = Tail(@)] /\ call' = call /\ m.kind # "request"
    BY <1>8, <1>s DEF Deliver, Incoming
  <2>3. /\ Len(stream'[p]) = Len(stream[p]) - 1 /\ Len(stream[p]) \in Nat /\ Len(stream[p]) >= 1
        /\ \A k \in 1..Len(stream'[p]) : stream'[p][k] = stream[p][k + 1] /\ k + 1 \in 1..Len(stream[p])
        /\ m = stream[p][1] /\ m \in Envelope
        /\ \A g \in End : g # p => stream'[g] = stream[g]
    BY <1>s, <2>1, <2>2, Popping
  <2>4. m.id \in Call /\ 1 \in 1..Len(stream[p]) /\ m.kind \in {"request", "ok", "refused"}
    BY <2>3 DEF Envelope
  <2> HIDE DEF m
  <2>s. \A k \in 1..Len(stream'[p]) :
          stream'[p][k] = stream[p][k + 1] /\ k + 1 \in 1..Len(stream[p]) /\ k + 1 # 1 /\ k \in Int
    BY <2>3
  <2>5. serve' = serve
    BY <1>8 DEF Deliver
  <2>6. \A d \in Call : box'[d] = "ok" => box[d] = "ok" \/ (d = m.id /\ m.kind = "ok")
    <3>1. CASE m.id \in pending[e]
      BY <1>8, <3>1, <2>4 DEF Deliver, Incoming, m
    <3>2. CASE m.id \notin pending[e]
      BY <1>8, <3>2 DEF Deliver, Incoming, m
    <3> QED
      BY <3>1, <3>2
  <2>7. m.kind = "ok" => serve[m.id] = "answered"
    BY <2>1, <2>3, <2>4
  <2> QED
    BY <2>2, <2>3, <2>5, <2>6, <2>7
<1>9. ASSUME NEW e \in End, Fail(e) PROVE AnswerInv'
  <2>1. stream' = [stream EXCEPT ![Peer(e)] = <<>>] /\ call' = call /\ serve' = serve
        /\ \A d \in Call : box'[d] = "ok" => box[d] = "ok"
    BY <1>9 DEF Fail
  <2>2. \A g \in End : \A k \in 1..Len(stream'[g]) : stream'[g] = stream[g]
    BY <1>s, <2>1
  <2> QED
    BY <2>1, <2>2
<1>10. CASE Install
  BY <1>10 DEF Install
<1>11. CASE Die
  BY <1>11 DEF Die
<1>12. CASE UNCHANGED vars
  BY <1>12 DEF vars
<1> QED
  BY <1>1, <1>2, <1>3, <1>4, <1>5, <1>6, <1>7, <1>8, <1>9, <1>10, <1>11, <1>12 DEF Next, Calling, Read

LEMMA Inductive == Spec => []IInv
<1>1. IInv /\ [Next]_vars => IInv'
  BY ShapeStep, StreamStep, TableStep, RequestStep, UniqueStep, AnswerStep DEF IInv
<1> QED
  BY <1>1, Initially, PTL DEF Spec

-----------------------------------------------------------------------------
(* Every variable keeps its type and no stream grows beyond its buffer. *)
THEOREM TypeCorrect == Spec => []TypeOK
<1>1. IInv => TypeOK
  BY DEF IInv, Shape, Streams, TypeOK
<1> QED
  BY <1>1, Inductive, PTL

(* A caller that reports success was served: answers are never swapped between callers. *)
THEOREM AnswersMatch == Spec => []OwnAnswer
<1>1. IInv => OwnAnswer
  BY DEF IInv, AnswerInv, OwnAnswer
<1> QED
  BY <1>1, Inductive, PTL

(* The reader of either end never meets a full response channel. *)
THEOREM ReaderIsFree == Spec => []ReaderNeverBlocks
<1>1. IInv => ReaderNeverBlocks
  BY DEF IInv, TableInv, ReaderNeverBlocks
<1> QED
  BY <1>1, Inductive, PTL

(* A failed wire leaves no caller waiting. *)
THEOREM FailureReleases == Spec => []ReleasedOnFailure
<1>1. IInv => ReleasedOnFailure
  BY Ends DEF IInv, TableInv, ReleasedOnFailure
<1> QED
  BY <1>1, Inductive, PTL

(* The table holds callers that are still there, and only those. *)
THEOREM TableIsClean == Spec => []NoStaleWaiter
<1>1. IInv => NoStaleWaiter
  BY DEF IInv, TableInv, NoStaleWaiter
<1> QED
  BY <1>1, Inductive, PTL

(* Answers, waiters and response channels agree at every step. *)
THEOREM TableSound == Spec => []TableIsSound
BY AnswersMatch, ReaderIsFree, FailureReleases, TableIsClean, PTL DEF TableIsSound

=============================================================================
