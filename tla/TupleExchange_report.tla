------------------------ MODULE TupleExchange_report ------------------------
(***************************************************************************)
(* Proofs about the sender's side, for every value of the constants: a     *)
(* worker never sends again a tuple it holds an acknowledgement for        *)
(* (NoSendAfterAck), and a stage-1 task that has its worker to itself is   *)
(* reported only when each tuple it sent is acknowledged or was sent as    *)
(* often as the code allows (ReportedIsSettled).  The argument: what is    *)
(* in UnackedTuples is not acknowledged, is there once and was numbered    *)
(* before; a tuple leaves the list only acknowledged or after its last     *)
(* retry; and the count of its retries is behind the streams opened.       *)
(***************************************************************************)
EXTENDS TupleExchange_proofs

-----------------------------------------------------------------------------
(***************************************************************************)
(* The bookkeeping of a sender: what is in UnackedTuples is not            *)
(* acknowledged, is there once, and was numbered by the execution that is  *)
(* at the worker.                                                          *)
(***************************************************************************)
\* Tuple id waits in UnackedTuples of worker w.
Listed(w, id) == \E i \in 1 .. Len(ws[w].unacked) : ws[w].unacked[i].id = id
\* No execution of task s at w has come to its n-th tuple.
Ahead(w, s, n) == run[s].at = w => n >= run[s].seq

ListInv(w) ==
  /\ \A i \in 1 .. Len(ws[w].unacked) : ws[w].ackMap[ws[w].unacked[i].id] # "acked"
  /\ \A i, j \in 1 .. Len(ws[w].unacked) : ws[w].unacked[i].id = ws[w].unacked[j].id => i = j
AheadInv(w) ==
  \A s \in Stage1, n \in LineNo :
    Ahead(w, s, n) => ws[w].ackMap[<<s, n>>] # "acked" /\ ~Listed(w, <<s, n>>)

SendInv ==
  /\ \A w \in Workers : up[w] => ListInv(w) /\ AheadInv(w)
  /\ \A t \in Tasks : run[t].pc = "failed" => ~up[run[t].at]

LEMMA InitSend == Init => SendInv
<1>. SUFFICES ASSUME Init PROVE SendInv
  OBVIOUS
<1>1. \A w \in Workers : ws[w].unacked = <<>> /\ \A id \in Ids : ws[w].ackMap[id] = "absent"
  BY DEF Init, InitWorker
<1>2. \A w \in Workers : ~ \E i \in 1 .. Len(ws[w].unacked) : TRUE
  BY <1>1
<1>3. \A t \in Tasks : run[t].pc = "assigned"
  BY DEF Init, Goroutine
<1>. QED  BY <1>1, <1>2, <1>3 DEF SendInv, ListInv, AheadInv, Listed, Ids

\* A step that leaves the lists alone or empties them, acknowledges nothing, and starts
\* no execution over.
LEMMA SendKept ==
  ASSUME SendInv, Ind, Ind',
         \A w \in Workers : up'[w] => /\ up[w]
                                      /\ ws'[w].unacked \in {ws[w].unacked, <<>>}
                                      /\ \A id \in Ids : ws'[w].ackMap[id] = "acked" =>
                                                           ws[w].ackMap[id] = "acked",
         \A w \in Workers, s \in Stage1 : up'[w] /\ run'[s].at # w => run[s].at # w,
         \A s \in Stage1 : run'[s].at = run[s].at /\ up'[run[s].at] => run'[s].seq >= run[s].seq,
         \A t \in Tasks : run'[t].pc = "failed" => ~up'[run'[t].at]
  PROVE  SendInv'
<1>1. ASSUME NEW w \in Workers, up'[w] PROVE ListInv(w)' /\ AheadInv(w)'
  <2>1. ListInv(w) /\ AheadInv(w)
    BY <1>1 DEF SendInv
  <2>2. ws[w].unacked \in Seq(TupleRec) /\ ws'[w].unacked \in {ws[w].unacked, <<>>}
    BY <1>1, Typed DEF Ind
  <2>3. \A i \in 1 .. Len(ws[w].unacked) : ws[w].unacked[i].id \in Ids
    <3>1. \A i \in 1 .. Len(ws[w].unacked) : ws[w].unacked[i] \in TupleRec
      BY <2>2
    <3>. QED  BY <3>1 DEF TupleRec
  <2>4. \A i \in 1 .. Len(ws'[w].unacked) :
          i \in 1 .. Len(ws[w].unacked) /\ ws'[w].unacked[i] = ws[w].unacked[i]
    BY <2>2
  <2>5. ListInv(w)'
    <3>1. \A x \in Ids : ws'[w].ackMap[x] = "acked" => ws[w].ackMap[x] = "acked"
      BY <1>1
    <3>2. \A i \in 1 .. Len(ws'[w].unacked) : ws'[w].ackMap[ws'[w].unacked[i].id] # "acked"
      <4>1. SUFFICES ASSUME NEW i \in 1 .. Len(ws'[w].unacked)
                     PROVE  ws'[w].ackMap[ws'[w].unacked[i].id] # "acked"
        OBVIOUS
      <4>. DEFINE d == ws[w].unacked[i].id
      <4>2. i \in 1 .. Len(ws[w].unacked) /\ ws'[w].unacked[i] = ws[w].unacked[i]
        BY <2>4
      <4>3. d \in Ids /\ ws[w].ackMap[d] # "acked"
        BY <2>1, <2>3, <4>2 DEF ListInv
      <4>. HIDE DEF d
      <4>4. ws'[w].ackMap[d] # "acked"
        BY <3>1, <4>3
      <4>. QED  BY <4>2, <4>4 DEF d
    <3>3. ASSUME NEW i \in 1 .. Len(ws'[w].unacked), NEW j \in 1 .. Len(ws'[w].unacked),
                 ws'[w].unacked[i].id = ws'[w].unacked[j].id
          PROVE  i = j
      <4>1. /\ i \in 1 .. Len(ws[w].unacked) /\ ws'[w].unacked[i] = ws[w].unacked[i]
            /\ j \in 1 .. Len(ws[w].unacked) /\ ws'[w].unacked[j] = ws[w].unacked[j]
        BY <2>4
      <4>2. ws[w].unacked[i].id = ws[w].unacked[j].id
        BY <3>3, <4>1
      <4>. QED  BY <2>1, <4>1, <4>2 DEF ListInv
    <3>. QED  BY <3>2, <3>3 DEF ListInv
  <2>6. ASSUME NEW s \in Stage1, NEW n \in LineNo, Ahead(w, s, n)' PROVE Ahead(w, s, n)
    <3>1. run[s].seq \in Nat /\ run'[s].seq \in Nat /\ n \in Nat
      <4>1. s \in Tasks
        BY DEF Tasks
      <4>2. run[s].seq \in 0 .. Lines /\ run'[s].seq \in 0 .. Lines
        BY <4>1 DEF Ind, TypeOK, RunRec
      <4>. QED  BY <4>2, BoundsAssumption DEF LineNo
    <3>2. SUFFICES ASSUME run[s].at = w PROVE n >= run[s].seq
      BY DEF Ahead
    <3>3. run'[s].at = w
      BY <1>1, <3>2
    <3>4. n >= run'[s].seq /\ run'[s].seq >= run[s].seq
      BY <1>1, <2>6, <3>2, <3>3 DEF Ahead
    <3>. QED  BY <3>1, <3>4
  <2>7. AheadInv(w)'
    <3>1. SUFFICES ASSUME NEW s \in Stage1, NEW n \in LineNo, Ahead(w, s, n)'
                   PROVE  ws'[w].ackMap[<<s, n>>] # "acked" /\ ~Listed(w, <<s, n>>)'
      BY DEF AheadInv
    <3>2. Ahead(w, s, n) /\ <<s, n>> \in Ids
      BY <2>6, <3>1 DEF Ids
    <3>3. ws[w].ackMap[<<s, n>>] # "acked" /\ ~Listed(w, <<s, n>>)
      BY <2>1, <3>2 DEF AheadInv
    <3>. QED  BY <1>1, <2>4, <3>2, <3>3 DEF Listed
  <2>. QED  BY <2>5, <2>7
<1>. QED  BY <1>1 DEF SendInv

\* A step that changes one other field of a worker leaves the sender's fields alone.
LEMMA ListsKept ==
  ASSUME TypeOK, NEW w \in Workers, NEW x,
         \/ ws' = ws
         \/ ws' = [ws EXCEPT ![w].mu = x]
         \/ ws' = [ws EXCEPT ![w].queue = x]
         \/ ws' = [ws EXCEPT ![w].parts = x]
         \/ ws' = [ws EXCEPT ![w].preparing = x]
         \/ ws' = [ws EXCEPT ![w].outputMap = x]
  PROVE  \A v \in Workers : /\ ws'[v].ackMap = ws[v].ackMap
                            /\ ws'[v].unacked = ws[v].unacked
                            /\ ws'[v].retries = ws[v].retries
<1>. DEFINE me == ws[w]
            Same(r) == r.ackMap = me.ackMap /\ r.unacked = me.unacked /\ r.retries = me.retries
<1>1. /\ Same([me EXCEPT !.mu = x]) /\ Same([me EXCEPT !.queue = x])
      /\ Same([me EXCEPT !.parts = x]) /\ Same([me EXCEPT !.preparing = x])
      /\ Same([me EXCEPT !.outputMap = x])
  BY Typed DEF WorkerRec
<1>. HIDE DEF Same
<1>2. \/ ws' = ws
      \/ \E r : ws' = [ws EXCEPT ![w] = r] /\ Same(r)
  BY <1>1
<1>. QED  BY <1>2, Typed DEF Same

\* The steps of a handler.
LEMMA HandlerLists ==
  ASSUME Ind, NEW c \in Calls, Handler(c)
  PROVE  /\ UNCHANGED <<up, run, completed>>
         /\ \A v \in Workers : /\ ws'[v].ackMap = ws[v].ackMap
                               /\ ws'[v].unacked = ws[v].unacked
                               /\ ws'[v].retries = ws[v].retries
<1>1. TypeOK /\ call[c].to \in Workers
  BY Typed DEF Ind
<1>. DEFINE w == call[c].to
<1>2. \/ ws' = ws
      \/ \E x : ws' = [ws EXCEPT ![w].mu = x]
      \/ \E x : ws' = [ws EXCEPT ![w].outputMap = x]
  <2>1. CASE Op2(c)
    BY <2>1 DEF Op2
  <2>2. CASE ~ Op2(c)
    BY <2>2 DEF Handler, Accept, OpenError, Duplicate, NoReceiverTask, Take, Op2Error, WriteOutput,
               WriteError, LogAndAck, LogError, Unlock, workerVars
  <2>. QED  BY <2>1, <2>2
<1>3. UNCHANGED <<up, run, completed>>
  BY DEF Handler, Accept, OpenError, Duplicate, NoReceiverTask, Take, Op2, Op2Error, WriteOutput,
         WriteError, LogAndAck, LogError, workerVars, leaderVars
<1>. HIDE DEF w
<1>. QED  BY <1>1, <1>2, <1>3, ListsKept DEF w

\* A stage-1 task comes to its next tuple: it is listed unless it was acknowledged.
LEMMA ScanReturnSend ==
  ASSUME Ind, Ind', SendInv, NEW t \in Stage1, NEW ack \in BOOLEAN, ScanReturn(t, ack)
  PROVE  SendInv'
<1>0. PICK w : w = run[t].at
  OBVIOUS
<1>. DEFINE me == ws[w]
            id == <<t, run[t].seq>>
            new == [id |-> id, line |-> run[t].line]
<1>1. /\ t \in Tasks /\ w \in Workers /\ up[w] /\ up' = up /\ run[t].seq \in LineNo /\ id \in Ids
      /\ me.unacked \in Seq(TupleRec) /\ me.ackMap \in [Ids -> {"absent", "acked", "unacked"}]
      /\ run[t].pc = "sending" /\ run[t].seq \in Nat
  <2>1. t \in Tasks
    BY DEF Tasks
  <2>2. run[t].pc = "sending" /\ up[w] /\ up' = up
    BY <1>0 DEF ScanReturn, At
  <2>3. run[t].seq <= run[t].line /\ run[t].line < Lines /\ run[t].seq \in 0 .. Lines /\ run[t].line \in 0 .. Lines
    BY <2>1, <2>2, Typed DEF Ind, ScanInv
  <2>4. run[t].seq \in LineNo /\ run[t].seq \in Nat /\ id \in Ids
    BY <2>3, BoundsAssumption DEF LineNo, Ids
  <2>5. w \in Workers
    BY <1>0, <2>1, Typed DEF Ind
  <2>. QED  BY <2>1, <2>2, <2>4, <2>5, Typed DEF Ind
<1>2. /\ \A v \in Workers : v # w => ws'[v] = ws[v]
      /\ ws'[w].ackMap = [me.ackMap EXCEPT ![id] = IF ack THEN "acked" ELSE "unacked"]
      /\ ws'[w].unacked = IF ack THEN me.unacked ELSE Append(me.unacked, new)
  BY <1>0, <1>1, Typed DEF Ind, ScanReturn, WorkerRec
<1>3. /\ \A s \in Tasks : s # t => run'[s] = run[s]
      /\ run'[t].at = w /\ run'[t].pc = "scan" /\ run'[t].seq = run[t].seq + 1
  BY <1>0, <1>1, Typed DEF Ind, ScanReturn, RunRec
<1>4. ListInv(w) /\ AheadInv(w)
  BY <1>1 DEF SendInv
<1>5. Ahead(w, t, run[t].seq)
  BY <1>0, <1>1 DEF Ahead
<1>6. ~Listed(w, id)
  BY <1>1, <1>4, <1>5 DEF AheadInv
<1>. HIDE DEF id, me, new
<1>7. new.id = id
  BY DEF new
<1>8. \A i \in 1 .. Len(me.unacked) : me.unacked[i].id \in Ids /\ me.unacked[i].id # id
  <2>1. \A i \in 1 .. Len(me.unacked) : me.unacked[i] \in TupleRec
    BY <1>1
  <2>. QED  BY <1>6, <2>1 DEF Listed, TupleRec, me
<1>9. ListInv(w)'
  <2>1. CASE ack
    <3>1. \A x \in Ids : x # id => ws'[w].ackMap[x] = me.ackMap[x]
      BY <1>1, <1>2
    <3>2. ws'[w].unacked = me.unacked
      BY <1>2, <2>1
    <3>. QED  BY <1>4, <1>8, <3>1, <3>2 DEF ListInv, me
  <2>2. CASE ~ack
    <3>1. \A x \in Ids : ws'[w].ackMap[x] = "acked" => me.ackMap[x] = "acked" /\ x # id
      BY <1>1, <1>2, <2>2
    <3>2. /\ Len(ws'[w].unacked) = Len(me.unacked) + 1 /\ Len(me.unacked) \in Nat
          /\ ws'[w].unacked[Len(me.unacked) + 1] = new
          /\ \A i \in 1 .. Len(me.unacked) : ws'[w].unacked[i] = me.unacked[i]
      BY <1>1, <1>2, <2>2, AppendProperties
    <3>3. \A i \in 1 .. Len(ws'[w].unacked) :
            \/ i \in 1 .. Len(me.unacked) /\ ws'[w].unacked[i] = me.unacked[i]
            \/ i = Len(me.unacked) + 1 /\ ws'[w].unacked[i].id = id
      BY <1>7, <3>2
    <3>4. \A i \in 1 .. Len(ws'[w].unacked) : ws'[w].ackMap[ws'[w].unacked[i].id] # "acked"
      <4>1. \A i \in 1 .. Len(me.unacked) : me.ackMap[me.unacked[i].id] # "acked"
        BY <1>4 DEF ListInv, me
      <4>. QED  BY <1>1, <1>8, <3>1, <3>3, <4>1
    <3>5. \A i, j \in 1 .. Len(ws'[w].unacked) : ws'[w].unacked[i].id = ws'[w].unacked[j].id => i = j
      <4>1. \A i, j \in 1 .. Len(me.unacked) : me.unacked[i].id = me.unacked[j].id => i = j
        BY <1>4 DEF ListInv, me
      <4>. QED  BY <1>8, <3>3, <4>1
    <3>. QED  BY <3>4, <3>5 DEF ListInv
  <2>. QED  BY <2>1, <2>2
<1>10. AheadInv(w)'
  <2>1. SUFFICES ASSUME NEW s \in Stage1, NEW n \in LineNo, Ahead(w, s, n)'
                 PROVE  ws'[w].ackMap[<<s, n>>] # "acked" /\ ~Listed(w, <<s, n>>)'
    BY DEF AheadInv
  <2>2. Ahead(w, s, n) /\ <<s, n>> # id /\ <<s, n>> \in Ids
    <3>1. CASE s = t
      <4>1. n >= run[t].seq + 1 /\ n \in Nat
        BY <1>3, <2>1, <3>1, BoundsAssumption DEF Ahead, LineNo
      <4>2. Ahead(w, s, n) /\ n # run[t].seq
        BY <1>1, <3>1, <4>1 DEF Ahead
      <4>. QED  BY <4>2 DEF id, Ids
    <3>2. CASE s # t
      <4>1. s \in Tasks
        BY DEF Tasks
      <4>. QED  BY <1>3, <2>1, <3>2, <4>1 DEF Ahead, id, Ids
    <3>. QED  BY <3>1, <3>2
  <2>3. ws[w].ackMap[<<s, n>>] # "acked" /\ ~Listed(w, <<s, n>>)
    BY <1>4, <2>2 DEF AheadInv
  <2>4. ws'[w].ackMap[<<s, n>>] # "acked"
    BY <1>1, <1>2, <2>2, <2>3 DEF me
  <2>5. \A i \in 1 .. Len(ws'[w].unacked) : ws'[w].unacked[i].id # <<s, n>>
    <3>1. SUFFICES ASSUME NEW i \in 1 .. Len(ws'[w].unacked) PROVE ws'[w].unacked[i].id # <<s, n>>
      OBVIOUS
    <3>2. \/ i \in 1 .. Len(me.unacked) /\ ws'[w].unacked[i] = me.unacked[i]
          \/ ws'[w].unacked[i].id = id
      BY <1>1, <1>2, <1>7, AppendProperties
    <3>. QED  BY <2>2, <2>3, <3>2 DEF Listed, me
  <2>. QED  BY <2>4, <2>5 DEF Listed
<1>11. ASSUME NEW v \in Workers, v # w, up'[v] PROVE ListInv(v)' /\ AheadInv(v)'
  <2>1. ListInv(v) /\ AheadInv(v) /\ ws'[v] = ws[v]
    BY <1>1, <1>2, <1>11 DEF SendInv
  <2>2. \A s \in Stage1, n \in LineNo : Ahead(v, s, n)' => Ahead(v, s, n)
    <3>1. \A s \in Stage1 : s \in Tasks
      BY DEF Tasks
    <3>2. \A s \in Stage1 : run'[s].at = run[s].at /\ (s # t => run'[s].seq = run[s].seq) /\ run[t].at # v
      BY <1>0, <1>3, <1>11, <3>1
    <3>. QED  BY <3>2 DEF Ahead
  <2>. QED  BY <2>1, <2>2 DEF ListInv, AheadInv, Listed
<1>12. \A x \in Tasks : run'[x].pc = "failed" => ~up'[run'[x].at]
  BY <1>0, <1>1, <1>3 DEF SendInv
<1>. QED  BY <1>9, <1>10, <1>11, <1>12 DEF SendInv

\* What is left when the i-th entry of a list is dropped.
LEMMA RemoveAtIs ==
  ASSUME NEW S, NEW q \in Seq(S), NEW i \in 1 .. Len(q)
  PROVE  /\ Len(RemoveAt(q, i)) = Len(q) - 1
         /\ \A j \in 1 .. Len(q) - 1 : RemoveAt(q, i)[j] = IF j < i THEN q[j] ELSE q[j + 1]
<1>. DEFINE a == SubSeq(q, 1, i - 1)
            b == SubSeq(q, i + 1, Len(q))
<1>1. a \in Seq(S) /\ b \in Seq(S)
  BY SubSeqProperties
<1>2. Len(a) = i - 1 /\ Len(b) = Len(q) - i /\ Len(q) \in Nat
  BY SubSeqProperties
<1>3. (\A j \in 1 .. i - 1 : a[j] = q[j]) /\ \A j \in 1 .. Len(q) - i : b[j] = q[i + j]
  BY SubSeqProperties
<1>4. RemoveAt(q, i) = a \o b
  BY DEF RemoveAt
<1>. HIDE DEF a, b
<1>5. /\ Len(a \o b) = Len(q) - 1
      /\ \A j \in 1 .. Len(q) - 1 : (a \o b)[j] = IF j <= i - 1 THEN a[j] ELSE b[j - (i - 1)]
  BY <1>1, <1>2, ConcatProperties
<1>6. ASSUME NEW j \in 1 .. Len(q) - 1 PROVE (a \o b)[j] = IF j < i THEN q[j] ELSE q[j + 1]
  <2>1. CASE j < i
    BY <1>2, <1>3, <1>5, <2>1
  <2>2. CASE ~ (j < i)
    <3>1. j - (i - 1) \in 1 .. Len(q) - i /\ i + (j - (i - 1)) = j + 1 /\ ~ (j <= i - 1)
      BY <1>2, <2>2
    <3>. QED  BY <1>3, <1>5, <2>2, <3>1
  <2>. QED  BY <2>1, <2>2
<1>. QED  BY <1>4, <1>5, <1>6

\* A retry returns: the entry leaves the list or stays there unacknowledged.
LEMMA ResendReturnSend ==
  ASSUME Ind, Ind', SendInv, NEW t \in Stage1, NEW ack \in BOOLEAN, ResendReturn(t, ack)
  PROVE  SendInv'
<1>0. PICK w : w = run[t].at
  OBVIOUS
<1>. DEFINE me == ws[w]
            k == run[t].i
            id == me.unacked[k].id
            r == me.retries[id] + 1
<1>1. /\ t \in Tasks /\ w \in Workers /\ up[w] /\ up' = up /\ id \in Ids /\ k \in 1 .. Len(me.unacked)
      /\ me.unacked \in Seq(TupleRec) /\ me.ackMap \in [Ids -> {"absent", "acked", "unacked"}]
      /\ run[t].pc = "resending" /\ Current(t).id = id
  <2>1. t \in Tasks
    BY DEF Tasks
  <2>2. run[t].pc = "resending" /\ up[w] /\ up' = up
    BY <1>0 DEF ResendReturn, At
  <2>3. k <= Len(me.unacked)
    BY <1>0, <2>1, <2>2 DEF Ind, ScanInv
  <2>4. Current(t).id = id
    BY <1>0 DEF Current
  <2>. QED  BY <1>0, <2>1, <2>2, <2>3, <2>4, CurrentType, Typed DEF Ind
<1>2. /\ \A v \in Workers : v # w => ws'[v] = ws[v]
      /\ ws'[w].ackMap = [me.ackMap EXCEPT ![id] = IF ack THEN "acked" ELSE "unacked"]
      /\ ws'[w].unacked = IF Leaves(ack, r) THEN RemoveAt(me.unacked, k) ELSE me.unacked
  BY <1>0, <1>1, Typed DEF Ind, ResendReturn, WorkerRec
<1>3. /\ \A s \in Tasks : run'[s].at = run[s].at /\ run'[s].seq = run[s].seq
      /\ \A s \in Tasks : run'[s].pc = "failed" => run[s].pc = "failed"
  <2>1. run \in [Tasks -> RunRec] /\ run[t] \in RunRec
    BY <1>1, Typed DEF Ind
  <2>2. /\ \A s \in Tasks : s # t => run'[s] = run[s]
        /\ run'[t].at = run[t].at /\ run'[t].seq = run[t].seq /\ run'[t].pc = "resend"
    BY <1>1, <2>1 DEF ResendReturn, RunRec
  <2>. QED  BY <2>2
<1>4. ListInv(w) /\ AheadInv(w)
  BY <1>1 DEF SendInv
<1>. HIDE DEF id, me, k, r
<1>5. ack => Leaves(ack, r)
  BY DEF Leaves
<1>6. \A i \in 1 .. Len(me.unacked) : me.unacked[i].id \in Ids
  <2>1. \A i \in 1 .. Len(me.unacked) : me.unacked[i] \in TupleRec
    BY <1>1
  <2>. QED  BY <2>1 DEF TupleRec
\* Where the entries of the new list come from.
<1>7. \A i \in 1 .. Len(ws'[w].unacked) : \E j \in 1 .. Len(me.unacked) :
        /\ ws'[w].unacked[i] = me.unacked[j] /\ (Leaves(ack, r) => j # k)
        /\ j = IF Leaves(ack, r) /\ i >= k THEN i + 1 ELSE i
  <2>1. CASE Leaves(ack, r)
    <3>1. /\ Len(ws'[w].unacked) = Len(me.unacked) - 1
          /\ \A i \in 1 .. Len(me.unacked) - 1 :
               ws'[w].unacked[i] = IF i < k THEN me.unacked[i] ELSE me.unacked[i + 1]
      BY <1>1, <1>2, <2>1, RemoveAtIs
    <3>2. ASSUME NEW i \in 1 .. Len(ws'[w].unacked), i >= k
          PROVE  i + 1 \in 1 .. Len(me.unacked) /\ i + 1 # k /\ ws'[w].unacked[i] = me.unacked[i + 1]
      BY <1>1, <3>1, <3>2
    <3>3. ASSUME NEW i \in 1 .. Len(ws'[w].unacked), ~ (i >= k)
          PROVE  i \in 1 .. Len(me.unacked) /\ i # k /\ ws'[w].unacked[i] = me.unacked[i]
      BY <1>1, <3>1, <3>3
    <3>. QED  BY <2>1, <3>2, <3>3
  <2>2. CASE ~Leaves(ack, r)
    BY <1>2, <2>2
  <2>. QED  BY <2>1, <2>2
<1>8. \A x \in Ids : ws'[w].ackMap[x] = "acked" => me.ackMap[x] = "acked" \/ (ack /\ x = id)
  BY <1>1, <1>2
<1>9. \A i, j \in 1 .. Len(me.unacked) : me.unacked[i].id = me.unacked[j].id => i = j
  BY <1>4 DEF ListInv, me
<1>10. ListInv(w)'
  <2>1. ASSUME NEW i \in 1 .. Len(ws'[w].unacked) PROVE ws'[w].ackMap[ws'[w].unacked[i].id] # "acked"
    <3>1. PICK j \in 1 .. Len(me.unacked) : ws'[w].unacked[i] = me.unacked[j] /\ (Leaves(ack, r) => j # k)
      BY <1>7
    <3>2. me.ackMap[me.unacked[j].id] # "acked"
      BY <1>4 DEF ListInv, me
    <3>3. ack => me.unacked[j].id # id
      BY <1>1, <1>5, <1>9, <3>1 DEF id
    <3>. QED  BY <1>6, <1>8, <3>1, <3>2, <3>3
  <2>2. ASSUME NEW i \in 1 .. Len(ws'[w].unacked), NEW j \in 1 .. Len(ws'[w].unacked),
               ws'[w].unacked[i].id = ws'[w].unacked[j].id
        PROVE  i = j
    <3>1. PICK a \in 1 .. Len(me.unacked) :
            ws'[w].unacked[i] = me.unacked[a] /\ a = IF Leaves(ack, r) /\ i >= k THEN i + 1 ELSE i
      BY <1>7
    <3>2. PICK b \in 1 .. Len(me.unacked) :
            ws'[w].unacked[j] = me.unacked[b] /\ b = IF Leaves(ack, r) /\ j >= k THEN j + 1 ELSE j
      BY <1>7
    <3>3. a = b
      BY <1>9, <2>2, <3>1, <3>2
    <3>. QED  BY <1>1, <3>1, <3>2, <3>3
  <2>. QED  BY <2>1, <2>2 DEF ListInv
<1>11. Listed(w, id)
  BY <1>1 DEF Listed, id, me
<1>12. AheadInv(w)'
  <2>1. SUFFICES ASSUME NEW s \in Stage1, NEW n \in LineNo, Ahead(w, s, n)'
                 PROVE  ws'[w].ackMap[<<s, n>>] # "acked" /\ ~Listed(w, <<s, n>>)'
    BY DEF AheadInv
  <2>2. Ahead(w, s, n) /\ <<s, n>> \in Ids
    <3>1. s \in Tasks
      BY DEF Tasks
    <3>. QED  BY <1>3, <2>1, <3>1 DEF Ahead, Ids
  <2>3. ws[w].ackMap[<<s, n>>] # "acked" /\ ~Listed(w, <<s, n>>)
    BY <1>4, <2>2 DEF AheadInv
  <2>4. ws'[w].ackMap[<<s, n>>] # "acked"
    BY <1>8, <1>11, <2>2, <2>3 DEF me
  <2>5. \A i \in 1 .. Len(ws'[w].unacked) : ws'[w].unacked[i].id # <<s, n>>
    BY <1>7, <2>3 DEF Listed, me
  <2>. QED  BY <2>4, <2>5 DEF Listed
<1>13. ASSUME NEW v \in Workers, v # w, up'[v] PROVE ListInv(v)' /\ AheadInv(v)'
  <2>1. ListInv(v) /\ AheadInv(v) /\ ws'[v] = ws[v]
    BY <1>1, <1>2, <1>13 DEF SendInv
  <2>2. \A s \in Stage1, n \in LineNo : Ahead(v, s, n)' => Ahead(v, s, n)
    <3>1. \A s \in Stage1 : s \in Tasks
      BY DEF Tasks
    <3>. QED  BY <1>3, <3>1 DEF Ahead
  <2>. QED  BY <2>1, <2>2 DEF ListInv, AheadInv, Listed
<1>14. \A x \in Tasks : run'[x].pc = "failed" => ~up'[run'[x].at]
  BY <1>1, <1>3 DEF SendInv
<1>. QED  BY <1>10, <1>12, <1>13, <1>14 DEF SendInv

\* The steps of a sender.
LEMMA SenderSend == ASSUME Ind, Ind', SendInv, NEW t \in Stage1, Sender(t) PROVE SendInv'
<1>1. t \in Tasks /\ run[t].at \in Workers /\ run \in [Tasks -> RunRec] /\ run[t] \in RunRec
      /\ \A s \in Stage1 : s \in Tasks /\ run[s].seq \in Nat
  <2>1. \A s \in Stage1 : s \in Tasks
    BY DEF Tasks
  <2>2. \A s \in Tasks : run[s].seq \in 0 .. Lines
    BY Typed DEF Ind
  <2>. QED  BY <2>1, <2>2, Typed, BoundsAssumption DEF Ind
<1>2. TypeOK
  BY DEF Ind
\* Most steps leave the numbering and the lists alone.
<1>3. ASSUME UNCHANGED up,
             \A w \in Workers : /\ ws'[w].unacked \in {ws[w].unacked, <<>>}
                                /\ ws'[w].ackMap = ws[w].ackMap,
             \A s \in Tasks : /\ run'[s].at = run[s].at /\ run'[s].seq = run[s].seq
                              /\ run'[s].pc = "failed" => run[s].pc = "failed"
      PROVE  SendInv'
  <2>1. \A s \in Stage1 : run'[s].seq >= run[s].seq
    BY <1>1, <1>3
  <2>2. \A s \in Tasks : run'[s].pc = "failed" => ~up'[run'[s].at]
    BY <1>3 DEF SendInv
  <2>. QED  BY <1>1, <1>3, <2>1, <2>2, SendKept
<1>4. \A pc \in Pcs : pc # "failed" => \A s \in Tasks :
        /\ [run EXCEPT ![t].pc = pc][s].at = run[s].at /\ [run EXCEPT ![t].pc = pc][s].seq = run[s].seq
        /\ [run EXCEPT ![t].pc = pc][s].pc = "failed" => run[s].pc = "failed"
  BY <1>1 DEF RunRec
<1>5. ASSUME ws' = ws \/ (\E x : ws' = [ws EXCEPT ![run[t].at].mu = x])
                      \/ \E x : ws' = [ws EXCEPT ![run[t].at].queue = x]
      PROVE  \A w \in Workers : /\ ws'[w].unacked \in {ws[w].unacked, <<>>}
                                /\ ws'[w].ackMap = ws[w].ackMap
  BY <1>1, <1>2, <1>5, ListsKept
<1>6. ASSUME StartTask(t) PROVE SendInv'
  <2>1. \A w \in Workers : /\ ws'[w].unacked \in {ws[w].unacked, <<>>}
                           /\ ws'[w].ackMap = ws[w].ackMap
    BY <1>1, <1>6, Typed DEF StartTask, Ind, WorkerRec
  <2>2. PICK pc \in Pcs : pc # "failed" /\ run' = [run EXCEPT ![t].pc = pc]
    BY <1>6 DEF StartTask, Goto, Pcs
  <2>. QED  BY <1>3, <1>4, <1>6, <2>1, <2>2 DEF StartTask
<1>7. ASSUME SkipLine(t) PROVE SendInv'
  <2>1. \A s \in Tasks : /\ run'[s].at = run[s].at /\ run'[s].seq = run[s].seq
                         /\ run'[s].pc = "failed" => run[s].pc = "failed"
    BY <1>1, <1>7 DEF SkipLine, RunRec
  <2>. QED  BY <1>3, <1>5, <1>7, <2>1 DEF SkipLine, workerVars
<1>8. ASSUME ScanSend(t) \/ ResendSend(t) PROVE SendInv'
  <2>1. \E n, pc : pc # "failed" /\ run' = [run EXCEPT ![t].pc = pc, ![t].n = n]
    <3>1. CASE ScanSend(t)
      BY <3>1 DEF ScanSend
    <3>2. CASE ResendSend(t)
      BY <3>2 DEF ResendSend
    <3>. QED  BY <1>8, <3>1, <3>2
  <2>2. \A s \in Tasks : /\ run'[s].at = run[s].at /\ run'[s].seq = run[s].seq
                         /\ run'[s].pc = "failed" => run[s].pc = "failed"
    BY <1>1, <2>1 DEF RunRec
  <2>. QED  BY <1>3, <1>5, <1>8, <2>2 DEF ScanSend, ResendSend, workerVars
<1>9. ASSUME ScanDone(t) \/ Wake(t) PROVE SendInv'
  <2>1. \E pc \in Pcs : \E fin :
           /\ pc # "failed"
           /\ \/ run' = [run EXCEPT ![t].pc = pc]
              \/ run' = [run EXCEPT ![t].pc = pc, ![t].fin = fin]
    BY <1>9 DEF ScanDone, Wake, Pcs
  <2>2. \A s \in Tasks : /\ run'[s].at = run[s].at /\ run'[s].seq = run[s].seq
                         /\ run'[s].pc = "failed" => run[s].pc = "failed"
    BY <1>1, <2>1 DEF RunRec
  <2>. QED  BY <1>3, <1>5, <1>9, <2>2 DEF ScanDone, Wake, workerVars
<1>10. ASSUME LockForResend(t) PROVE SendInv'
  <2>1. \A s \in Tasks : /\ run'[s].at = run[s].at /\ run'[s].seq = run[s].seq
                         /\ run'[s].pc = "failed" => run[s].pc = "failed"
    BY <1>1, <1>10 DEF LockForResend, RunRec
  <2>. QED  BY <1>3, <1>5, <1>10, <2>1 DEF LockForResend
<1>11. ASSUME ResendEnd(t) \/ Finish(t) PROVE SendInv'
  <2>1. PICK pc \in Pcs : pc # "failed" /\ run' = [run EXCEPT ![t].pc = pc]
    BY <1>11 DEF ResendEnd, Finish, Goto, Pcs
  <2>. QED  BY <1>3, <1>4, <1>5, <1>11, <2>1 DEF ResendEnd, Finish
<1>. QED  BY <1>6, <1>7, <1>8, <1>9, <1>10, <1>11, ScanReturnSend, ResendReturnSend DEF Sender

\* The steps of a receiver task, of a handler, of the leader, and a crash.
LEMMA OtherSend ==
  ASSUME Ind, Ind', SendInv,
         \/ \E t \in Stage2 : Receiver(t)
         \/ \E c \in Calls : Handler(c)
         \/ \E w \in Workers : Crash(w)
         \/ Leader
  PROVE  SendInv'
<1>1. TypeOK /\ run \in [Tasks -> RunRec] /\ \A t \in Tasks : run[t] \in RunRec /\ run[t].at \in Workers
  BY Typed DEF Ind
<1>2. \A t \in Stage1 \cup Stage2 : t \in Tasks
  BY DEF Tasks
<1>3. \A s \in Stage1 : run[s].seq \in Nat
  <2>1. \A s \in Tasks : run[s].seq \in 0 .. Lines
    BY Typed DEF Ind
  <2>. QED  BY <1>2, <2>1, BoundsAssumption
<1>4. ASSUME UNCHANGED up,
             \A w \in Workers : /\ ws'[w].unacked \in {ws[w].unacked, <<>>}
                                /\ \A id \in Ids : ws'[w].ackMap[id] = "acked" => ws[w].ackMap[id] = "acked",
             \A s \in Tasks : /\ run'[s].at = run[s].at /\ run'[s].seq = run[s].seq
                              /\ run'[s].pc = "failed" => run[s].pc = "failed"
      PROVE  SendInv'
  <2>1. \A s \in Stage1 : run'[s].seq >= run[s].seq /\ run'[s].at = run[s].at
    BY <1>2, <1>3, <1>4
  <2>2. \A s \in Tasks : run'[s].pc = "failed" => ~up'[run'[s].at]
    BY <1>4 DEF SendInv
  <2>. QED  BY <1>4, <2>1, <2>2, SendKept
<1>5. ASSUME NEW t \in Tasks, NEW pc \in Pcs, pc # "failed", Goto(t, pc)
      PROVE  \A s \in Tasks : /\ run'[s].at = run[s].at /\ run'[s].seq = run[s].seq
                              /\ run'[s].pc = "failed" => run[s].pc = "failed"
  BY <1>1, <1>5 DEF Goto, RunRec
<1>6. ASSUME NEW t \in Stage2, StartTask(t) PROVE SendInv'
  <2>1. \A w \in Workers : /\ ws'[w].unacked \in {ws[w].unacked, <<>>}
                           /\ ws'[w].ackMap = ws[w].ackMap
    BY <1>1, <1>2, <1>6, Typed DEF StartTask, Ind, WorkerRec
  <2>2. PICK pc \in Pcs : pc # "failed" /\ Goto(t, pc)
    BY <1>6 DEF StartTask, Pcs
  <2>. QED  BY <1>2, <1>4, <1>5, <1>6, <2>1, <2>2 DEF StartTask
<1>7. ASSUME NEW t \in Stage2, PrepareBegin(t) PROVE SendInv'
  <2>1. /\ \A w \in Workers : w # run[t].at => ws'[w] = ws[w]
        /\ ws'[run[t].at].ackMap = [id \in Ids |-> "absent"]
        /\ ws'[run[t].at].unacked = ws[run[t].at].unacked
    BY <1>1, <1>2, <1>7, Typed DEF PrepareBegin, Ind, WorkerRec
  <2>2. Goto(t, "load") /\ "load" \in Pcs
    BY <1>7 DEF PrepareBegin, Pcs
  <2>3. UNCHANGED up
    BY <1>7 DEF PrepareBegin
  <2>4. \A w \in Workers : /\ ws'[w].unacked \in {ws[w].unacked, <<>>}
                           /\ \A id \in Ids : ws'[w].ackMap[id] = "acked" => ws[w].ackMap[id] = "acked"
    BY <2>1
  <2>. QED  BY <1>2, <1>4, <1>5, <2>2, <2>3, <2>4
<1>8. ASSUME NEW t \in Stage2, LoadOutput(t) \/ LoadAol(t) PROVE SendInv'
  <2>1. PICK x : \/ ws' = [ws EXCEPT ![run[t].at].outputMap = x]
                 \/ ws' = [ws EXCEPT ![run[t].at].preparing = x]
    BY <1>8 DEF LoadOutput, LoadAol
  <2>2. \A w \in Workers : ws'[w].unacked = ws[w].unacked /\ ws'[w].ackMap = ws[w].ackMap
    BY <1>1, <1>2, <2>1, ListsKept
  <2>3. PICK pc \in Pcs : pc # "failed" /\ Goto(t, pc)
    BY <1>8 DEF LoadOutput, LoadAol, Pcs
  <2>4. UNCHANGED up
    BY <1>8 DEF LoadOutput, LoadAol
  <2>. QED  BY <1>2, <1>4, <1>5, <2>2, <2>3, <2>4
<1>9. ASSUME NEW c \in Calls, Handler(c) PROVE SendInv'
  BY <1>4, <1>9, HandlerLists
<1>10. ASSUME NEW w \in Workers, Crash(w) PROVE SendInv'
  <2>1. /\ \A v \in Workers : up'[v] => up[v] /\ v # w /\ ws'[v] = ws[v]
        /\ ~up'[w]
    BY <1>1, <1>10 DEF Crash, TypeOK
  <2>2. \A t \in Tasks : IF run[t].at = w THEN run'[t].at = w ELSE run'[t] = run[t]
    BY <1>10 DEF Crash, Goroutine
  <2>3. \A s \in Stage1 : run'[s].at = run[s].at
    BY <1>2, <2>2
  <2>4. ASSUME NEW s \in Stage1, up'[run[s].at] PROVE run'[s].seq >= run[s].seq
    <3>1. run[s].at # w
      BY <2>1, <2>4
    <3>2. run'[s] = run[s]
      BY <1>2, <2>2, <3>1
    <3>. QED  BY <1>3, <3>2
  <2>5. \A t \in Tasks : run'[t].pc = "failed" => ~up'[run'[t].at]
    BY <1>1, <2>1, <2>2 DEF SendInv
  <2>. QED  BY <1>2, <2>1, <2>2, <2>3, <2>4, <2>5, SendKept
<1>11. ASSUME NEW t \in Tasks, NEW w \in Workers, Reschedule(t, w) PROVE SendInv'
  <2>1. UNCHANGED <<up, ws>> /\ run[t].pc = "failed" /\ ~up[run[t].at]
    BY <1>11 DEF Reschedule, workerVars, SendInv
  <2>2. \A s \in Tasks : IF s = t THEN run'[s].at = w /\ run'[s].seq = 0 /\ run'[s].pc = "assigned"
                         ELSE /\ run'[s].at = run[s].at
                              /\ run'[s] = run[s] \/ (run'[s].pc = "abandoned" /\ ~up[run[s].at])
    BY <1>11 DEF Reschedule, Goroutine, SendInv
  <2>3. up[w]
    BY <1>11 DEF Reschedule, Candidates, Idle
  <2>4. \A v \in Workers, s \in Stage1 : up'[v] /\ run'[s].at # v => run[s].at # v
    BY <1>2, <2>1, <2>2
  <2>5. ASSUME NEW s \in Stage1, up'[run[s].at] PROVE run'[s].seq >= run[s].seq
    <3>1. s # t
      BY <2>1, <2>5
    <3>2. run'[s] = run[s]
      BY <1>2, <2>1, <2>2, <2>5, <3>1
    <3>. QED  BY <1>3, <3>2
  <2>6. \A s \in Tasks : run'[s].pc = "failed" => ~up'[run'[s].at]
    BY <2>1, <2>2 DEF SendInv
  <2>. QED  BY <2>1, <2>4, <2>5, <2>6, SendKept
<1>12. ASSUME NEW u \in updates, UpdateTask(u) PROVE SendInv'
  <2>1. run[u[1]].at \in Workers
    BY <1>1 DEF TypeOK
  <2>2. \A w \in Workers : ws'[w].unacked = ws[w].unacked /\ ws'[w].ackMap = ws[w].ackMap
    BY <1>1, <1>12, <2>1, ListsKept DEF UpdateTask
  <2>. QED  BY <1>4, <1>12, <2>2 DEF UpdateTask
<1>13. ASSUME NEW t \in Stage2, NotifyReceiver(t) PROVE SendInv'
  <2>1. \A w \in Workers : ws'[w].unacked = ws[w].unacked /\ ws'[w].ackMap = ws[w].ackMap
    BY <1>1, <1>2, <1>13, ListsKept DEF NotifyReceiver
  <2>. QED  BY <1>4, <1>13, <2>1 DEF NotifyReceiver
<1>. QED  BY <1>6, <1>7, <1>8, <1>9, <1>10, <1>11, <1>12, <1>13 DEF Receiver, Leader

LEMMA SendInvariant == Spec => [](Ind /\ SendInv)
<1>1. ASSUME Ind, SendInv, [Next]_vars PROVE SendInv'
  <2>1. Ind'
    BY <1>1, NextInd
  <2>2. CASE UNCHANGED vars
    <3>1. \A s \in Stage1 : s \in Tasks
      BY DEF Tasks
    <3>2. \A s \in Tasks : run[s].seq \in 0 .. Lines
      BY <1>1, Typed DEF Ind
    <3>3. \A s \in Stage1 : run'[s].seq >= run[s].seq
      BY <2>2, <3>1, <3>2, BoundsAssumption DEF vars
    <3>. QED  BY <1>1, <2>1, <2>2, <3>3, SendKept DEF vars, workerVars, SendInv
  <2>. QED  BY <1>1, <2>1, <2>2, SenderSend, OtherSend DEF Next
<1>. QED  BY <1>1, InitInd, InitSend, NextInd, PTL DEF Spec

\* Only SendTuple opens a stream: a handler and a crash have to do with open ones.
LEMMA OthersOpenNone ==
  ASSUME Ind, \/ \E t \in Stage2 : Receiver(t)
              \/ \E c \in Calls : Handler(c)
              \/ \E w \in Workers : Crash(w)
              \/ Leader
              \/ UNCHANGED vars
  PROVE  \A d \in Calls : call'[d].st = "none" <=> call[d].st = "none"
<1>1. call \in [Calls -> CallRec] /\ \A d \in Calls : call[d] \in CallRec
  BY Typed DEF Ind
<1>2. ASSUME NEW c \in Calls, NEW st \in Status, st # "none", call[c].st # "none", Becomes(c, st)
      PROVE  \A d \in Calls : call'[d].st = "none" <=> call[d].st = "none"
  BY <1>1, <1>2 DEF Becomes, CallRec
<1>3. ASSUME NEW c \in Calls, Handler(c) PROVE \A d \in Calls : call'[d].st = "none" <=> call[d].st = "none"
  <2>1. CASE NoReceiverTask(c) \/ Take(c)
    <3>1. call[c].st # "none" /\ call'[c].st # "none" /\ \A d \in Calls : d # c => call'[d] = call[d]
      BY <1>1, <2>1 DEF NoReceiverTask, Take, Is, CallRec
    <3>. QED  BY <3>1
  <2>2. CASE Op2(c)
    <3>1. call[c].st # "none" /\ call'[c].st # "none" /\ \A d \in Calls : d # c => call'[d] = call[d]
      BY <1>1, <2>2 DEF Op2, Is, CallRec
    <3>. QED  BY <3>1
  <2>3. CASE \/ Accept(c) \/ OpenError(c) \/ Duplicate(c) \/ Op2Error(c)
             \/ WriteOutput(c) \/ WriteError(c) \/ LogAndAck(c) \/ LogError(c)
    <3>1. \E st \in Status : st # "none" /\ call[c].st # "none" /\ Becomes(c, st)
      BY <2>3 DEF Accept, OpenError, Duplicate, Op2Error, WriteOutput, WriteError, LogAndAck,
                  LogError, Is, Status
    <3>. QED  BY <1>2, <3>1
  <2>. QED  BY <1>3, <2>1, <2>2, <2>3 DEF Handler
<1>4. ASSUME NEW w \in Workers, Crash(w) PROVE \A d \in Calls : call'[d].st = "none" <=> call[d].st = "none"
  <2>1. \A d \in Calls : call'[d] = call[d] \/ (call[d].st # "none" /\ call'[d] = [call[d] EXCEPT !.st = "lost"])
    BY <1>4 DEF Crash
  <2>2. \A d \in Calls : [call[d] EXCEPT !.st = "lost"].st = "lost"
    BY <1>1 DEF CallRec
  <2>. QED  BY <2>1, <2>2
<1>5. ASSUME \/ \E t \in Stage2 : Receiver(t)
             \/ Leader
             \/ UNCHANGED vars
      PROVE  UNCHANGED call
  BY <1>5 DEF Receiver, StartTask, PrepareBegin, LoadOutput, LoadAol, Leader, Reschedule, UpdateTask,
              NotifyReceiver, vars
<1>. QED  BY <1>3, <1>4, <1>5

\* The stream a sender opens: of the tuple it is at, while its worker runs.
LEMMA SenderOpens ==
  ASSUME Ind, NEW t \in Stage1, Sender(t), NEW c \in Calls, call[c].st = "none", call'[c].st # "none"
  PROVE  /\ up[run[t].at] /\ c[1] = run[t].at
         /\ \/ ScanSend(t) /\ run[t].seq \in LineNo /\ c[2] = <<t, run[t].seq>>
            \/ /\ ResendSend(t) /\ run[t].i \in 1 .. Len(ws[run[t].at].unacked)
               /\ c[2] = ws[run[t].at].unacked[run[t].i].id
<1>1. t \in Tasks
  BY DEF Tasks
<1>2. ASSUME NEW d, NEW line, Issue(d, line) PROVE c = d
  BY <1>2, Typed DEF Ind, Issue
<1>3. CASE ScanSend(t)
  <2>1. PICK n \in Attempt : Issue(<<run[t].at, <<t, run[t].seq>>, n>>, run[t].line)
    BY <1>3 DEF ScanSend
  <2>2. c = <<run[t].at, <<t, run[t].seq>>, n>>
    BY <1>2, <2>1
  <2>3. run[t].line < Lines /\ up[run[t].at] /\ run[t].seq <= run[t].line /\ run[t].seq \in 0 .. Lines
        /\ run[t].line \in 0 .. Lines
    BY <1>1, <1>3, Typed DEF ScanSend, At, Ind, ScanInv
  <2>4. run[t].seq \in LineNo
    BY <2>3, BoundsAssumption DEF LineNo
  <2>. QED  BY <1>3, <2>2, <2>3, <2>4
<1>4. CASE ResendSend(t)
  <2>1. PICK n \in Attempt : Issue(<<run[t].at, Current(t).id, n>>, Current(t).line)
    BY <1>4 DEF ResendSend
  <2>2. c = <<run[t].at, Current(t).id, n>>
    BY <1>2, <2>1
  <2>3. run[t].i \in 1 .. Len(ws[run[t].at].unacked) /\ up[run[t].at]
    BY <1>1, <1>4, CurrentType DEF ResendSend, At
  <2>. QED  BY <1>4, <2>2, <2>3 DEF Current
<1>5. CASE ~ (ScanSend(t) \/ ResendSend(t))
  <2>1. UNCHANGED call
    BY <1>5 DEF Sender, StartTask, SkipLine, ScanReturn, ScanDone, Wake, LockForResend, ResendReturn,
                ResendEnd, Finish
  <2>. QED  BY <2>1
<1>. QED  BY <1>3, <1>4, <1>5

\* A worker never sends again a tuple it holds an acknowledgement for, although several
\* tasks of a worker share its lists, take turns in the retry passes, and may be moved.
THEOREM NotSentAgain == Spec => NoSendAfterAck
<1>1. ASSUME Ind, SendInv, [Next]_vars, NEW c \in Calls, call[c].st = "none", call'[c].st # "none"
      PROVE  ws[c[1]].ackMap[c[2]] # "acked"
  <2>1. PICK t \in Stage1 : Sender(t)
    BY <1>1, OthersOpenNone DEF Next
  <2>2. t \in Tasks /\ run[t].at \in Workers
    BY <1>1, Typed DEF Tasks, Ind
  <2>3. up[run[t].at] /\ c[1] = run[t].at
    BY <1>1, <2>1, SenderOpens
  <2>4. ListInv(run[t].at) /\ AheadInv(run[t].at)
    BY <1>1, <2>2, <2>3 DEF SendInv
  <2>5. CASE run[t].seq \in LineNo /\ c[2] = <<t, run[t].seq>>
    <3>1. Ahead(run[t].at, t, run[t].seq)
      BY <2>5, BoundsAssumption DEF Ahead, LineNo
    <3>. QED  BY <2>3, <2>4, <2>5, <3>1 DEF AheadInv
  <2>6. CASE run[t].i \in 1 .. Len(ws[run[t].at].unacked) /\ c[2] = ws[run[t].at].unacked[run[t].i].id
    BY <2>3, <2>4, <2>6 DEF ListInv
  <2>. QED  BY <1>1, <2>1, <2>5, <2>6, SenderOpens
<1>2. Ind /\ SendInv /\ [Next]_vars =>
        [\A c \in Calls : (call[c].st = "none" /\ call'[c].st # "none") =>
           ws[c[1]].ackMap[c[2]] # "acked"]_vars
  BY <1>1
<1>. QED  BY <1>2, SendInvariant, PTL DEF Spec, NoSendAfterAck

-----------------------------------------------------------------------------
(***************************************************************************)
(* What is reported to the leader.  Two stage-1 tasks at one worker empty  *)
(* each other's UnackedTuples when they start, and so does a second task   *)
(* of any kind to the acknowledgements; a worker of its own is what a      *)
(* stage-1 task needs for nothing to be given up early.                    *)
(***************************************************************************)
Apart == MaxCrashes = 0 /\ \A s \in Stage1, t \in Tasks : t # s => Place[t] # Place[s]

PlacedInv ==
  /\ \A w \in Workers : up[w]
  /\ \A t \in Tasks : run[t].at = Place[t] /\ run[t].pc # "failed"

Called(s, n, m) == call[<<Place[s], <<s, n>>, m>>].st # "none"
Given(s, n) == ws[Place[s]].ackMap[<<s, n>>] = "acked" \/ Called(s, n, MAX_RETRY_COUNT + 1)

\* Where task s stands, and that it acts for itself.
PhaseInv(s) ==
  /\ Range(ws[Place[s]].queue) \subseteq {s}
  /\ run[s].pc = "assigned" => run[s].seq = 0
  /\ run[s].pc \in {"resend", "resending"} /\ run[s].allMax => run[s].i = 1
  /\ run[s].pc \in {"lock", "resend", "resending", "finish"} => run[s].fin = s
  /\ s \in completed => run[s].pc = "done"
\* A tuple has been sent as often as was counted, and once more while it is resent.
CountInv(s) ==
  /\ \A n \in LineNo : Called(s, n, 0) => n < run[s].seq \/ (run[s].pc = "sending" /\ n = run[s].seq)
  /\ run[s].pc = "sending" => Called(s, run[s].seq, 0)
  /\ \A n \in LineNo : Listed(Place[s], <<s, n>>) =>
       \A m \in 0 .. ws[Place[s]].retries[<<s, n>>] : Called(s, n, m)
  /\ run[s].pc = "resending" =>
       /\ run[s].n > ws[Place[s]].retries[Current(s).id]
       /\ \A m \in 0 .. run[s].n : Called(s, Current(s).id[2], m)
\* What was sent is acknowledged, was given up, or waits; at the end nothing waits.
GivenInv(s) ==
  /\ \A n \in LineNo : n < run[s].seq =>
        /\ ws[Place[s]].ackMap[<<s, n>>] # "absent"
        /\ Given(s, n) \/ Listed(Place[s], <<s, n>>)
  /\ run[s].pc = "finish" \/ s \in completed => \A n \in LineNo : n < run[s].seq => Given(s, n)

TaskInv(s) == PhaseInv(s) /\ CountInv(s) /\ GivenInv(s)
ReportInv == PlacedInv /\ \A s \in Stage1 : TaskInv(s)
ReportInd == Ind /\ SendInv /\ ReportInv

LEMMA InitReport == Init => ReportInv
<1>. SUFFICES ASSUME Init PROVE ReportInv
  OBVIOUS
<1>1. PlacedInv
  BY DEF Init, Goroutine, PlacedInv
<1>2. ASSUME NEW s \in Stage1 PROVE TaskInv(s)
  <2>1. s \in Tasks /\ Place[s] \in Workers
    BY TasksAssumption DEF Tasks
  <2>2. run[s].pc = "assigned" /\ run[s].seq = 0 /\ s \notin completed
    BY <2>1 DEF Init, Goroutine
  <2>3. ws[Place[s]].queue = <<>> /\ ws[Place[s]].unacked = <<>>
    BY <2>1 DEF Init, InitWorker
  <2>4. Range(ws[Place[s]].queue) = {}
    BY <2>3 DEF Range
  <2>5. \A n \in LineNo : ~Called(s, n, 0) /\ ~Listed(Place[s], <<s, n>>)
    <3>1. SUFFICES ASSUME NEW n \in LineNo PROVE ~Called(s, n, 0) /\ ~Listed(Place[s], <<s, n>>)
      OBVIOUS
    <3>2. <<Place[s], <<s, n>>, 0>> \in Calls
      BY <2>1, BoundsAssumption DEF Calls, Ids, Attempt
    <3>3. call[<<Place[s], <<s, n>>, 0>>] = NoCall
      BY <3>2 DEF Init
    <3>. QED  BY <2>3, <3>3 DEF Called, Listed, NoCall
  <2>6. \A n \in LineNo : ~ (n < 0)
    BY DEF LineNo
  <2>. QED  BY <2>2, <2>4, <2>5, <2>6 DEF TaskInv, PhaseInv, CountInv, GivenInv
<1>. QED  BY <1>1, <1>2 DEF ReportInv

\* Whom an entry of the list of a sender belongs to: to the sender, who numbered it.
LEMMA ListedOwn ==
  ASSUME ReportInd, Apart, NEW s \in Stage1, NEW i \in 1 .. Len(ws[Place[s]].unacked)
  PROVE  \E n \in LineNo : ws[Place[s]].unacked[i].id = <<s, n>> /\ n < run[s].seq
<1>1. s \in Tasks /\ Place[s] \in Workers /\ up[Place[s]] /\ \A t \in Stage1 : t \in Tasks
  BY TasksAssumption DEF Tasks, ReportInd, ReportInv, PlacedInv
<1>2. ws[Place[s]].unacked[i].id \in Ids
  <2>1. ws[Place[s]].unacked \in Seq(TupleRec)
    BY <1>1, Typed DEF ReportInd, Ind
  <2>2. ws[Place[s]].unacked[i] \in TupleRec
    BY <2>1
  <2>. QED  BY <2>2 DEF TupleRec
<1>3. PICK t \in Stage1, n \in LineNo : ws[Place[s]].unacked[i].id = <<t, n>>
  BY <1>2 DEF Ids
<1>4. Listed(Place[s], <<t, n>>)
  BY <1>3 DEF Listed
<1>5. ~Ahead(Place[s], t, n)
  BY <1>1, <1>4 DEF ReportInd, SendInv, AheadInv
<1>6. run[t].at = Place[s] /\ ~ (n >= run[t].seq)
  BY <1>5 DEF Ahead
<1>7. t = s
  BY <1>1, <1>6 DEF Apart, ReportInd, ReportInv, PlacedInv
<1>8. run[s].seq \in 0 .. Lines
  BY <1>1, Typed DEF ReportInd, Ind
<1>9. n < run[s].seq
  BY <1>6, <1>7, <1>8, BoundsAssumption DEF LineNo
<1>. QED  BY <1>3, <1>7, <1>9

\* The names of the calls of a task.
LEMMA TaskCalls ==
  ASSUME Ind, NEW s \in Stage1
  PROVE  /\ s \in Tasks /\ Place[s] \in Workers
         /\ \A n \in LineNo, m \in Attempt : <<Place[s], <<s, n>>, m>> \in Calls
         /\ 0 \in Attempt /\ MAX_RETRY_COUNT + 1 \in Attempt
         /\ run[s].seq \in Nat /\ (run[s].pc = "sending" => run[s].seq \in LineNo)
         /\ \A n \in LineNo : \A m \in 0 .. ws[Place[s]].retries[<<s, n>>] : m \in Attempt
         /\ run[s].n \in Attempt /\ \A m \in 0 .. run[s].n : m \in Attempt
<1>1. s \in Tasks /\ Place[s] \in Workers
  BY TasksAssumption DEF Tasks
<1>2. \A n \in LineNo, m \in Attempt : <<Place[s], <<s, n>>, m>> \in Calls
  BY <1>1 DEF Calls, Ids
<1>3. 0 \in Attempt /\ MAX_RETRY_COUNT + 1 \in Attempt
  BY BoundsAssumption DEF Attempt
<1>4. run[s].seq \in 0 .. Lines /\ run[s].line \in 0 .. Lines /\ run[s] \in RunRec
  BY <1>1, Typed DEF Ind
<1>5. run[s].seq \in Nat
  BY <1>4, BoundsAssumption
<1>6. run[s].pc = "sending" => run[s].seq <= run[s].line /\ run[s].line < Lines
  BY <1>1 DEF Ind, ScanInv
<1>7. run[s].pc = "sending" => run[s].seq \in LineNo
  BY <1>4, <1>6, BoundsAssumption DEF LineNo
<1>8. \A n \in LineNo : \A m \in 0 .. ws[Place[s]].retries[<<s, n>>] : m \in Attempt
  <2>1. \A id \in Ids : ws[Place[s]].retries[id] \in 0 .. MAX_RETRY_COUNT
    BY <1>1, Typed DEF Ind
  <2>2. \A n \in LineNo : <<s, n>> \in Ids
    BY DEF Ids
  <2>3. \A n \in LineNo : ws[Place[s]].retries[<<s, n>>] \in 0 .. MAX_RETRY_COUNT
    BY <2>1, <2>2
  <2>. QED  BY <2>3, BoundsAssumption DEF Attempt
<1>9. run[s].n \in Attempt
  BY <1>4 DEF RunRec
<1>10. \A m \in 0 .. run[s].n : m \in Attempt
  BY <1>9, BoundsAssumption DEF Attempt
<1>. QED  BY <1>1, <1>2, <1>3, <1>5, <1>7, <1>8, <1>9, <1>10

\* A step after which the task has sent, listed and counted what it had before.
LEMMA TaskMoves ==
  ASSUME ReportInd, Apart, Ind', NEW s \in Stage1,
         \A c \in Calls : c[1] = Place[s] => (call'[c].st = "none" <=> call[c].st = "none"),
         ws'[Place[s]].ackMap = ws[Place[s]].ackMap,
         ws'[Place[s]].unacked = ws[Place[s]].unacked,
         ws'[Place[s]].retries = ws[Place[s]].retries,
         run'[s].at = run[s].at, run'[s].seq = run[s].seq,
         run'[s].pc = "sending" <=> run[s].pc = "sending",
         run'[s].pc = "resending" => /\ run[s].pc = "resending"
                                     /\ run'[s].i = run[s].i /\ run'[s].n = run[s].n,
         run'[s].pc = "finish" \/ s \in completed' =>
           \A n \in LineNo : n < run[s].seq => Given(s, n),
         PhaseInv(s)'
  PROVE  TaskInv(s)'
<1>1. CountInv(s) /\ GivenInv(s) /\ run[s].at = Place[s]
  BY TaskCalls DEF ReportInd, ReportInv, TaskInv, PlacedInv
<1>2. /\ s \in Tasks /\ Place[s] \in Workers
      /\ \A n \in LineNo, m \in Attempt : Called(s, n, m)' <=> Called(s, n, m)
  <2>1. \A n \in LineNo, m \in Attempt : <<Place[s], <<s, n>>, m>> \in Calls
    BY TaskCalls DEF ReportInd
  <2>. QED  BY <2>1, TaskCalls DEF ReportInd, Called
<1>3. \A n \in LineNo : /\ Listed(Place[s], <<s, n>>)' <=> Listed(Place[s], <<s, n>>)
                        /\ Given(s, n)' <=> Given(s, n)
  <2>1. MAX_RETRY_COUNT + 1 \in Attempt
    BY TaskCalls DEF ReportInd
  <2>. QED  BY <1>2, <2>1 DEF Listed, Given
<1>4. GivenInv(s)'
  BY <1>1, <1>3 DEF GivenInv
<1>5. CountInv(s)'
  <2>1. \A n \in LineNo : Called(s, n, 0)' => n < run'[s].seq \/ (run'[s].pc = "sending" /\ n = run'[s].seq)
    BY <1>1, <1>2, TaskCalls DEF CountInv, ReportInd
  <2>2. run'[s].pc = "sending" => Called(s, run[s].seq, 0)'
    BY <1>1, <1>2, TaskCalls DEF CountInv, ReportInd
  <2>3. ASSUME NEW n \in LineNo, Listed(Place[s], <<s, n>>)', NEW m \in 0 .. ws'[Place[s]].retries[<<s, n>>]
        PROVE  Called(s, n, m)'
    <3>1. Listed(Place[s], <<s, n>>) /\ m \in 0 .. ws[Place[s]].retries[<<s, n>>]
      BY <1>3, <2>3
    <3>2. m \in Attempt /\ Called(s, n, m)
      BY <1>1, <3>1, TaskCalls DEF CountInv, ReportInd
    <3>. QED  BY <1>2, <3>2
  <2>4. ASSUME run'[s].pc = "resending"
        PROVE  /\ run'[s].n > ws'[Place[s]].retries[Current(s)'.id]
               /\ \A m \in 0 .. run'[s].n : Called(s, Current(s).id[2], m)'
    <3>1. Current(s)' = Current(s)
      BY <1>1, <2>4 DEF Current
    <3>2. PICK n \in LineNo : Current(s).id = <<s, n>>
      <4>1. run[s].i \in 1 .. Len(ws[Place[s]].unacked)
        BY <1>1, <1>2, <2>4, CurrentType DEF ReportInd, Ind, ScanInv
      <4>. QED  BY <1>1, <4>1, ListedOwn DEF Current
    <3>3. run[s].n > ws[Place[s]].retries[Current(s).id] /\ \A m \in 0 .. run[s].n : Called(s, n, m)
      BY <1>1, <2>4, <3>2 DEF CountInv
    <3>4. \A m \in 0 .. run[s].n : Called(s, n, m)'
      BY <1>2, <3>3, TaskCalls DEF ReportInd
    <3>5. run'[s].n = run[s].n
      BY <2>4
    <3>6. Current(s)'.id[2] = n
      BY <3>1, <3>2
    <3>7. \A m \in 0 .. run'[s].n : Called(s, Current(s).id[2], m)'
      BY <3>4, <3>5, <3>6 DEF Called
    <3>. QED  BY <3>1, <3>3, <3>5, <3>7
  <2>. QED  BY <2>1, <2>2, <2>3, <2>4 DEF CountInv
<1>. QED  BY <1>4, <1>5 DEF TaskInv

\* What the invariant says of a sender that moves.
LEMMA Here ==
  ASSUME ReportInd, Apart, NEW s \in Stage1
  PROVE  /\ run[s].at = Place[s] /\ TaskInv(s)
         /\ run \in [Tasks -> RunRec] /\ run[s] \in RunRec
         /\ ws \in [Workers -> WorkerRec] /\ ws[Place[s]] \in WorkerRec
         /\ ListInv(Place[s]) /\ AheadInv(Place[s])
BY TaskCalls, Typed DEF ReportInd, ReportInv, PlacedInv, SendInv, Ind

\* The task starts: its worker has nothing to send yet.
LEMMA StartTaskReport ==
  ASSUME ReportInd, Apart, NEW s \in Stage1, StartTask(s)
  PROVE  TaskInv(s)'
<1>1. /\ s \in Tasks /\ Place[s] \in Workers /\ run[s].at = Place[s] /\ TaskInv(s)
      /\ run \in [Tasks -> RunRec] /\ run[s] \in RunRec /\ ws[Place[s]] \in WorkerRec
      /\ ws \in [Workers -> WorkerRec]
  BY TaskCalls, Here DEF ReportInd
<1>2. run[s].pc = "assigned" /\ run[s].seq = 0 /\ s \notin completed /\ UNCHANGED <<call, completed>>
  BY <1>1 DEF StartTask, At, TaskInv, PhaseInv, leaderVars
<1>3. run'[s].pc \in {"scan", "done"} /\ run'[s].seq = 0
  <2>1. PICK pc \in {"scan", "done"} : run' = [run EXCEPT ![s].pc = pc]
    BY DEF StartTask, Goto
  <2>. QED  BY <1>1, <1>2, <2>1 DEF RunRec
<1>4. ws'[Place[s]].unacked = <<>> /\ ws'[Place[s]].queue = Append(ws[Place[s]].queue, s)
  BY <1>1 DEF StartTask, WorkerRec
<1>5. Range(ws'[Place[s]].queue) \subseteq {s}
  <2>. DEFINE q == ws[Place[s]].queue
  <2>1. q \in Seq(Tasks) /\ Range(q) \subseteq {s}
    BY <1>1 DEF WorkerRec, TaskInv, PhaseInv
  <2>. HIDE DEF q
  <2>2. \A i \in DOMAIN q : q[i] = s
    BY <2>1 DEF Range
  <2>3. \A i \in DOMAIN Append(q, s) : Append(q, s)[i] = s
    BY <1>1, <2>1, <2>2, AppendProperties
  <2>4. Range(Append(q, s)) \subseteq {s}
    BY <2>3 DEF Range
  <2>. QED  BY <1>4, <2>4 DEF q
<1>6. \A n \in LineNo : ~ (n < 0)
  BY DEF LineNo
<1>7. \A n \in LineNo : ~Called(s, n, 0)' /\ ~Listed(Place[s], <<s, n>>)'
  <2>1. \A n \in LineNo : ~Called(s, n, 0)
    BY <1>1, <1>2, <1>6 DEF TaskInv, CountInv
  <2>2. ~ \E i \in 1 .. Len(ws'[Place[s]].unacked) : TRUE
    BY <1>4
  <2>. QED  BY <1>2, <2>1, <2>2 DEF Called, Listed
<1>8. PhaseInv(s)'
  BY <1>2, <1>3, <1>5 DEF PhaseInv
<1>9. CountInv(s)'
  BY <1>3, <1>7 DEF CountInv
<1>10. GivenInv(s)'
  BY <1>2, <1>3, <1>6 DEF GivenInv
<1>. QED  BY <1>8, <1>9, <1>10 DEF TaskInv

\* A stream is opened: one more call of its tuple.
LEMMA CallsGrow ==
  ASSUME Ind, NEW s \in Stage1, NEW x \in LineNo, NEW k \in Attempt, NEW line \in LineNo,
         Issue(<<Place[s], <<s, x>>, k>>, line)
  PROVE  /\ \A n \in LineNo, m \in Attempt : Called(s, n, m)' <=> Called(s, n, m) \/ (n = x /\ m = k)
         /\ \A d \in Calls : d # <<Place[s], <<s, x>>, k>> => call'[d] = call[d]
<1>. DEFINE c == <<Place[s], <<s, x>>, k>>
<1>1. c \in Calls /\ call \in [Calls -> CallRec]
  BY TaskCalls, Typed DEF Ind
<1>2. \E r : r.st # "none" /\ call' = [call EXCEPT ![c] = r]
  <2>. DEFINE to == ws[Place[s]].parts[KeyOf[<<s, line>>]]
              r == [st |-> IF up[to] THEN "sent" ELSE "lost", line |-> line, to |-> to, ep |-> 0, cnt |-> 0]
  <2>1. call' = [call EXCEPT ![c] = r]
    BY DEF Issue
  <2>2. r.st # "none"
    OBVIOUS
  <2>. HIDE DEF r
  <2>. QED  BY <2>1, <2>2
<1>3. call'[c].st # "none" /\ \A d \in Calls : d # c => call'[d] = call[d]
  BY <1>1, <1>2
<1>4. ASSUME NEW n \in LineNo, NEW m \in Attempt
      PROVE  /\ <<Place[s], <<s, n>>, m>> \in Calls
             /\ <<Place[s], <<s, n>>, m>> = c <=> n = x /\ m = k
  BY TaskCalls
<1>. HIDE DEF c
<1>5. \A n \in LineNo, m \in Attempt : Called(s, n, m)' <=> Called(s, n, m) \/ (n = x /\ m = k)
  BY <1>3, <1>4 DEF Called
<1>. QED  BY <1>3, <1>5 DEF c

LEMMA ScanSendReport ==
  ASSUME ReportInd, Apart, NEW s \in Stage1, ScanSend(s)
  PROVE  TaskInv(s)'
<1>1. /\ s \in Tasks /\ Place[s] \in Workers /\ run[s].at = Place[s] /\ TaskInv(s) /\ run[s].pc = "scan"
      /\ run \in [Tasks -> RunRec] /\ run[s] \in RunRec /\ UNCHANGED <<ws, completed>>
  BY TaskCalls, Here DEF ReportInd, ScanSend, At, workerVars, leaderVars
<1>2. run[s].seq \in LineNo /\ run[s].line \in LineNo
  <2>1. run[s].seq \in 0 .. Lines /\ run[s].line \in 0 .. Lines /\ run[s].seq <= run[s].line
    BY <1>1 DEF ReportInd, Ind, ScanInv, RunRec
  <2>2. run[s].line < Lines
    BY DEF ScanSend
  <2>. QED  BY <2>1, <2>2, BoundsAssumption DEF LineNo
<1>3. PICK k \in Attempt : /\ NextStream(Place[s], <<s, run[s].seq>>, k)
                           /\ Issue(<<Place[s], <<s, run[s].seq>>, k>>, run[s].line)
                           /\ run' = [run EXCEPT ![s].pc = "sending", ![s].n = k]
  BY <1>1 DEF ScanSend
<1>4. k = 0
  <2>1. ~Called(s, run[s].seq, 0)
    BY <1>1, <1>2, TaskCalls DEF TaskInv, CountInv, ReportInd
  <2>2. ~ (0 \in 0 .. k - 1)
    BY <1>3, <2>1 DEF NextStream, Called
  <2>. QED  BY <2>2 DEF Attempt
<1>5. \A n \in LineNo, m \in Attempt : Called(s, n, m)' <=> Called(s, n, m) \/ (n = run[s].seq /\ m = 0)
  BY <1>2, <1>3, <1>4, CallsGrow DEF ReportInd
<1>6. run'[s].pc = "sending" /\ run'[s].seq = run[s].seq /\ s \notin completed
  BY <1>1, <1>3 DEF RunRec, TaskInv, PhaseInv
<1>7. 0 \in Attempt /\ MAX_RETRY_COUNT + 1 \in Attempt
      /\ \A n \in LineNo : \A m \in 0 .. ws[Place[s]].retries[<<s, n>>] : m \in Attempt
  BY TaskCalls DEF ReportInd
<1>8. PhaseInv(s)'
  BY <1>1, <1>6 DEF TaskInv, PhaseInv
<1>9. CountInv(s)'
  BY <1>1, <1>2, <1>5, <1>6, <1>7 DEF TaskInv, CountInv, Listed
<1>10. GivenInv(s)'
  BY <1>1, <1>5, <1>6, <1>7 DEF TaskInv, GivenInv, Given, Listed
<1>. QED  BY <1>8, <1>9, <1>10 DEF TaskInv

\* Retries: the entry of the list that is sent again, and how often it was.
LEMMA CurrentOwn ==
  ASSUME ReportInd, Apart, NEW s \in Stage1, run[s].i <= Len(ws[Place[s]].unacked)
  PROVE  \E x \in LineNo : /\ Current(s).id = <<s, x>> /\ x < run[s].seq
                           /\ Listed(Place[s], <<s, x>>) /\ Current(s).line \in LineNo
                           /\ run[s].i \in 1 .. Len(ws[Place[s]].unacked)
<1>1. s \in Tasks /\ run[s].at = Place[s]
  BY TaskCalls, Here DEF ReportInd
<1>2. run[s].i \in 1 .. Len(ws[Place[s]].unacked) /\ Current(s).line \in LineNo
  BY <1>1, CurrentType DEF ReportInd
<1>3. PICK x \in LineNo : ws[Place[s]].unacked[run[s].i].id = <<s, x>> /\ x < run[s].seq
  BY <1>2, ListedOwn
<1>. QED  BY <1>1, <1>2, <1>3 DEF Current, Listed

LEMMA ResendSendReport ==
  ASSUME ReportInd, Apart, NEW s \in Stage1, ResendSend(s)
  PROVE  TaskInv(s)'
<1>1. /\ s \in Tasks /\ Place[s] \in Workers /\ run[s].at = Place[s] /\ TaskInv(s) /\ run[s].pc = "resend"
      /\ run \in [Tasks -> RunRec] /\ run[s] \in RunRec /\ UNCHANGED <<ws, completed>>
  BY TaskCalls, Here DEF ReportInd, ResendSend, At, workerVars, leaderVars
<1>2. PICK x \in LineNo : Current(s).id = <<s, x>> /\ x < run[s].seq /\ Listed(Place[s], <<s, x>>)
                          /\ Current(s).line \in LineNo
  BY <1>1, CurrentOwn DEF ResendSend
<1>3. PICK k \in Attempt : /\ NextStream(Place[s], <<s, x>>, k)
                           /\ Issue(<<Place[s], <<s, x>>, k>>, Current(s).line)
                           /\ run' = [run EXCEPT ![s].pc = "resending", ![s].n = k]
  BY <1>1, <1>2 DEF ResendSend
<1>4. \A n \in LineNo, m \in Attempt : Called(s, n, m)' <=> Called(s, n, m) \/ (n = x /\ m = k)
  BY <1>2, <1>3, CallsGrow DEF ReportInd
<1>5. /\ run'[s].pc = "resending" /\ run'[s].seq = run[s].seq /\ run'[s].n = k /\ run'[s].i = run[s].i
      /\ run'[s].at = run[s].at /\ run'[s].allMax = run[s].allMax /\ run'[s].fin = run[s].fin
      /\ s \notin completed
  BY <1>1, <1>3 DEF RunRec, TaskInv, PhaseInv
<1>6. /\ 0 \in Attempt /\ MAX_RETRY_COUNT + 1 \in Attempt
      /\ \A n \in LineNo : \A m \in 0 .. ws[Place[s]].retries[<<s, n>>] : m \in Attempt
      /\ \A m \in 0 .. k : m \in Attempt
  <2>1. \A m \in 0 .. k : m \in Attempt
    BY BoundsAssumption DEF Attempt
  <2>. QED  BY <2>1, TaskCalls DEF ReportInd
<1>7. k > ws[Place[s]].retries[<<s, x>>] /\ \A m \in 0 .. k : Called(s, x, m)'
  <2>1. ws[Place[s]].retries[<<s, x>>] \in Nat /\ k \in Nat
    <3>1. <<s, x>> \in Ids /\ ws[Place[s]].retries \in [Ids -> 0 .. MAX_RETRY_COUNT]
      BY <1>1, Typed DEF Ids, ReportInd, Ind
    <3>2. ws[Place[s]].retries[<<s, x>>] \in 0 .. MAX_RETRY_COUNT
      BY <3>1
    <3>. QED  BY <3>2, BoundsAssumption DEF Attempt
  <2>2. ~Called(s, x, k) /\ \A m \in 0 .. k - 1 : Called(s, x, m)
    BY <1>3 DEF NextStream, Called
  <2>3. \A m \in 0 .. ws[Place[s]].retries[<<s, x>>] : Called(s, x, m)
    BY <1>1, <1>2 DEF TaskInv, CountInv
  <2>4. ~ (k \in 0 .. ws[Place[s]].retries[<<s, x>>])
    BY <2>2, <2>3
  <2>5. k > ws[Place[s]].retries[<<s, x>>]
    BY <2>1, <2>4
  <2>6. ASSUME NEW m \in 0 .. k PROVE Called(s, x, m)'
    <3>1. m = k \/ m \in 0 .. k - 1
      BY <2>1
    <3>. QED  BY <1>4, <1>6, <2>2, <3>1
  <2>. QED  BY <2>5, <2>6
<1>8. PhaseInv(s)'
  BY <1>1, <1>5 DEF TaskInv, PhaseInv
<1>9. CountInv(s)'
  <2>1. \A n \in LineNo : Called(s, n, 0)' => n < run'[s].seq
    BY <1>1, <1>2, <1>4, <1>5, <1>6 DEF TaskInv, CountInv
  <2>2. \A n \in LineNo : Listed(Place[s], <<s, n>>)' =>
          \A m \in 0 .. ws'[Place[s]].retries[<<s, n>>] : Called(s, n, m)'
    BY <1>1, <1>4, <1>6 DEF TaskInv, CountInv, Listed
  <2>3. Current(s)' = Current(s)
    BY <1>1, <1>5 DEF Current
  <2>4. Current(s)'.id = <<s, x>> /\ Current(s)'.id[2] = x
    BY <1>2, <2>3
  <2>5. run'[s].n > ws'[Place[s]].retries[Current(s)'.id] /\ \A m \in 0 .. run'[s].n : Called(s, x, m)'
    BY <1>1, <1>5, <1>7, <2>4
  <2>6. \A m \in 0 .. run'[s].n : Called(s, Current(s).id[2], m)'
    BY <2>4, <2>5 DEF Called
  <2>. QED  BY <1>5, <2>1, <2>2, <2>5, <2>6 DEF CountInv
<1>10. GivenInv(s)'
  BY <1>1, <1>4, <1>5, <1>6 DEF TaskInv, GivenInv, Given, Listed
<1>. QED  BY <1>8, <1>9, <1>10 DEF TaskInv

\* SendTuple returns: the tuple is acknowledged or listed with no retry counted.
LEMMA ScanReturnReport ==
  ASSUME ReportInd, Apart, NEW s \in Stage1, NEW ack \in BOOLEAN, ScanReturn(s, ack)
  PROVE  TaskInv(s)'
<1>0. PICK x : x = run[s].seq
  OBVIOUS
<1>. DEFINE w == Place[s]
            me == ws[w]
            id == <<s, x>>
            new == [id |-> id, line |-> run[s].line]
<1>1. /\ s \in Tasks /\ w \in Workers /\ run[s].at = w /\ TaskInv(s) /\ run[s].pc = "sending"
      /\ run \in [Tasks -> RunRec] /\ run[s] \in RunRec /\ ws \in [Workers -> WorkerRec]
      /\ UNCHANGED <<call, completed>> /\ x \in LineNo /\ x \in Nat /\ id \in Ids
      /\ 0 \in Attempt /\ MAX_RETRY_COUNT + 1 \in Attempt
  BY <1>0, TaskCalls, Here DEF ReportInd, ScanReturn, At, leaderVars, Ids
<1>2. /\ me.unacked \in Seq(TupleRec) /\ me.ackMap \in [Ids -> {"absent", "acked", "unacked"}]
      /\ me.retries \in [Ids -> 0 .. MAX_RETRY_COUNT]
  BY <1>1, Typed DEF ReportInd, Ind
<1>3. /\ ws'[w].ackMap = [me.ackMap EXCEPT ![id] = IF ack THEN "acked" ELSE "unacked"]
      /\ ws'[w].unacked = IF ack THEN me.unacked ELSE Append(me.unacked, new)
      /\ ws'[w].retries = IF ack THEN me.retries ELSE [me.retries EXCEPT ![id] = 0]
      /\ ws'[w].queue = me.queue
  <2>1. ws' = [ws EXCEPT ![w] = [me EXCEPT
                 !.ackMap = [me.ackMap EXCEPT ![id] = IF ack THEN "acked" ELSE "unacked"],
                 !.unacked = IF ack THEN me.unacked ELSE Append(me.unacked, new),
                 !.retries = IF ack THEN me.retries ELSE [me.retries EXCEPT ![id] = 0]]]
    BY <1>0, <1>1 DEF ScanReturn
  <2>2. me \in WorkerRec
    BY <1>1
  <2>. HIDE DEF me, new, id
  <2>. QED  BY <1>1, <2>1, <2>2 DEF WorkerRec
<1>4. run'[s].pc = "scan" /\ run'[s].seq = x + 1
  BY <1>0, <1>1 DEF ScanReturn, RunRec
<1>5. s \notin completed
  BY <1>1 DEF TaskInv, PhaseInv
<1>6. \A n \in LineNo : n \in Nat /\ <<s, n>> \in Ids /\ (n < x + 1 => n < x \/ n = x)
  BY <1>1, BoundsAssumption DEF LineNo, Ids
<1>7. new.id = id
  OBVIOUS
<1>. HIDE DEF me, new
\* What the list holds now.
<1>8. \A n \in LineNo : /\ Listed(w, <<s, n>>) => Listed(w, <<s, n>>)'
                        /\ Listed(w, <<s, n>>)' => Listed(w, <<s, n>>) \/ (~ack /\ n = x)
                        /\ ~ack => Listed(w, id)'
  <2>1. CASE ack
    BY <1>3, <2>1 DEF Listed, me
  <2>2. CASE ~ack
    <3>1. /\ Len(ws'[w].unacked) = Len(me.unacked) + 1 /\ Len(me.unacked) \in Nat
          /\ ws'[w].unacked[Len(me.unacked) + 1] = new
          /\ \A i \in 1 .. Len(me.unacked) : ws'[w].unacked[i] = me.unacked[i]
      BY <1>2, <1>3, <2>2, AppendProperties
    <3>2. Len(me.unacked) + 1 \in 1 .. Len(ws'[w].unacked) /\ 1 .. Len(me.unacked) \subseteq 1 .. Len(ws'[w].unacked)
      BY <3>1
    <3>3. \A i \in 1 .. Len(ws'[w].unacked) : i \in 1 .. Len(me.unacked) \/ i = Len(me.unacked) + 1
      BY <3>1
    <3>4. Listed(w, id)'
      BY <1>7, <3>1, <3>2 DEF Listed
    <3>5. \A n \in LineNo : Listed(w, <<s, n>>) => Listed(w, <<s, n>>)'
      BY <3>1, <3>2 DEF Listed, me
    <3>6. \A n \in LineNo : Listed(w, <<s, n>>)' => Listed(w, <<s, n>>) \/ n = x
      <4>1. SUFFICES ASSUME NEW n \in LineNo, NEW i \in 1 .. Len(ws'[w].unacked),
                            ws'[w].unacked[i].id = <<s, n>>
                     PROVE  Listed(w, <<s, n>>) \/ n = x
        BY DEF Listed
      <4>2. CASE i \in 1 .. Len(me.unacked)
        BY <3>1, <4>1, <4>2 DEF Listed, me
      <4>3. CASE i = Len(me.unacked) + 1
        BY <1>7, <3>1, <4>1, <4>3
      <4>. QED  BY <3>3, <4>2, <4>3
    <3>. QED  BY <2>2, <3>4, <3>5, <3>6
  <2>. QED  BY <2>1, <2>2
<1>9. PhaseInv(s)'
  BY <1>1, <1>3, <1>4, <1>5 DEF TaskInv, PhaseInv, me
<1>10. CountInv(s)'
  <2>1. \A n \in LineNo : Called(s, n, 0)' => n < run'[s].seq
    BY <1>0, <1>1, <1>4, <1>6 DEF TaskInv, CountInv, Called
  <2>2. ASSUME NEW n \in LineNo, Listed(w, <<s, n>>)', NEW m \in 0 .. ws'[w].retries[<<s, n>>]
        PROVE  Called(s, n, m)'
    <3>1. CASE ~ack /\ n = x
      <4>1. ws'[w].retries[<<s, n>>] = 0
        BY <1>1, <1>2, <1>3, <3>1
      <4>2. m = 0
        BY <2>2, <4>1
      <4>. QED  BY <1>0, <1>1, <3>1, <4>2 DEF TaskInv, CountInv, Called
    <3>2. CASE ~(~ack /\ n = x)
      <4>1. Listed(w, <<s, n>>) /\ ws'[w].retries[<<s, n>>] = me.retries[<<s, n>>]
        BY <1>2, <1>3, <1>6, <1>8, <2>2, <3>2
      <4>. QED  BY <1>1, <2>2, <4>1 DEF TaskInv, CountInv, Called, me
    <3>. QED  BY <3>1, <3>2
  <2>. QED  BY <1>4, <2>1, <2>2 DEF CountInv
<1>11. GivenInv(s)'
  <2>1. ASSUME NEW n \in LineNo, n < run'[s].seq
        PROVE  ws'[w].ackMap[<<s, n>>] # "absent" /\ (Given(s, n)' \/ Listed(w, <<s, n>>)')
    <3>1. CASE n = x
      BY <1>1, <1>2, <1>3, <1>8, <3>1 DEF Given
    <3>2. CASE n # x
      <4>1. n < x /\ ws'[w].ackMap[<<s, n>>] = me.ackMap[<<s, n>>]
        BY <1>1, <1>2, <1>3, <1>4, <1>6, <2>1, <3>2
      <4>2. ws[w].ackMap[<<s, n>>] # "absent" /\ (Given(s, n) \/ Listed(w, <<s, n>>))
        BY <1>0, <1>1, <4>1 DEF TaskInv, GivenInv
      <4>. QED  BY <1>1, <1>8, <4>1, <4>2 DEF Given, Called, me
    <3>. QED  BY <3>1, <3>2
  <2>. QED  BY <1>1, <1>4, <1>5, <2>1 DEF GivenInv
<1>. QED  BY <1>9, <1>10, <1>11 DEF TaskInv

\* A retry returns: the entry that leaves was acknowledged or sent as often as allowed.
LEMMA ResendReturnReport ==
  ASSUME ReportInd, Apart, NEW s \in Stage1, NEW ack \in BOOLEAN, ResendReturn(s, ack)
  PROVE  TaskInv(s)'
<1>. DEFINE w == Place[s]
            me == ws[w]
            k == run[s].i
<1>1. /\ s \in Tasks /\ w \in Workers /\ run[s].at = w /\ TaskInv(s) /\ run[s].pc = "resending"
      /\ run \in [Tasks -> RunRec] /\ run[s] \in RunRec /\ ws \in [Workers -> WorkerRec]
      /\ UNCHANGED <<call, completed>> /\ 0 \in Attempt /\ MAX_RETRY_COUNT + 1 \in Attempt
      /\ ListInv(w) /\ run[s].n \in Attempt
  BY TaskCalls, Here DEF ReportInd, ResendReturn, At, leaderVars
<1>2. /\ me.unacked \in Seq(TupleRec) /\ me.ackMap \in [Ids -> {"absent", "acked", "unacked"}]
      /\ me.retries \in [Ids -> 0 .. MAX_RETRY_COUNT]
  BY <1>1, Typed DEF ReportInd, Ind
<1>3. k <= Len(me.unacked)
  BY <1>1 DEF ReportInd, Ind, ScanInv
<1>4. PICK x \in LineNo : /\ Current(s).id = <<s, x>> /\ x < run[s].seq /\ Listed(w, <<s, x>>)
                          /\ k \in 1 .. Len(me.unacked)
  BY <1>3, CurrentOwn
<1>. DEFINE id == <<s, x>>
            r == me.retries[id] + 1
            leaves == Leaves(ack, r)
<1>5. /\ ws'[w].ackMap = [me.ackMap EXCEPT ![id] = IF ack THEN "acked" ELSE "unacked"]
      /\ ws'[w].unacked = IF leaves THEN RemoveAt(me.unacked, k) ELSE me.unacked
      /\ ws'[w].retries = [me.retries EXCEPT ![id] = IF leaves THEN 0 ELSE r]
      /\ ws'[w].queue = me.queue
  <2>1. ws' = [ws EXCEPT ![w] = [me EXCEPT
          !.ackMap = [me.ackMap EXCEPT ![id] = IF ack THEN "acked" ELSE "unacked"],
          !.unacked = IF leaves THEN RemoveAt(me.unacked, k) ELSE me.unacked,
          !.retries = [me.retries EXCEPT ![id] = IF leaves THEN 0 ELSE r]]]
    BY <1>1, <1>4 DEF ResendReturn
  <2>. HIDE DEF r, leaves, id, me
  <2>2. ws'[w] = [me EXCEPT
          !.ackMap = [me.ackMap EXCEPT ![id] = IF ack THEN "acked" ELSE "unacked"],
          !.unacked = IF leaves THEN RemoveAt(me.unacked, k) ELSE me.unacked,
          !.retries = [me.retries EXCEPT ![id] = IF leaves THEN 0 ELSE r]]
    BY <1>1, <2>1
  <2>3. me \in WorkerRec
    BY <1>1 DEF me
  <2>. QED  BY <2>2, <2>3 DEF WorkerRec
<1>6. /\ run'[s].pc = "resend" /\ run'[s].seq = run[s].seq
      /\ run'[s].i = (IF leaves THEN k ELSE k + 1)
      /\ run'[s].allMax = (IF leaves THEN run[s].allMax ELSE FALSE) /\ run'[s].fin = run[s].fin
  BY <1>1, <1>4 DEF ResendReturn, RunRec
<1>7. s \notin completed
  BY <1>1 DEF TaskInv, PhaseInv
<1>8. me.unacked[k].id = id /\ id \in Ids /\ r \in Nat
      /\ \A n \in LineNo : <<s, n>> \in Ids /\ (n # x => <<s, n>> # id)
  <2>1. id \in Ids /\ \A n \in LineNo : <<s, n>> \in Ids
    BY DEF Ids
  <2>2. me.retries[id] \in 0 .. MAX_RETRY_COUNT
    BY <1>2, <2>1
  <2>3. r \in Nat
    BY <2>2, BoundsAssumption
  <2>4. me.unacked[k].id = id
    BY <1>1, <1>4 DEF Current
  <2>. QED  BY <2>1, <2>3, <2>4
<1>9. \A i, j \in 1 .. Len(me.unacked) : me.unacked[i].id = me.unacked[j].id => i = j
  BY <1>1 DEF ListInv
<1>. HIDE DEF me, r, leaves
\* What the list holds now.
<1>10. \A n \in LineNo : /\ n # x => (Listed(w, <<s, n>>)' <=> Listed(w, <<s, n>>))
                         /\ leaves => ~Listed(w, id)'
                         /\ ~leaves => Listed(w, id)'
  <2>1. CASE leaves
    <3>1. /\ Len(ws'[w].unacked) = Len(me.unacked) - 1
          /\ \A j \in 1 .. Len(me.unacked) - 1 :
               ws'[w].unacked[j] = IF j < k THEN me.unacked[j] ELSE me.unacked[j + 1]
      <4>1. ws'[w].unacked = RemoveAt(me.unacked, k) /\ k \in 1 .. Len(me.unacked)
        BY <1>4, <1>5, <2>1 DEF me
      <4>. QED  BY <1>2, <4>1, RemoveAtIs
    <3>2. ASSUME NEW i \in 1 .. Len(ws'[w].unacked)
          PROVE  \E j \in 1 .. Len(me.unacked) : j # k /\ ws'[w].unacked[i] = me.unacked[j]
      <4>1. CASE i < k
        BY <1>2, <1>4, <3>1, <3>2, <4>1
      <4>2. CASE ~ (i < k)
        <5>1. i + 1 \in 1 .. Len(me.unacked) /\ i + 1 # k /\ ws'[w].unacked[i] = me.unacked[i + 1]
          BY <1>2, <1>4, <3>1, <3>2, <4>2
        <5>. QED  BY <5>1
      <4>. QED  BY <4>1, <4>2
    <3>3. ASSUME NEW j \in 1 .. Len(me.unacked), j # k
          PROVE  \E i \in 1 .. Len(ws'[w].unacked) : ws'[w].unacked[i] = me.unacked[j]
      <4>1. CASE j < k
        BY <1>2, <1>4, <3>1, <3>3, <4>1
      <4>2. CASE ~ (j < k)
        <5>1. /\ j - 1 \in 1 .. Len(me.unacked) - 1 /\ ~ (j - 1 < k) /\ (j - 1) + 1 = j
          BY <1>2, <1>4, <3>3, <4>2
        <5>2. ws'[w].unacked[j - 1] = me.unacked[j]
          BY <3>1, <5>1
        <5>. QED  BY <3>1, <5>1, <5>2
      <4>. QED  BY <4>1, <4>2
    <3>4. ~Listed(w, id)'
      BY <1>4, <1>8, <1>9, <3>2 DEF Listed
    <3>5. \A n \in LineNo : n # x => (Listed(w, <<s, n>>)' <=> Listed(w, <<s, n>>))
      <4>1. SUFFICES ASSUME NEW n \in LineNo, n # x PROVE Listed(w, <<s, n>>)' <=> Listed(w, <<s, n>>)
        OBVIOUS
      <4>2. Listed(w, <<s, n>>)' => Listed(w, <<s, n>>)
        BY <3>2 DEF Listed, me
      <4>3. ASSUME Listed(w, <<s, n>>) PROVE Listed(w, <<s, n>>)'
        <5>1. PICK j \in 1 .. Len(me.unacked) : me.unacked[j].id = <<s, n>>
          BY <4>3 DEF Listed, me
        <5>2. j # k
          BY <1>8, <4>1, <5>1
        <5>. QED  BY <3>3, <5>1, <5>2 DEF Listed
      <4>. QED  BY <4>2, <4>3
    <3>. QED  BY <2>1, <3>4, <3>5
  <2>2. CASE ~leaves
    BY <1>4, <1>5, <2>2 DEF Listed, me
  <2>. QED  BY <2>1, <2>2
<1>11. PhaseInv(s)'
  <2>1. run'[s].allMax => run'[s].i = 1
    BY <1>1, <1>6 DEF TaskInv, PhaseInv
  <2>2. Range(ws'[w].queue) \subseteq {s}
    BY <1>1, <1>5 DEF TaskInv, PhaseInv, me
  <2>3. s \notin completed'
    BY <1>1, <1>7
  <2>4. run'[s].fin = s
    BY <1>1, <1>6 DEF TaskInv, PhaseInv
  <2>. QED  BY <1>6, <2>1, <2>2, <2>3, <2>4 DEF PhaseInv
<1>12. run[s].n >= r /\ \A m \in 0 .. run[s].n : Called(s, x, m)
  <2>1. run[s].n > ws[w].retries[id] /\ \A m \in 0 .. run[s].n : Called(s, x, m)
    BY <1>1, <1>4 DEF TaskInv, CountInv
  <2>2. run[s].n \in Nat /\ me.retries[id] \in Nat
    BY <1>1, <1>2, <1>8, BoundsAssumption DEF Attempt
  <2>. QED  BY <2>1, <2>2 DEF r, me
<1>13. CountInv(s)'
  <2>1. \A n \in LineNo : Called(s, n, 0)' => n < run'[s].seq
    BY <1>1, <1>6 DEF TaskInv, CountInv, Called
  <2>2. ASSUME NEW n \in LineNo, Listed(w, <<s, n>>)', NEW m \in 0 .. ws'[w].retries[<<s, n>>]
        PROVE  Called(s, n, m)'
    <3>1. CASE n = x
      <4>1. ws'[w].retries[<<s, n>>] = r
        BY <1>2, <1>5, <1>8, <1>10, <2>2, <3>1
      <4>2. m \in 0 .. run[s].n
        BY <1>1, <1>8, <1>12, <2>2, <4>1, BoundsAssumption DEF Attempt
      <4>. QED  BY <1>1, <1>12, <3>1, <4>2 DEF Called
    <3>2. CASE n # x
      <4>1. Listed(w, <<s, n>>) /\ ws'[w].retries[<<s, n>>] = me.retries[<<s, n>>]
        BY <1>2, <1>5, <1>8, <1>10, <2>2, <3>2
      <4>. QED  BY <1>1, <2>2, <4>1 DEF TaskInv, CountInv, Called, me
    <3>. QED  BY <3>1, <3>2
  <2>. QED  BY <1>6, <2>1, <2>2 DEF CountInv
<1>14. GivenInv(s)'
  <2>1. ASSUME NEW n \in LineNo, n < run'[s].seq
        PROVE  ws'[w].ackMap[<<s, n>>] # "absent" /\ (Given(s, n)' \/ Listed(w, <<s, n>>)')
    <3>1. CASE n = x
      <4>1. ws'[w].ackMap[<<s, n>>] = IF ack THEN "acked" ELSE "unacked"
        BY <1>2, <1>5, <1>8, <3>1
      <4>2. CASE ack \/ ~leaves
        BY <1>10, <3>1, <4>1, <4>2 DEF Given
      <4>3. CASE ~ack /\ leaves
        <5>1. r >= MAX_RETRY_COUNT + 1
          BY <4>3 DEF leaves, Leaves
        <5>2. MAX_RETRY_COUNT + 1 \in 0 .. run[s].n
          BY <1>1, <1>8, <1>12, <5>1, BoundsAssumption DEF Attempt
        <5>3. Called(s, n, MAX_RETRY_COUNT + 1)'
          BY <1>1, <1>12, <3>1, <5>2 DEF Called
        <5>. QED  BY <4>1, <5>3 DEF Given
      <4>. QED  BY <4>2, <4>3
    <3>2. CASE n # x
      <4>1. ws'[w].ackMap[<<s, n>>] = me.ackMap[<<s, n>>]
        BY <1>2, <1>5, <1>8, <3>2
      <4>2. ws[w].ackMap[<<s, n>>] # "absent" /\ (Given(s, n) \/ Listed(w, <<s, n>>))
        BY <1>1, <1>6, <2>1 DEF TaskInv, GivenInv
      <4>. QED  BY <1>1, <1>10, <3>2, <4>1, <4>2 DEF Given, Called, me
    <3>. QED  BY <3>1, <3>2
  <2>. QED  BY <1>1, <1>6, <1>7, <2>1 DEF GivenInv
<1>. QED  BY <1>11, <1>13, <1>14 DEF TaskInv

\* At the end of the scan every line of the task is in TupleAckMap, and all are acknowledged.
LEMMA ScanDoneReport ==
  ASSUME ReportInd, Ind', Apart, NEW s \in Stage1, ScanDone(s)
  PROVE  TaskInv(s)'
<1>1. /\ s \in Tasks /\ Place[s] \in Workers /\ run[s].at = Place[s] /\ TaskInv(s) /\ run[s].pc = "scan"
      /\ run \in [Tasks -> RunRec] /\ run[s] \in RunRec /\ UNCHANGED <<call, ws, completed>>
  BY TaskCalls, Here DEF ReportInd, ScanDone, At, workerVars, leaderVars
<1>2. /\ run'[s].at = run[s].at /\ run'[s].seq = run[s].seq
      /\ \/ run'[s].pc = "finish" /\ run'[s].fin = s /\ AllAcknowledged(Place[s])
         \/ run'[s].pc = "sleep"
  BY <1>1 DEF ScanDone, RunRec
<1>3. PhaseInv(s)'
  BY <1>1, <1>2 DEF TaskInv, PhaseInv
<1>4. ASSUME run'[s].pc = "finish", NEW n \in LineNo, n < run[s].seq PROVE Given(s, n)
  <2>1. <<s, n>> \in Ids /\ ws[Place[s]].ackMap \in [Ids -> {"absent", "acked", "unacked"}]
    BY <1>1, Typed DEF Ids, ReportInd, Ind
  <2>2. ws[Place[s]].ackMap[<<s, n>>] \in {"absent", "acked", "unacked"}
    BY <2>1
  <2>3. ws[Place[s]].ackMap[<<s, n>>] # "unacked"
    BY <1>2, <1>4, <2>1 DEF AllAcknowledged
  <2>4. ws[Place[s]].ackMap[<<s, n>>] # "absent"
    BY <1>1, <1>4 DEF TaskInv, GivenInv
  <2>. QED  BY <2>2, <2>3, <2>4 DEF Given
<1>5. s \notin completed'
  BY <1>1 DEF TaskInv, PhaseInv
<1>6. \A n \in LineNo : (run'[s].pc = "finish" \/ s \in completed') /\ n < run[s].seq => Given(s, n)
  BY <1>4, <1>5
<1>. QED  BY <1>1, <1>2, <1>3, <1>6, TaskMoves

\* When nothing waits any more, everything was given.
LEMMA NothingWaits ==
  ASSUME ReportInd, NEW s \in Stage1, TaskInv(s), Len(ws[Place[s]].unacked) = 0
  PROVE  \A n \in LineNo : n < run[s].seq => Given(s, n)
<1>1. \A i \in 1 .. Len(ws[Place[s]].unacked) : FALSE
  OBVIOUS
<1>2. \A n \in LineNo : ~Listed(Place[s], <<s, n>>)
  BY <1>1 DEF Listed
<1>. QED  BY <1>2 DEF TaskInv, GivenInv

\* The retries: the task acts for itself, and ends when its list is empty.
LEMMA WakeReport ==
  ASSUME ReportInd, Ind', Apart, NEW s \in Stage1, Wake(s)
  PROVE  TaskInv(s)'
<1>. DEFINE q == ws[Place[s]].queue
<1>1. /\ s \in Tasks /\ Place[s] \in Workers /\ run[s].at = Place[s] /\ TaskInv(s) /\ run[s].pc = "sleep"
      /\ run \in [Tasks -> RunRec] /\ run[s] \in RunRec /\ UNCHANGED <<call, ws, completed>>
      /\ q \in Seq(Tasks)
  BY TaskCalls, Here, Typed DEF ReportInd, Wake, At, workerVars, leaderVars, Ind
<1>2. /\ run'[s].at = run[s].at /\ run'[s].seq = run[s].seq
      /\ \/ q = <<>> /\ run'[s].pc = "done"
         \/ /\ q # <<>> /\ run'[s].fin = Last(q)
            /\ run'[s].pc = (IF ws[Place[s]].unacked = <<>> THEN "finish" ELSE "lock")
  BY <1>1 DEF Wake, RunRec
<1>3. q # <<>> => Last(q) = s
  <2>1. SUFFICES ASSUME q # <<>> PROVE Last(q) = s
    OBVIOUS
  <2>2. Len(q) \in DOMAIN q /\ Last(q) = q[Len(q)]
    BY <1>1, <2>1 DEF Last
  <2>3. Last(q) \in Range(q)
    BY <2>2 DEF Range
  <2>. QED  BY <1>1, <2>3 DEF TaskInv, PhaseInv
<1>4. PhaseInv(s)'
  BY <1>1, <1>2, <1>3 DEF TaskInv, PhaseInv
<1>5. s \notin completed'
  BY <1>1 DEF TaskInv, PhaseInv
<1>6. ASSUME run'[s].pc = "finish" PROVE \A n \in LineNo : n < run[s].seq => Given(s, n)
  <2>1. Len(ws[Place[s]].unacked) = 0
    BY <1>2, <1>6
  <2>. QED  BY <1>1, <2>1, NothingWaits
<1>7. run'[s].pc \notin {"sending", "resending"}
  BY <1>2
<1>. QED  BY <1>1, <1>2, <1>4, <1>5, <1>6, <1>7, TaskMoves

LEMMA ResendEndReport ==
  ASSUME ReportInd, Ind', Apart, NEW s \in Stage1, ResendEnd(s)
  PROVE  TaskInv(s)'
<1>1. /\ s \in Tasks /\ Place[s] \in Workers /\ run[s].at = Place[s] /\ TaskInv(s) /\ run[s].pc = "resend"
      /\ run \in [Tasks -> RunRec] /\ run[s] \in RunRec /\ UNCHANGED <<call, completed>>
      /\ ws \in [Workers -> WorkerRec] /\ ws[Place[s]] \in WorkerRec
      /\ run[s].i > Len(ws[Place[s]].unacked)
  BY TaskCalls, Here DEF ReportInd, ResendEnd, At, leaderVars
<1>2. /\ run'[s].at = run[s].at /\ run'[s].seq = run[s].seq /\ run'[s].fin = run[s].fin
      /\ run'[s].pc = (IF run[s].allMax THEN "finish" ELSE "sleep")
  BY <1>1 DEF ResendEnd, Goto, RunRec
<1>3. /\ ws'[Place[s]].ackMap = ws[Place[s]].ackMap /\ ws'[Place[s]].unacked = ws[Place[s]].unacked
      /\ ws'[Place[s]].retries = ws[Place[s]].retries /\ ws'[Place[s]].queue = ws[Place[s]].queue
  BY <1>1 DEF ResendEnd, WorkerRec
<1>4. PhaseInv(s)'
  BY <1>1, <1>2, <1>3 DEF TaskInv, PhaseInv
<1>5. s \notin completed'
  BY <1>1 DEF TaskInv, PhaseInv
<1>6. ASSUME run'[s].pc = "finish" PROVE \A n \in LineNo : n < run[s].seq => Given(s, n)
  <2>1. run[s].i = 1
    BY <1>1, <1>2, <1>6 DEF TaskInv, PhaseInv
  <2>2. ws[Place[s]].unacked \in Seq(TupleRec)
    BY <1>1, Typed DEF ReportInd, Ind
  <2>3. Len(ws[Place[s]].unacked) = 0
    BY <1>1, <2>1, <2>2
  <2>. QED  BY <1>1, <2>3, NothingWaits
<1>7. run'[s].pc \notin {"sending", "resending"}
  BY <1>2
<1>. QED  BY <1>1, <1>2, <1>3, <1>4, <1>5, <1>6, <1>7, TaskMoves

\* SkipLine and LockForResend move the task alone; Finish reports it.
LEMMA MoveReport ==
  ASSUME ReportInd, Ind', Apart, NEW s \in Stage1, SkipLine(s) \/ LockForResend(s)
  PROVE  TaskInv(s)'
<1>1. /\ s \in Tasks /\ Place[s] \in Workers /\ run[s].at = Place[s] /\ TaskInv(s)
      /\ run \in [Tasks -> RunRec] /\ run[s] \in RunRec /\ UNCHANGED <<call, completed>>
      /\ ws \in [Workers -> WorkerRec] /\ ws[Place[s]] \in WorkerRec
      /\ run[s].pc \in {"scan", "lock"}
  BY TaskCalls, Here DEF ReportInd, SkipLine, LockForResend, At, leaderVars
<1>2. /\ run'[s].at = run[s].at /\ run'[s].seq = run[s].seq /\ run'[s].fin = run[s].fin
      /\ \/ run'[s].pc = "scan"
         \/ run[s].pc = "lock" /\ run'[s].pc = "resend" /\ run'[s].i = 1
  <2>1. CASE SkipLine(s)
    BY <1>1, <2>1 DEF SkipLine, At, RunRec
  <2>2. CASE LockForResend(s)
    BY <1>1, <2>2 DEF LockForResend, At, RunRec
  <2>. QED  BY <2>1, <2>2
<1>3. /\ ws'[Place[s]].ackMap = ws[Place[s]].ackMap /\ ws'[Place[s]].unacked = ws[Place[s]].unacked
      /\ ws'[Place[s]].retries = ws[Place[s]].retries /\ ws'[Place[s]].queue = ws[Place[s]].queue
  <2>1. CASE SkipLine(s)
    BY <2>1 DEF SkipLine, workerVars
  <2>2. CASE LockForResend(s)
    BY <1>1, <2>2 DEF LockForResend, WorkerRec
  <2>. QED  BY <2>1, <2>2
<1>4. PhaseInv(s)'
  BY <1>1, <1>2, <1>3 DEF TaskInv, PhaseInv
<1>5. s \notin completed'
  BY <1>1 DEF TaskInv, PhaseInv
<1>. QED  BY <1>1, <1>2, <1>3, <1>4, <1>5, TaskMoves

\* What is dropped from a queue leaves what was in it.
LEMMA DequeueRange ==
  ASSUME NEW S, NEW q \in Seq(S), NEW t
  PROVE  Range(Dequeue(q, t)) \subseteq Range(q)
<1>1. CASE \E i \in 1 .. Len(q) : q[i] = t
  <2>1. PICK i \in 1 .. Len(q) : Dequeue(q, t) = RemoveAt(q, i)
    BY <1>1 DEF Dequeue
  <2>2. /\ Len(RemoveAt(q, i)) = Len(q) - 1 /\ RemoveAt(q, i) \in Seq(S)
        /\ \A j \in 1 .. Len(q) - 1 : RemoveAt(q, i)[j] = IF j < i THEN q[j] ELSE q[j + 1]
    BY RemoveAtIs, RemoveAtType
  <2>3. ASSUME NEW j \in DOMAIN RemoveAt(q, i) PROVE \E k \in DOMAIN q : RemoveAt(q, i)[j] = q[k]
    <3>1. j \in 1 .. Len(q) - 1 /\ j \in DOMAIN q /\ j + 1 \in DOMAIN q
      BY <2>2
    <3>. QED  BY <2>2, <3>1
  <2>. QED  BY <2>1, <2>3 DEF Range
<1>2. CASE ~ \E i \in 1 .. Len(q) : q[i] = t
  BY <1>2 DEF Dequeue
<1>. QED  BY <1>1, <1>2

LEMMA FinishReport ==
  ASSUME ReportInd, Ind', Apart, NEW s \in Stage1, Finish(s)
  PROVE  TaskInv(s)' /\ completed' \in {completed, completed \cup {s}}
<1>1. /\ s \in Tasks /\ Place[s] \in Workers /\ run[s].at = Place[s] /\ TaskInv(s) /\ run[s].pc = "finish"
      /\ run \in [Tasks -> RunRec] /\ run[s] \in RunRec /\ UNCHANGED call
      /\ ws \in [Workers -> WorkerRec] /\ ws[Place[s]] \in WorkerRec
  BY TaskCalls, Here DEF ReportInd, Finish, At
<1>2. run[s].fin = s /\ \A n \in LineNo : n < run[s].seq => Given(s, n)
  BY <1>1 DEF TaskInv, PhaseInv, GivenInv
<1>3. run'[s].at = run[s].at /\ run'[s].seq = run[s].seq /\ run'[s].pc = "done"
  BY <1>1 DEF Finish, Goto, RunRec
<1>4. /\ ws'[Place[s]].ackMap = ws[Place[s]].ackMap /\ ws'[Place[s]].unacked = ws[Place[s]].unacked
      /\ ws'[Place[s]].retries = ws[Place[s]].retries
      /\ ws'[Place[s]].queue \in {ws[Place[s]].queue, Dequeue(ws[Place[s]].queue, s)}
  <2>1. ws' = ws \/ ws' = [ws EXCEPT ![Place[s]].queue = Dequeue(ws[Place[s]].queue, s)]
    BY <1>1, <1>2 DEF Finish
  <2>2. ws'[Place[s]].queue \in {ws[Place[s]].queue, Dequeue(ws[Place[s]].queue, s)}
    BY <1>1, <2>1 DEF WorkerRec
  <2>. QED  BY <1>1, <2>1, <2>2, ListsKept DEF ReportInd, Ind
<1>5. Range(ws'[Place[s]].queue) \subseteq {s}
  <2>1. Range(Dequeue(ws[Place[s]].queue, s)) \subseteq Range(ws[Place[s]].queue)
    BY <1>1, DequeueRange DEF WorkerRec
  <2>. QED  BY <1>1, <1>4, <2>1 DEF TaskInv, PhaseInv
<1>6. PhaseInv(s)'
  BY <1>3, <1>5 DEF PhaseInv
<1>7. completed' \in {completed, completed \cup {s}}
  BY <1>2 DEF Finish
<1>. QED  BY <1>1, <1>2, <1>3, <1>4, <1>6, <1>7, TaskMoves

\* A step of somebody else.
LEMMA ElsewhereReport ==
  ASSUME ReportInd, Ind', Apart, NEW s \in Stage1,
         \A c \in Calls : c[1] = Place[s] => (call'[c].st = "none" <=> call[c].st = "none"),
         ws'[Place[s]].ackMap = ws[Place[s]].ackMap,
         ws'[Place[s]].unacked = ws[Place[s]].unacked,
         ws'[Place[s]].retries = ws[Place[s]].retries,
         Range(ws'[Place[s]].queue) \subseteq Range(ws[Place[s]].queue),
         run'[s] = run[s], s \in completed' <=> s \in completed
  PROVE  TaskInv(s)'
<1>1. TaskInv(s)
  BY Here
<1>2. PhaseInv(s)'
  BY <1>1 DEF TaskInv, PhaseInv
<1>3. run[s].pc = "finish" \/ s \in completed => \A n \in LineNo : n < run[s].seq => Given(s, n)
  BY <1>1 DEF TaskInv, GivenInv
<1>. QED  BY <1>2, <1>3, TaskMoves

\* A task acts at its worker and moves itself alone.
LEMMA SenderActs ==
  ASSUME Ind, NEW t \in Stage1, Sender(t)
  PROVE  /\ up' = up
         /\ \A v \in Workers : v # run[t].at => ws'[v] = ws[v]
         /\ \A u \in Tasks : u # t => run'[u] = run[u]
         /\ run'[t].at = run[t].at /\ run'[t].pc # "failed"
         /\ \A c \in Calls : c[1] # run[t].at => call'[c] = call[c]
<1>1. /\ t \in Tasks /\ run[t].at \in Workers /\ run \in [Tasks -> RunRec] /\ run[t] \in RunRec
      /\ ws \in [Workers -> WorkerRec] /\ call \in [Calls -> CallRec]
  BY Typed DEF Tasks, Ind
<1>2. up' = up
  BY DEF Sender, StartTask, SkipLine, ScanSend, ScanDone, ScanReturn, ResendReturn, Wake, LockForResend,
         ResendSend, ResendEnd, Finish, workerVars
<1>3. \A v \in Workers : v # run[t].at => ws'[v] = ws[v]
  <2>1. CASE StartTask(t) \/ \E ack \in BOOLEAN : ScanReturn(t, ack) \/ ResendReturn(t, ack)
    BY <1>1, <2>1 DEF StartTask, ScanReturn, ResendReturn
  <2>2. CASE LockForResend(t) \/ ResendEnd(t) \/ Finish(t)
    BY <1>1, <2>2 DEF LockForResend, ResendEnd, Finish
  <2>3. CASE SkipLine(t) \/ ScanSend(t) \/ ScanDone(t) \/ Wake(t) \/ ResendSend(t)
    BY <2>3 DEF SkipLine, ScanSend, ScanDone, Wake, ResendSend, workerVars
  <2>. QED  BY <2>1, <2>2, <2>3 DEF Sender
<1>4. /\ \A u \in Tasks : u # t => run'[u] = run[u]
      /\ run'[t].at = run[t].at /\ run'[t].pc # "failed"
  <2>1. CASE StartTask(t) \/ ResendEnd(t) \/ Finish(t)
    <3>1. PICK pc : pc # "failed" /\ run' = [run EXCEPT ![t].pc = pc]
      BY <2>1 DEF StartTask, ResendEnd, Finish, Goto
    <3>. QED  BY <1>1, <3>1 DEF RunRec
  <2>2. CASE SkipLine(t)
    BY <1>1, <2>2 DEF SkipLine, At, RunRec
  <2>3. CASE ScanSend(t) \/ ResendSend(t)
    <3>1. \E n, pc : pc # "failed" /\ run' = [run EXCEPT ![t].pc = pc, ![t].n = n]
      <4>1. CASE ScanSend(t)
        BY <4>1 DEF ScanSend
      <4>2. CASE ResendSend(t)
        BY <4>2 DEF ResendSend
      <4>. QED  BY <2>3, <4>1, <4>2
    <3>. QED  BY <1>1, <3>1 DEF RunRec
  <2>4. CASE ScanDone(t) \/ Wake(t)
    <3>1. \E pc, fin : pc # "failed" /\ \/ run' = [run EXCEPT ![t].pc = pc]
                                        \/ run' = [run EXCEPT ![t].pc = pc, ![t].fin = fin]
      BY <2>4 DEF ScanDone, Wake
    <3>. QED  BY <1>1, <3>1 DEF RunRec
  <2>5. CASE LockForResend(t)
    BY <1>1, <2>5 DEF LockForResend, RunRec
  <2>6. CASE \E ack \in BOOLEAN : ScanReturn(t, ack)
    BY <1>1, <2>6 DEF ScanReturn, RunRec
  <2>7. CASE \E ack \in BOOLEAN : ResendReturn(t, ack)
    BY <1>1, <2>7 DEF ResendReturn, RunRec
  <2>. QED  BY <2>1, <2>2, <2>3, <2>4, <2>5, <2>6, <2>7 DEF Sender
<1>5. \A c \in Calls : c[1] # run[t].at => call'[c] = call[c]
  <2>1. CASE ScanSend(t) \/ ResendSend(t)
    <3>1. PICK id, n, line : Issue(<<run[t].at, id, n>>, line)
      BY <2>1 DEF ScanSend, ResendSend
    <3>2. PICK r : call' = [call EXCEPT ![<<run[t].at, id, n>>] = r]
      BY <3>1 DEF Issue
    <3>. QED  BY <1>1, <3>2
  <2>2. CASE call' = call
    BY <2>2
  <2>. QED  BY <2>1, <2>2 DEF Sender, StartTask, SkipLine, ScanDone, ScanReturn, ResendReturn, Wake,
               LockForResend, ResendEnd, Finish
<1>. QED  BY <1>2, <1>3, <1>4, <1>5

LEMMA ReceiverActs ==
  ASSUME Ind, NEW t \in Stage2, Receiver(t)
  PROVE  /\ UNCHANGED <<up, call, completed>>
         /\ \A v \in Workers : v # run[t].at => ws'[v] = ws[v]
         /\ \A u \in Tasks : u # t => run'[u] = run[u]
         /\ run'[t].at = run[t].at /\ run'[t].pc # "failed"
<1>1. /\ t \in Tasks /\ run[t].at \in Workers /\ run \in [Tasks -> RunRec] /\ run[t] \in RunRec
      /\ ws \in [Workers -> WorkerRec]
  BY Typed DEF Tasks, Ind
<1>2. UNCHANGED <<up, call, completed>>
  BY DEF Receiver, StartTask, PrepareBegin, LoadOutput, LoadAol, leaderVars
<1>3. \A v \in Workers : v # run[t].at => ws'[v] = ws[v]
  BY <1>1 DEF Receiver, StartTask, PrepareBegin, LoadOutput, LoadAol
<1>4. PICK pc : pc # "failed" /\ run' = [run EXCEPT ![t].pc = pc]
  BY DEF Receiver, StartTask, PrepareBegin, LoadOutput, LoadAol, Goto
<1>. QED  BY <1>1, <1>2, <1>3, <1>4 DEF RunRec

\* A step that changes another field of a worker leaves its queue alone.
LEMMA QueueKept ==
  ASSUME TypeOK, NEW w \in Workers, NEW x,
         \/ ws' = ws
         \/ ws' = [ws EXCEPT ![w].mu = x]
         \/ ws' = [ws EXCEPT ![w].parts = x]
         \/ ws' = [ws EXCEPT ![w].outputMap = x]
  PROVE  \A v \in Workers : ws'[v].queue = ws[v].queue
<1>. DEFINE me == ws[w]
            Same(r) == r.queue = me.queue
<1>1. Same([me EXCEPT !.mu = x]) /\ Same([me EXCEPT !.parts = x]) /\ Same([me EXCEPT !.outputMap = x])
  BY Typed DEF WorkerRec
<1>. HIDE DEF Same
<1>2. ws' = ws \/ \E r : ws' = [ws EXCEPT ![w] = r] /\ Same(r)
  BY <1>1
<1>. QED  BY <1>2, Typed DEF Same

\* A handler answers a call that was made, and leaves the queues alone.
LEMMA HandlerActs ==
  ASSUME Ind, NEW c \in Calls, Handler(c)
  PROVE  /\ \A d \in Calls : call'[d].st = "none" <=> call[d].st = "none"
         /\ \A v \in Workers : ws'[v].queue = ws[v].queue
<1>1. /\ call \in [Calls -> CallRec] /\ call[c] \in CallRec /\ call[c].to \in Workers
      /\ ws \in [Workers -> WorkerRec]
  BY Typed DEF Ind
<1>2. call[c].st # "none"
  BY DEF Handler, Accept, OpenError, Duplicate, NoReceiverTask, Take, Op2, Op2Error, WriteOutput,
         WriteError, LogAndAck, LogError, Is
<1>3. \E st, ep, cnt : /\ st # "none"
                       /\ \/ call' = [call EXCEPT ![c].st = st]
                          \/ call' = [call EXCEPT ![c].st = st, ![c].ep = ep]
                          \/ call' = [call EXCEPT ![c].st = st, ![c].ep = ep, ![c].cnt = cnt]
                          \/ call' = [call EXCEPT ![c].st = st, ![c].cnt = @ + 1]
  <2>1. CASE NoReceiverTask(c)
    BY <2>1 DEF NoReceiverTask
  <2>2. CASE Take(c)
    BY <2>2 DEF Take
  <2>3. CASE Op2(c)
    BY <2>3 DEF Op2
  <2>4. CASE ~(NoReceiverTask(c) \/ Take(c) \/ Op2(c))
    BY <2>4 DEF Handler, Accept, OpenError, Duplicate, Op2Error, WriteOutput, WriteError,
                LogAndAck, LogError, Becomes
  <2>. QED  BY <2>1, <2>2, <2>3, <2>4
<1>4. \A d \in Calls : call'[d].st = "none" <=> call[d].st = "none"
  BY <1>1, <1>2, <1>3 DEF CallRec
<1>5. \/ ws' = ws
      \/ \E x : ws' = [ws EXCEPT ![call[c].to].mu = x]
      \/ \E x : ws' = [ws EXCEPT ![call[c].to].outputMap = x]
  <2>1. CASE Op2(c)
    BY <2>1 DEF Op2
  <2>2. CASE ~ Op2(c)
    BY <2>2 DEF Handler, Accept, OpenError, Duplicate, NoReceiverTask, Take, Op2Error, WriteOutput,
               WriteError, LogAndAck, LogError, Unlock, workerVars
  <2>. QED  BY <2>1, <2>2
<1>6. TypeOK
  BY DEF Ind
<1>7. \A v \in Workers : ws'[v].queue = ws[v].queue
  BY <1>1, <1>5, <1>6, QueueKept
<1>. QED  BY <1>4, <1>7

LEMMA ReportNext == ASSUME ReportInd, Ind', Apart, Next PROVE ReportInv'
<1>1. /\ PlacedInv /\ Stage1 \subseteq Tasks /\ Stage2 \subseteq Tasks /\ Stage1 \cap Stage2 = {}
      /\ \A s \in Stage1 : Place[s] \in Workers /\ run[s].at = Place[s]
      /\ ws \in [Workers -> WorkerRec] /\ run \in [Tasks -> RunRec] /\ Ind
      /\ \A t \in Tasks : run[t].at = Place[t] /\ Place[t] \in Workers
  BY TasksAssumption, Typed DEF Tasks, ReportInd, ReportInv, PlacedInv, Ind
<1>2. \A s \in Stage1, t \in Tasks : t # s => Place[t] # Place[s]
  BY DEF Apart
<1>3. ASSUME NEW t \in Stage1, Sender(t) PROVE ReportInv'
  <2>1. TaskInv(t)'
    BY <1>3, StartTaskReport, MoveReport, ScanSendReport, ScanDoneReport, ScanReturnReport,
       ResendReturnReport, WakeReport, ResendSendReport, ResendEndReport, FinishReport DEF Sender
  <2>2. PlacedInv'
    BY <1>1, <1>3, SenderActs DEF PlacedInv
  <2>3. completed' \in {completed, completed \cup {t}}
    <3>1. CASE Finish(t)
      BY <3>1, FinishReport
    <3>2. CASE ~Finish(t)
      BY <1>3, <3>2 DEF Sender, StartTask, SkipLine, ScanSend, ScanDone, ScanReturn, ResendReturn, Wake,
                        LockForResend, ResendSend, ResendEnd, leaderVars
    <3>. QED  BY <3>1, <3>2
  <2>4. ASSUME NEW s \in Stage1, s # t PROVE TaskInv(s)'
    <3>1. Place[s] # run[t].at
      BY <1>1, <1>2, <2>4
    <3>2. ws'[Place[s]] = ws[Place[s]] /\ run'[s] = run[s]
          /\ \A c \in Calls : c[1] = Place[s] => call'[c] = call[c]
      BY <1>1, <1>3, <2>4, <3>1, SenderActs
    <3>3. s \in completed' <=> s \in completed
      BY <2>3, <2>4
    <3>. QED  BY <3>2, <3>3, ElsewhereReport
  <2>. QED  BY <2>1, <2>2, <2>4 DEF ReportInv
<1>4. ASSUME NEW t \in Stage2, Receiver(t) PROVE ReportInv'
  <2>1. PlacedInv'
    BY <1>1, <1>4, ReceiverActs DEF PlacedInv
  <2>2. ASSUME NEW s \in Stage1 PROVE TaskInv(s)'
    <3>1. s # t /\ Place[s] # run[t].at
      BY <1>1, <1>2
    <3>2. ws'[Place[s]] = ws[Place[s]] /\ run'[s] = run[s] /\ UNCHANGED <<call, completed>>
      BY <1>1, <1>4, <3>1, ReceiverActs
    <3>. QED  BY <3>2, ElsewhereReport
  <2>. QED  BY <2>1, <2>2 DEF ReportInv
<1>5. ASSUME NEW c \in Calls, Handler(c) PROVE ReportInv'
  <2>1. /\ UNCHANGED <<up, run, completed>>
        /\ \A v \in Workers : /\ ws'[v].ackMap = ws[v].ackMap
                              /\ ws'[v].unacked = ws[v].unacked
                              /\ ws'[v].retries = ws[v].retries
                              /\ ws'[v].queue = ws[v].queue
        /\ \A d \in Calls : call'[d].st = "none" <=> call[d].st = "none"
    BY <1>1, <1>5, HandlerLists, HandlerActs
  <2>2. PlacedInv'
    BY <1>1, <2>1 DEF PlacedInv
  <2>3. ASSUME NEW s \in Stage1 PROVE TaskInv(s)'
    BY <1>1, <2>1, ElsewhereReport
  <2>. QED  BY <2>2, <2>3 DEF ReportInv
<1>6. ASSUME NEW w \in Workers PROVE ~Crash(w)
  <2>1. crashes \in 0 .. 0
    BY DEF Apart, ReportInd, Ind, TypeOK
  <2>. QED  BY <2>1 DEF Crash, Apart
<1>7. \A t \in Tasks, w \in Workers : ~Reschedule(t, w)
  BY <1>1 DEF PlacedInv, Reschedule
<1>8. ASSUME UNCHANGED <<up, run, call>>,
             \A v \in Workers : /\ ws'[v].ackMap = ws[v].ackMap
                                /\ ws'[v].unacked = ws[v].unacked
                                /\ ws'[v].retries = ws[v].retries
                                /\ Range(ws'[v].queue) \subseteq Range(ws[v].queue),
             \A s \in Stage1 : s \in completed' <=> s \in completed
      PROVE  ReportInv'
  <2>1. PlacedInv'
    BY <1>1, <1>8 DEF PlacedInv
  <2>2. ASSUME NEW s \in Stage1 PROVE TaskInv(s)'
    BY <1>1, <1>8, ElsewhereReport
  <2>. QED  BY <2>1, <2>2 DEF ReportInv
<1>9. ASSUME NEW u \in updates, UpdateTask(u) PROVE ReportInv'
  <2>1. TypeOK /\ run[u[1]].at \in Workers
    BY <1>1, <1>9, Typed DEF Ind, TypeOK
  <2>2. ws' = ws \/ ws' = [ws EXCEPT ![run[u[1]].at].parts = u[2]]
    BY <1>9 DEF UpdateTask
  <2>3. \A v \in Workers : ws'[v].queue = ws[v].queue
    BY <2>1, <2>2, QueueKept
  <2>. QED  BY <1>8, <1>9, <2>1, <2>2, <2>3, ListsKept DEF UpdateTask
<1>10. ASSUME NEW t \in Stage2, NotifyReceiver(t) PROVE ReportInv'
  <2>. DEFINE w == run[t].at
  <2>1. TypeOK /\ w \in Workers /\ ws[w].queue \in Seq(Tasks)
    BY <1>1 DEF Ind, WorkerRec
  <2>2. ws' = ws \/ ws' = [ws EXCEPT ![w].queue = Dequeue(ws[w].queue, t)]
    BY <1>10 DEF NotifyReceiver
  <2>3. \A v \in Workers : ws'[v].queue = ws[v].queue \/ (v = w /\ ws'[v].queue = Dequeue(ws[w].queue, t))
    <3>. DEFINE d == Dequeue(ws[w].queue, t)
                r == [ws[w] EXCEPT !.queue = d]
    <3>1. r.queue = d
      BY <1>1, <2>1 DEF WorkerRec
    <3>2. ws' = ws \/ ws' = [ws EXCEPT ![w] = r]
      BY <2>2
    <3>. HIDE DEF d, r
    <3>3. \A v \in Workers : ws'[v] = ws[v] \/ (v = w /\ ws'[v] = r)
      BY <1>1, <2>1, <3>2
    <3>. QED  BY <3>1, <3>3 DEF d
  <2>4. Range(Dequeue(ws[w].queue, t)) \subseteq Range(ws[w].queue)
    BY <2>1, DequeueRange
  <2>5. \A v \in Workers : Range(ws'[v].queue) \subseteq Range(ws[v].queue)
    BY <2>3, <2>4
  <2>6. \A v \in Workers : /\ ws'[v].ackMap = ws[v].ackMap
                           /\ ws'[v].unacked = ws[v].unacked
                           /\ ws'[v].retries = ws[v].retries
    BY <2>1, <2>2, ListsKept
  <2>7. \A s \in Stage1 : s \in completed' <=> s \in completed
    BY <1>1, <1>10 DEF NotifyReceiver
  <2>. QED  BY <1>8, <1>10, <2>5, <2>6, <2>7 DEF NotifyReceiver
<1>. QED  BY <1>3, <1>4, <1>5, <1>6, <1>7, <1>9, <1>10 DEF Next, Leader

LEMMA ReportStutters == ASSUME ReportInd, Ind', Apart, UNCHANGED vars PROVE ReportInv'
<1>1. UNCHANGED <<up, ws, run, call, completed>>
  BY DEF vars, workerVars, leaderVars
<1>2. PlacedInv'
  BY <1>1 DEF ReportInd, ReportInv, PlacedInv
<1>3. ASSUME NEW s \in Stage1 PROVE TaskInv(s)'
  BY <1>1, ElsewhereReport
<1>. QED  BY <1>2, <1>3 DEF ReportInv

\* The settled end of a task that was reported.
LEMMA ReportImplies == ASSUME ReportInd PROVE ReportedIsSettled
<1>1. SUFFICES ASSUME NEW t \in Stage1 \cap completed, NEW n \in LineNo,
                      call[<<run[t].at, <<t, n>>, 0>>].st # "none"
               PROVE  \/ ws[run[t].at].ackMap[<<t, n>>] = "acked"
                      \/ call[<<run[t].at, <<t, n>>, MAX_RETRY_COUNT + 1>>].st # "none"
  BY DEF ReportedIsSettled
<1>2. run[t].at = Place[t] /\ TaskInv(t)
  BY TasksAssumption DEF ReportInd, ReportInv, PlacedInv, Tasks
<1>3. Called(t, n, 0) /\ run[t].pc = "done"
  BY <1>1, <1>2 DEF Called, TaskInv, PhaseInv
<1>4. Given(t, n)
  BY <1>2, <1>3 DEF TaskInv, CountInv, GivenInv
<1>. QED  BY <1>2, <1>4 DEF Given, Called

\* A stage-1 task that has a worker of its own, in a job in which no worker fails, is
\* reported to the leader only when each tuple it sent is acknowledged or was sent
\* MAX_RETRY_COUNT + 2 times (utils-tasks.go:190-207, 331-385), for any number of tasks,
\* lines, retries and faults.
THEOREM ReportedSettled == ASSUME Apart PROVE Spec => []ReportedIsSettled
<1>1. Init => ReportInv
  BY InitReport
<1>2. ReportInv /\ (Ind /\ SendInv) /\ (Ind /\ SendInv)' /\ [Next]_vars => ReportInv'
  BY ReportNext, ReportStutters DEF ReportInd
<1>3. ReportInv /\ (Ind /\ SendInv) => ReportedIsSettled
  BY ReportImplies DEF ReportInd
<1>. QED  BY <1>1, <1>2, <1>3, SendInvariant, PTL DEF Spec
=============================================================================
