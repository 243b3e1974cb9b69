------------------------------- MODULE LinkProofs -------------------------------
(***************************************************************************)
(* Proofs about the link, for every set of inverters and any number of     *)
(* connections and writes: a validation stands for one probe on the        *)
(* present connection, and a write goes out on the connection it was       *)
(* decided on.                                                             *)
(***************************************************************************)
EXTENDS NativeLink, SequenceTheorems, FiniteSetTheorems, TLAPS

-----------------------------------------------------------------------------
(* The inductive invariant *)

\* What a probe has read so far, all of it on one connection.
ReadSoFar(read) ==
    \E n \in Numbers : read \in {{}, {<<"model", n>>}, {<<"model", n>>, <<"tou", n>>}}
\* A verdict without a reason against it rests on all the parts, of the connection it notes.
Rests(probe, read) == probe.reason = "none" => read = Parts \X {probe.on}
\* A write was decided on the connection it is for.
Decided(r) == r.of = "writer" => r.proven = r.on

ClientOK == client \in [started : {"no", "connecting", "yes"}, up : BOOLEAN, closed : BOOLEAN,
                        needed : BOOLEAN, number : Numbers]
ReaderOK == reader \in [Readers -> {"idle", "starting", "waiting"}]
ProbesOK ==
    /\ job \in [kind : {"none", "poll", "probe"}, unit : Inverters, read : Proofs]
    /\ probes \in [Inverters -> [reason : {"none", "caching_on", "unproven"}, on : Numbers]]
    /\ gatewayCaching \in BOOLEAN /\ proof \in [Inverters -> Proofs]
    /\ ReadSoFar(job.read) /\ \A u \in Inverters : Rests(probes[u], proof[u])
RequestsOK ==
    /\ queue \in Seq(Requests) /\ sending \subseteq Requests /\ (sending = {} \/ \E r : sending = {r})
    /\ \A i \in 1 .. Len(queue) : Decided(queue[i])
    /\ \A r \in sending : Decided(r)
LinkInv == ClientOK /\ ReaderOK /\ ProbesOK /\ RequestsOK /\ writesLeft \in 0 .. Writes

\* The connections' numbers.
LEMMA NumbersFacts == Connections \in Nat /\ 0 \in Numbers /\ Numbers \subseteq Nat
BY LinkAssumption DEF Numbers

\* Nobody's job.
LEMMA NoJobFacts ==
  /\ NoJob \in [kind : {"none", "poll", "probe"}, unit : Inverters, read : Proofs]
  /\ ReadSoFar(NoJob.read) /\ ReadSoFar({})
  /\ NoProbe \in [reason : {"none", "caching_on", "unproven"}, on : Numbers]
  /\ NoProbe.reason # "none"
<1>1. (CHOOSE u \in Inverters : TRUE) \in Inverters
  BY LinkAssumption
<1>2. {} \in Proofs /\ ReadSoFar({})
  BY NumbersFacts DEF Proofs, ReadSoFar
<1> QED
  BY <1>1, <1>2, NumbersFacts DEF NoJob, NoProbe

\* The part that is read next.
LEMMA NextPart ==
  ASSUME NEW n \in Numbers
  PROVE  /\ Next3({}) = "model" /\ Next3({<<"model", n>>}) = "tou"
         /\ Next3({<<"model", n>>, <<"tou", n>>}) = "timing"
<1> DEFINE x == <<"model", n>>
           y == <<"tou", n>>
<1>1. y \notin {x}
  OBVIOUS
<1> HIDE DEF x, y
<1>2. Cardinality({x}) = 1 /\ IsFiniteSet({x})
  BY FS_Singleton
<1>3. Cardinality({x} \union {y}) = 2
  <2>1. Cardinality({x} \union {y}) = 1 + 1
    BY <1>1, <1>2, FS_AddElement
  <2> QED
    BY <2>1
<1>4. {x} \union {y} = {x, y} /\ {x} # {} /\ {x, y} # {}
  OBVIOUS
<1>5. Cardinality({x, y}) = 2
  BY <1>3, <1>4
<1>6. Next3({}) = "model"
  BY DEF Next3
<1>7. Next3({x}) = "tou"
  BY <1>2, <1>4 DEF Next3
<1>8. Next3({x, y}) = "timing"
  BY <1>4, <1>5 DEF Next3
<1> QED
  BY <1>6, <1>7, <1>8 DEF x, y

\* A part read on the connection of the others.
LEMMA PartFacts ==
  ASSUME NEW read, ReadSoFar(read), NEW on \in Numbers
  PROVE  LET part == Next3(read)
             more == read \union {<<part, on>>}
         IN  /\ read \in Proofs => more \in Proofs
             /\ SameConnection(read, on) /\ part # "timing" => ReadSoFar(more)
             /\ SameConnection(read, on) /\ part = "timing" => more = Parts \X {on}
<1>1. PICK n \in Numbers : read \in {{}, {<<"model", n>>}, {<<"model", n>>, <<"tou", n>>}}
  BY DEF ReadSoFar
<1>2. CASE read = {}
  <2>1. Next3(read) = "model" /\ read \union {<<"model", on>>} = {<<"model", on>>}
    BY <1>1, <1>2, NextPart
  <2>2. {<<"model", on>>} \in Proofs /\ ReadSoFar({<<"model", on>>})
    BY DEF Proofs, Parts, ReadSoFar
  <2> QED
    BY <2>1, <2>2
<1>3. CASE read = {<<"model", n>>}
  <2>1. Next3(read) = "tou"
    BY <1>3, NextPart
  <2>2. SameConnection(read, on) => n = on
    BY <1>3 DEF SameConnection
  <2>3. read \union {<<"tou", on>>} \in Proofs
    BY <1>3 DEF Proofs, Parts
  <2>4. n = on => read \union {<<"tou", on>>} = {<<"model", on>>, <<"tou", on>>}
    BY <1>3
  <2>5. ReadSoFar({<<"model", on>>, <<"tou", on>>})
    BY DEF ReadSoFar
  <2> QED
    BY <2>1, <2>2, <2>3, <2>4, <2>5
<1>4. CASE read = {<<"model", n>>, <<"tou", n>>}
  <2>1. Next3(read) = "timing"
    BY <1>4, NextPart
  <2>2. SameConnection(read, on) => n = on
    BY <1>4 DEF SameConnection
  <2>3. read \union {<<"timing", on>>} \in Proofs
    BY <1>4 DEF Proofs, Parts
  <2>4. n = on => read \union {<<"timing", on>>} = Parts \X {on}
    BY <1>4 DEF Parts
  <2> QED
    BY <2>1, <2>2, <2>3, <2>4
<1> QED
  BY <1>1, <1>2, <1>3, <1>4

-----------------------------------------------------------------------------
(* The devices *)

\* A recorded verdict.
LEMMA RecordKeeps ==
  ASSUME ClientOK, ReaderOK, ProbesOK, NEW reason \in {"none", "caching_on", "unproven"},
         NEW read \in Proofs, reason = "none" => read = Parts \X {client.number},
         Record(reason, read), gatewayCaching' \in BOOLEAN
  PROVE  ProbesOK' /\ ReaderOK'
<1> DEFINE probe == [reason |-> reason, on |-> client.number]
           kept  == IF reason = "none" THEN read ELSE {}
<1>1. probe \in [reason : {"none", "caching_on", "unproven"}, on : Numbers]
      /\ kept \in Proofs /\ Rests(probe, kept)
  BY DEF ClientOK, Proofs, Rests
<1>2. /\ probes' = [probes EXCEPT ![job.unit] = probe]
      /\ proof' = [proof EXCEPT ![job.unit] = kept]
      /\ job' = NoJob /\ reader' = [reader EXCEPT !["devices"] = "idle"]
  BY DEF Record
<1> HIDE DEF probe, kept
<1>3. job'.read = NoJob.read
  BY <1>2
<1>4. probes' \in [Inverters -> [reason : {"none", "caching_on", "unproven"}, on : Numbers]]
      /\ proof' \in [Inverters -> Proofs]
      /\ \A u \in Inverters : Rests(probes'[u], proof'[u])
  BY <1>1, <1>2 DEF ProbesOK
<1>5. ReaderOK'
  BY <1>2 DEF ReaderOK, Readers
<1> QED
  BY <1>2, <1>4, <1>5, NoJobFacts DEF ProbesOK

\* A part of a probe.
LEMMA PartReadKeeps ==
  ASSUME ClientOK, ReaderOK, ProbesOK, PartRead(client.number)
  PROVE  ProbesOK' /\ ReaderOK'
<1> DEFINE on   == client.number
           part == Next3(job.read)
           read == job.read \union {<<part, on>>}
<1>1. on \in Numbers /\ job.read \in Proofs /\ ReadSoFar(job.read)
  BY DEF ClientOK, ProbesOK
<1>2. /\ read \in Proofs
      /\ SameConnection(job.read, on) /\ part # "timing" => ReadSoFar(read)
      /\ SameConnection(job.read, on) /\ part = "timing" => read = Parts \X {on}
  BY <1>1, PartFacts
<1>3. CASE ~SameConnection(job.read, on)
  <2>1. Record("unproven", read) /\ UNCHANGED gatewayCaching
    BY <1>3 DEF PartRead
  <2> HIDE DEF read, on
  <2> QED
    BY <1>2, <2>1, RecordKeeps DEF ProbesOK
<1>4. CASE SameConnection(job.read, on) /\ part = "timing"
  <2>1. \E reason \in {"none", "caching_on", "unproven"} :
          Record(reason, read) /\ gatewayCaching' \in BOOLEAN
    BY <1>4 DEF PartRead
  <2> HIDE DEF read
  <2> QED
    BY <1>2, <1>4, <2>1, RecordKeeps
<1>5. CASE SameConnection(job.read, on) /\ part # "timing"
  <2>1. /\ job' = [job EXCEPT !.read = read]
        /\ reader' = [reader EXCEPT !["devices"] = "starting"]
        /\ UNCHANGED <<probes, proof, gatewayCaching>>
    BY <1>5 DEF PartRead
  <2> HIDE DEF read
  <2>2. job' \in [kind : {"none", "poll", "probe"}, unit : Inverters, read : Proofs]
        /\ job'.read = read
    BY <1>2, <2>1 DEF ProbesOK
  <2>3. ReaderOK'
    BY <2>1 DEF ReaderOK, Readers
  <2> QED
    BY <1>2, <1>5, <2>1, <2>2, <2>3 DEF ProbesOK
<1> QED
  BY <1>3, <1>4, <1>5

\* Whatever a request's answer does for who waits for it.
LEMMA ResumeKeeps ==
  ASSUME ClientOK, ReaderOK, ProbesOK, NEW of \in Readers \union {"writer"}, NEW how, NEW on,
         Resume(of, how, on), how = "ok" => on = client.number
  PROVE  ProbesOK' /\ ReaderOK'
<1>1. CASE of = "writer"
  BY <1>1 DEF Resume, Devices, ProbesOK, ReaderOK
<1>2. CASE of = "flow"
  <2>1. reader' = [reader EXCEPT !["flow"] = "idle"] /\ UNCHANGED Devices
    BY <1>2 DEF Resume
  <2> QED
    BY <2>1 DEF Devices, ProbesOK, ReaderOK, Readers
<1>3. CASE of = "devices" /\ (job.kind = "poll" \/ client'.closed)
  <2>1. job' = NoJob /\ reader' = [reader EXCEPT !["devices"] = "idle"]
        /\ UNCHANGED <<probes, gatewayCaching, proof>>
    BY <1>3 DEF Resume
  <2>2. ReaderOK'
    BY <2>1 DEF ReaderOK, Readers
  <2> QED
    BY <2>1, <2>2, NoJobFacts DEF ProbesOK
<1>4. CASE of = "devices" /\ ~(job.kind = "poll" \/ client'.closed)
  <2>1. IF how = "ok" THEN PartRead(on)
        ELSE Record("unproven", job.read) /\ UNCHANGED gatewayCaching
    BY <1>4 DEF Resume
  <2>2. CASE how = "ok"
    BY <2>1, <2>2, PartReadKeeps
  <2>3. CASE how # "ok"
    <3>1. job.read \in Proofs
      BY DEF ProbesOK
    <3>2. gatewayCaching' \in BOOLEAN
      BY <2>1, <2>3 DEF ProbesOK
    <3> QED
      BY <2>1, <2>3, <3>1, <3>2, RecordKeeps
  <2> QED
    BY <2>2, <2>3
<1> QED
  BY <1>1, <1>2, <1>3, <1>4 DEF Readers

-----------------------------------------------------------------------------
(* The connection and the requests *)

\* The connection comes and goes; a new one takes the next number.
LEMMA ClientKeeps ==
  ASSUME LinkInv, StartConnect \/ ConnectEnds \/ Reconnect \/ PeerCloses \/ Close
  PROVE  LinkInv'
<1>1. client.number + 1 \in Numbers \/ ~(client.number < Connections)
  BY NumbersFacts DEF LinkInv, ClientOK, Numbers
<1>2. ClientOK'
  <2>1. CASE StartConnect \/ PeerCloses \/ Close
    BY <2>1 DEF StartConnect, PeerCloses, Close, LinkInv, ClientOK
  <2>2. CASE Reconnect
    BY <1>1, <2>2 DEF Reconnect, Connected, LinkInv, ClientOK
  <2>3. CASE ConnectEnds
    BY <1>1, <2>3 DEF ConnectEnds, Connected, Disconnect, LinkInv, ClientOK
  <2> QED
    BY <2>1, <2>2, <2>3
<1>3. UNCHANGED <<queue, sending, reader, job, probes, gatewayCaching, proof, writesLeft>>
  BY DEF StartConnect, ConnectEnds, Reconnect, PeerCloses, Close, Traffic, Devices
<1> QED
  BY <1>2, <1>3 DEF LinkInv, ReaderOK, ProbesOK, RequestsOK

\* A reader asks, or is told that it cannot.
LEMMA ProceedKeeps ==
  ASSUME LinkInv, NEW r \in Readers, Proceed(r)
  PROVE  LinkInv'
<1>1. UNCHANGED <<sending, writesLeft>>
  BY DEF Proceed
<1>2. CASE client.closed \/ ~client.up
  <2>1. client' = [client EXCEPT !.needed = @ \/ ~client.closed]
        /\ Resume(r, "disconnected", 0) /\ UNCHANGED queue
    BY <1>2 DEF Proceed
  <2>2. ClientOK'
    BY <2>1 DEF LinkInv, ClientOK
  <2>3. ProbesOK' /\ ReaderOK'
    BY <2>1, ResumeKeeps DEF LinkInv
  <2> QED
    BY <1>1, <2>1, <2>2, <2>3 DEF LinkInv, RequestsOK
<1>3. CASE ~(client.closed \/ ~client.up)
  <2> DEFINE ask == [of |-> r, on |-> client.number, proven |-> 0]
  <2>1. queue' = Append(queue, ask) /\ reader' = [reader EXCEPT ![r] = "waiting"]
        /\ UNCHANGED <<client, Devices>>
    BY <1>3 DEF Proceed
  <2>2. ask \in Requests /\ Decided(ask)
    BY NumbersFacts DEF Requests, Decided, LinkInv, ClientOK, Readers
  <2> HIDE DEF ask
  <2>3. queue' \in Seq(Requests) /\ \A i \in 1 .. Len(queue') : Decided(queue'[i])
    BY <2>1, <2>2 DEF LinkInv, RequestsOK
  <2>4. ReaderOK'
    BY <2>1 DEF LinkInv, ReaderOK
  <2> QED
    BY <1>1, <2>1, <2>3, <2>4 DEF LinkInv, ClientOK, ProbesOK, RequestsOK, Devices
<1> QED
  BY <1>2, <1>3

\* A write is asked on the connection its inverter was validated on.
LEMMA WriteKeeps ==
  ASSUME LinkInv, AskWrite
  PROVE  LinkInv'
<1> DEFINE ask == [of |-> "writer", on |-> client.number, proven |-> client.number]
<1>1. queue' = <<ask>> \o queue /\ writesLeft' = writesLeft - 1 /\ writesLeft > 0
      /\ UNCHANGED <<client, sending, reader, Devices>>
  BY DEF AskWrite
<1>2. ask \in Requests /\ Decided(ask)
  BY DEF Requests, Decided, LinkInv, ClientOK
<1> HIDE DEF ask
<1>3. <<ask>> \in Seq(Requests) /\ Len(<<ask>>) = 1 /\ <<ask>>[1] = ask
      /\ queue \in Seq(Requests)
  BY <1>2 DEF LinkInv, RequestsOK
<1>4. queue' \in Seq(Requests)
  BY <1>1, <1>3, ConcatProperties
<1>5. \A i \in 1 .. Len(queue') : Decided(queue'[i])
  <2>1. SUFFICES ASSUME NEW i \in 1 .. Len(queue') PROVE Decided(queue'[i])
    OBVIOUS
  <2>2. Len(queue') = 1 + Len(queue) /\ Len(queue) \in Nat
    BY <1>1, <1>3, ConcatProperties
  <2>3. CASE i = 1
    <3>1. queue'[i] = ask
      BY <1>1, <1>3, <2>2, <2>3, ConcatProperties
    <3> QED
      BY <1>2, <3>1
  <2>4. CASE i # 1
    <3>1. i - 1 \in 1 .. Len(queue) /\ queue'[i] = queue[i - 1]
      BY <1>1, <1>3, <2>2, <2>4, ConcatProperties
    <3> QED
      BY <3>1 DEF LinkInv, RequestsOK
  <2> QED
    BY <2>3, <2>4
<1>6. writesLeft' \in 0 .. Writes
  BY <1>1, LinkAssumption DEF LinkInv
<1> QED
  BY <1>1, <1>4, <1>5, <1>6 DEF LinkInv, ClientOK, ReaderOK, ProbesOK, RequestsOK, Devices

\* The head of the queue is one of its requests, and its tail holds the others.
LEMMA HeadTail ==
  ASSUME RequestsOK, queue # <<>>
  PROVE  /\ Head(queue) \in Requests /\ Decided(Head(queue))
         /\ Tail(queue) \in Seq(Requests)
         /\ \A i \in 1 .. Len(Tail(queue)) : Decided(Tail(queue)[i])
<1>1. queue \in Seq(Requests) /\ Len(queue) \in Nat /\ Len(queue) >= 1
      /\ Len(Tail(queue)) = Len(queue) - 1
  BY DEF RequestsOK
<1>2. \A i \in 1 .. Len(Tail(queue)) : Tail(queue)[i] = queue[i + 1] /\ i + 1 \in 1 .. Len(queue)
  BY <1>1
<1>3. Head(queue) = queue[1]
  BY <1>1
<1> QED
  BY <1>1, <1>2, <1>3 DEF RequestsOK

\* The worker takes a request, and sends it only on its own connection.
LEMMA TakeKeeps ==
  ASSUME LinkInv, Take
  PROVE  /\ LinkInv'
         /\ \A r \in sending' \ sending : r.of = "writer" => r.proven = client'.number
<1> DEFINE r == Head(queue)
<1>1. r \in Requests /\ Decided(r) /\ Tail(queue) \in Seq(Requests) /\ sending = {}
      /\ queue' = Tail(queue)
      /\ \A i \in 1 .. Len(Tail(queue)) : Decided(Tail(queue)[i])
  BY HeadTail DEF Take, LinkInv
<1>2. UNCHANGED writesLeft
  BY DEF Take
<1>3. CASE OwnLink(r)
  <2>1. sending' = {r} /\ UNCHANGED <<client, reader, Devices>>
    BY <1>3 DEF Take
  <2>2. r.on = client.number
    BY <1>3 DEF OwnLink
  <2> HIDE DEF r
  <2>3. RequestsOK'
    BY <1>1, <2>1 DEF RequestsOK
  <2> QED
    BY <1>1, <1>2, <2>1, <2>2, <2>3 DEF LinkInv, ClientOK, ReaderOK, ProbesOK, Decided, Devices
<1>4. CASE ~OwnLink(r)
  <2>1. client' = [client EXCEPT !.needed = @ \/ ~client.up]
        /\ Resume(r.of, "disconnected", 0) /\ UNCHANGED sending
    BY <1>4 DEF Take
  <2> HIDE DEF r
  <2>2. r.of \in Readers \union {"writer"}
    BY <1>1 DEF Requests
  <2>3. ClientOK'
    BY <2>1 DEF LinkInv, ClientOK
  <2>4. ProbesOK' /\ ReaderOK'
    BY <2>1, <2>2, ResumeKeeps DEF LinkInv
  <2>5. RequestsOK'
    BY <1>1, <2>1 DEF LinkInv, RequestsOK
  <2> QED
    BY <1>2, <2>1, <2>3, <2>4, <2>5 DEF LinkInv
<1> QED
  BY <1>3, <1>4

\* An exchange ends with a reply on its own connection, or with none.
LEMMA ExchangeKeeps ==
  ASSUME LinkInv, NEW r \in sending, ExchangeEnds(r)
  PROVE  LinkInv' /\ sending' = {}
<1>1. r \in Requests /\ sending' = {} /\ UNCHANGED <<queue, writesLeft>>
  BY DEF ExchangeEnds, LinkInv, RequestsOK
<1>2. r.of \in Readers \union {"writer"}
  BY <1>1 DEF Requests
<1>3. PICK how, on : Resume(r.of, how, on) /\ (how = "ok" => on = client.number)
                     /\ client' \in {client, Disconnect}
  <2>1. CASE OwnLink(r) /\ UNCHANGED client
    BY <2>1 DEF ExchangeEnds, OwnLink
  <2>2. CASE client' = Disconnect
    BY <2>2 DEF ExchangeEnds, OwnLink
  <2> QED
    BY <2>1, <2>2 DEF ExchangeEnds
<1>4. ClientOK'
  BY <1>3 DEF LinkInv, ClientOK, Disconnect
<1>5. ProbesOK' /\ ReaderOK'
  BY <1>2, <1>3, ResumeKeeps DEF LinkInv
<1>6. RequestsOK'
  BY <1>1 DEF LinkInv, RequestsOK
<1> QED
  BY <1>1, <1>4, <1>5, <1>6 DEF LinkInv

\* Unloading answers everyone.
LEMMA CloseKeeps ==
  ASSUME LinkInv, CloseEnds
  PROVE  LinkInv' /\ sending' = {}
<1>1. client' = [client EXCEPT !.up = FALSE] /\ queue' = <<>> /\ sending' = {}
      /\ reader' = [r \in Readers |-> IF \E q \in ToSet(queue) \union sending : q.of = r
                                      THEN "idle" ELSE reader[r]]
      /\ job' \in {NoJob, job}
      /\ UNCHANGED <<probes, gatewayCaching, proof, writesLeft>>
  BY DEF CloseEnds
<1>2. ClientOK'
  BY <1>1 DEF LinkInv, ClientOK
<1>3. ReaderOK'
  BY <1>1 DEF LinkInv, ReaderOK
<1>4. ProbesOK'
  BY <1>1, NoJobFacts DEF LinkInv, ProbesOK
<1>5. RequestsOK'
  BY <1>1 DEF RequestsOK
<1> QED
  BY <1>1, <1>2, <1>3, <1>4, <1>5 DEF LinkInv

\* A poll or a probe begins, or the options flow wants to read.
LEMMA StartKeeps ==
  ASSUME LinkInv,
         FlowReads \/ (\E u \in Inverters, kind \in {"poll", "probe"} : StartJob(kind, u))
  PROVE  LinkInv' /\ UNCHANGED sending
<1>1. CASE FlowReads
  <2>1. ReaderOK'
    BY <1>1 DEF FlowReads, LinkInv, ReaderOK, Readers
  <2> QED
    BY <1>1, <2>1 DEF FlowReads, LinkInv, ClientOK, ProbesOK, RequestsOK, Devices
<1>2. ASSUME NEW u \in Inverters, NEW kind \in {"poll", "probe"}, StartJob(kind, u)
      PROVE  LinkInv' /\ UNCHANGED sending
  <2>1. job' = [kind |-> kind, unit |-> u, read |-> {}]
        /\ reader' = [reader EXCEPT !["devices"] = "starting"]
        /\ UNCHANGED <<client, queue, sending, gatewayCaching, writesLeft>>
    BY <1>2 DEF StartJob
  <2>2. job' \in [kind : {"none", "poll", "probe"}, unit : Inverters, read : Proofs]
        /\ ReadSoFar(job'.read)
    BY <2>1, NoJobFacts DEF Proofs
  <2>3. /\ probes' \in [Inverters -> [reason : {"none", "caching_on", "unproven"}, on : Numbers]]
        /\ proof' \in [Inverters -> Proofs]
        /\ \A i \in Inverters : Rests(probes'[i], proof'[i])
    <3>1. CASE kind = "probe"
      <4>1. probes' = [probes EXCEPT ![u] = NoProbe] /\ proof' = [proof EXCEPT ![u] = {}]
        BY <1>2, <3>1 DEF StartJob
      <4>2. {} \in Proofs /\ Rests(NoProbe, {})
        BY NoJobFacts DEF Proofs, Rests
      <4> QED
        BY <4>1, <4>2, NoJobFacts DEF LinkInv, ProbesOK
    <3>2. CASE kind # "probe"
      BY <1>2, <3>2 DEF StartJob, LinkInv, ProbesOK
    <3> QED
      BY <3>1, <3>2
  <2>4. ReaderOK'
    BY <2>1 DEF LinkInv, ReaderOK, Readers
  <2> QED
    BY <2>1, <2>2, <2>3, <2>4 DEF LinkInv, ClientOK, ProbesOK, RequestsOK
<1> QED
  BY <1>1, <1>2

\* Every step.
LEMMA LinkStepKeeps ==
  ASSUME LinkInv, [LinkNext]_linkVars
  PROVE  /\ LinkInv'
         /\ \A r \in sending' \ sending : r.of = "writer" => r.proven = client'.number
<1>1. CASE UNCHANGED linkVars
  BY <1>1 DEF linkVars, LinkInv, ClientOK, ReaderOK, ProbesOK, RequestsOK
<1>2. CASE StartConnect \/ ConnectEnds \/ Reconnect \/ PeerCloses \/ Close
  <2>1. UNCHANGED sending
    BY <1>2 DEF StartConnect, ConnectEnds, Reconnect, PeerCloses, Close, Traffic
  <2> QED
    BY <1>2, <2>1, ClientKeeps
<1>3. CASE CloseEnds \/ (\E r \in sending : ExchangeEnds(r))
  BY <1>3, CloseKeeps, ExchangeKeeps
<1>4. CASE Take
  BY <1>4, TakeKeeps
<1>5. CASE (\E r \in Readers : Proceed(r)) \/ AskWrite
  <2>1. UNCHANGED sending
    BY <1>5 DEF Proceed, AskWrite
  <2> QED
    BY <1>5, <2>1, ProceedKeeps, WriteKeeps
<1>6. CASE FlowReads \/ (\E u \in Inverters, kind \in {"poll", "probe"} : StartJob(kind, u))
  BY <1>6, StartKeeps
<1> QED
  BY <1>1, <1>2, <1>3, <1>4, <1>5, <1>6 DEF LinkNext, LinkStep

\* What holds of the probes is the proof of every validation.
LEMMA RestsProven == LinkInv => Proven
BY DEF LinkInv, ProbesOK, Rests, Proven, Validated, Live

\* The variables keep their types.
LEMMA LinkTypes == LinkInv => LinkTypeOK
<1> SUFFICES ASSUME LinkInv PROVE LinkTypeOK
  OBVIOUS
<1>1. Cardinality(sending) <= 1
  <2>1. CASE sending = {}
    BY <2>1, FS_EmptySet
  <2>2. CASE sending # {}
    <3>1. PICK r : r \in sending
      BY <2>2
    <3>2. sending = {r}
      BY <3>1 DEF LinkInv, RequestsOK
    <3>3. Cardinality({r}) = 1
      BY FS_Singleton
    <3> QED
      BY <3>2, <3>3
  <2> QED
    BY <2>1, <2>2
<1> QED
  BY <1>1 DEF LinkInv, ClientOK, ReaderOK, ProbesOK, RequestsOK, LinkTypeOK

\* A new entry.
LEMMA LinkStarts == LinkInit => LinkInv
<1> SUFFICES ASSUME LinkInit PROVE LinkInv
  OBVIOUS
<1>1. ClientOK
  BY NumbersFacts DEF LinkInit, ClientOK
<1>2. ReaderOK /\ RequestsOK
  BY DEF LinkInit, ReaderOK, RequestsOK
<1>3. ProbesOK
  BY NoJobFacts DEF LinkInit, ProbesOK, Rests, Proofs
<1>4. writesLeft \in 0 .. Writes
  BY LinkAssumption DEF LinkInit
<1> QED
  BY <1>1, <1>2, <1>3, <1>4 DEF LinkInv

\* The connection, the queue and the devices keep their types.
THEOREM LinkTyped == LinkSpec => []LinkTypeOK
<1>1. LinkInv /\ [LinkNext]_linkVars => LinkInv'
  BY LinkStepKeeps
<1> QED
  BY <1>1, LinkStarts, LinkTypes, PTL DEF LinkSpec

\* An inverter counts as validated only on the connection on which one probe read all of its
\* identity, and a write goes out only on the connection it was decided on, whatever drops,
\* times out late, reconnects or is unloaded in between.
THEOREM WritesOnTheirLink == LinkSpec => LinkKept
<1>1. LinkInv /\ [LinkNext]_linkVars => LinkInv'
  BY LinkStepKeeps
<1>2. LinkInv' => Proven'
  BY RestsProven, PTL
<1>3. LinkInv /\ [LinkNext]_linkVars
        => [/\ Proven'
            /\ \A r \in sending' \ sending : r.of = "writer" => r.proven = client'.number]_linkVars
  BY <1>1, <1>2, LinkStepKeeps
<1> QED
  BY <1>1, <1>3, LinkStarts, PTL DEF LinkSpec, LinkKept
=================================================================================
