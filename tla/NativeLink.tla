------------------------------- MODULE NativeLink -------------------------------
(***************************************************************************)
(* One gateway: its connection, the queue of requests that one worker      *)
(* sends on it, and the native devices behind it, whose identity is probed *)
(* on every connection and whose frames are polled.  Readers start the     *)
(* connection and wait for it, writers do not; a request belongs to the    *)
(* connection it was asked on; the link drops, an exchange times out while *)
(* the next connection is already up, and the entry is unloaded.           *)
(*                                                                         *)
(* Abstracted: registers; pacing and backoff (a reconnection comes at any  *)
(* time after it is needed); the two identity slices and the timed repeats *)
(* stand for a probe's ten reads; ownership, claims and the hold identity. *)
(***************************************************************************)
EXTENDS Naturals, Sequences, FiniteSets, SequencesExt

CONSTANTS
    Inverters,      \* unit ids behind the gateway
    Connections,    \* connections in a behaviour
    Writes          \* writes in a behaviour

ASSUME LinkAssumption == Inverters # {} /\ Connections \in Nat \ {0} /\ Writes \in Nat

VARIABLES
    client,         \* started, connected, closed, the reconnector is asked, connection number
    queue,          \* requests that wait for the worker, a write ahead of the reads
    sending,        \* the request on the wire
    reader,         \* waiting for the start lock or for its answer: devices, options flow
    job,            \* the poll or probe that holds NativeDevices.lock
    probes,         \* per inverter: the last probe's verdict and the connection it ended on
    gatewayCaching, \* the gateway-wide fence
    proof,          \* history: per inverter, what the last probe read and on which connections
    writesLeft

linkVars == <<client, queue, sending, reader, job, probes, gatewayCaching, proof, writesLeft>>

Readers  == {"devices", "flow"}
Numbers  == 0 .. Connections
Requests == [of : Readers \union {"writer"}, on : Numbers, proven : Numbers]
Parts    == {"model", "tou", "timing"}
Proofs   == SUBSET (Parts \X Numbers)
NoJob    == [kind |-> "none", unit |-> CHOOSE u \in Inverters : TRUE, read |-> {}]
\* "unproven" is unvalidated_identity, identity_read_failed and unreachable.
NoProbe  == [reason |-> "unproven", on |-> 0]

LinkTypeOK ==
    /\ client \in [started : {"no", "connecting", "yes"}, up : BOOLEAN, closed : BOOLEAN,
                   needed : BOOLEAN, number : Numbers]
    /\ queue \in Seq(Requests) /\ sending \subseteq Requests /\ Cardinality(sending) <= 1
    /\ reader \in [Readers -> {"idle", "starting", "waiting"}]
    /\ job \in [kind : {"none", "poll", "probe"}, unit : Inverters, read : Proofs]
    /\ probes \in [Inverters -> [reason : {"none", "caching_on", "unproven"}, on : Numbers]]
    /\ gatewayCaching \in BOOLEAN /\ proof \in [Inverters -> Proofs] /\ writesLeft \in 0 .. Writes

LinkInit ==
    /\ client = [started |-> "no", up |-> FALSE, closed |-> FALSE, needed |-> FALSE, number |-> 0]
    /\ queue = <<>> /\ sending = {} /\ reader = [r \in Readers |-> "idle"] /\ job = NoJob
    /\ probes = [u \in Inverters |-> NoProbe] /\ gatewayCaching = FALSE
    /\ proof = [u \in Inverters |-> {}] /\ writesLeft = Writes

Devices  == <<job, probes, gatewayCaching, proof>>
Traffic  == <<queue, sending, reader>>

-----------------------------------------------------------------------------
(* The connection *)

Connected  == [client EXCEPT !.up = TRUE, !.needed = FALSE, !.number = @ + 1]
Disconnect == [client EXCEPT !.up = FALSE, !.needed = TRUE]

\* The first reader connects under the start lock; the worker starts whatever comes of it.
StartConnect ==
    /\ client.started = "no" /\ ~client.closed /\ \E r \in Readers : reader[r] = "starting"
    /\ client' = [client EXCEPT !.started = "connecting"]
    /\ UNCHANGED <<Traffic, Devices, writesLeft>>

ConnectEnds ==
    /\ client.started = "connecting"
    /\ LET started == IF client.closed THEN "no" ELSE "yes"
       IN  \/ /\ client.number < Connections
              /\ client' = [Connected EXCEPT !.started = started]
           \/ client' = [Disconnect EXCEPT !.started = started]
    /\ UNCHANGED <<Traffic, Devices, writesLeft>>

Reconnect ==
    /\ client.started = "yes" /\ ~client.closed /\ client.needed
    /\ \/ ~client.up /\ client.number < Connections /\ client' = Connected
       \/ client.up /\ client' = [client EXCEPT !.needed = FALSE]
    /\ UNCHANGED <<Traffic, Devices, writesLeft>>

\* The peer goes away; the worker or a caller finds out.
PeerCloses ==
    /\ client.up /\ client' = [client EXCEPT !.up = FALSE]
    /\ UNCHANGED <<Traffic, Devices, writesLeft>>

-----------------------------------------------------------------------------
(* The devices *)

Live(u)  == client.up /\ ~client.closed /\ probes[u].on = client.number
\* NativeDevices.reason is None, as far as the gateway decides it.
Validated(u) == Live(u) /\ probes[u].reason = "none" /\ ~gatewayCaching

StartJob(kind, u) ==
    /\ ~client.closed /\ job.kind = "none" /\ reader["devices"] = "idle"
    /\ job' = [kind |-> kind, unit |-> u, read |-> {}]
    /\ reader' = [reader EXCEPT !["devices"] = "starting"]
    /\ IF kind = "probe"
       THEN probes' = [probes EXCEPT ![u] = NoProbe] /\ proof' = [proof EXCEPT ![u] = {}]
       ELSE UNCHANGED <<probes, proof>>
    /\ UNCHANGED <<client, queue, sending, gatewayCaching, writesLeft>>

FlowReads ==
    /\ reader["flow"] = "idle" /\ ~client.closed
    /\ reader' = [reader EXCEPT !["flow"] = "starting"]
    /\ UNCHANGED <<client, queue, sending, Devices, writesLeft>>

Next3(read) == IF read = {} THEN "model" ELSE IF Cardinality(read) = 1 THEN "tou" ELSE "timing"

\* Mutant for TLC: the slices of a probe may come from different connections.
AnyConnection(read, on) == TRUE
SameConnection(read, on) == \A part \in read : part[2] = on

\* A probe ends with its verdict; the connection it ended on is noted whatever the verdict.
Record(reason, read) ==
    /\ probes' = [probes EXCEPT ![job.unit] = [reason |-> reason, on |-> client.number]]
    /\ proof' = [proof EXCEPT ![job.unit] = IF reason = "none" THEN read ELSE {}]
    /\ job' = NoJob /\ reader' = [reader EXCEPT !["devices"] = "idle"]

\* A part of the probe was read: an unknown identity is remembered, the timing decides.
PartRead(on) ==
    LET part == Next3(job.read)
        read == job.read \union {<<part, on>>}
    IN  IF ~SameConnection(job.read, on)
        THEN Record("unproven", read) /\ UNCHANGED gatewayCaching
        ELSE IF part = "timing"
        THEN \/ Record("none", read) /\ gatewayCaching' = FALSE
             \/ Record("caching_on", read) /\ gatewayCaching' = TRUE
             \/ Record("unproven", read) /\ gatewayCaching' \in BOOLEAN
        ELSE /\ job' = [job EXCEPT !.read = read]
             /\ reader' = [reader EXCEPT !["devices"] = "starting"]
             /\ UNCHANGED <<probes, proof, gatewayCaching>>

\* What a request's answer does for who waits for it.
Resume(of, how, on) ==
    CASE of = "writer" -> UNCHANGED <<reader, Devices>>
      [] of = "flow" -> reader' = [reader EXCEPT !["flow"] = "idle"] /\ UNCHANGED Devices
      [] of = "devices" /\ (job.kind = "poll" \/ client'.closed) ->
            /\ job' = NoJob /\ reader' = [reader EXCEPT !["devices"] = "idle"]
            /\ UNCHANGED <<probes, gatewayCaching, proof>>
      [] OTHER ->
            IF how = "ok" THEN PartRead(on)
            ELSE Record("unproven", job.read) /\ UNCHANGED gatewayCaching

-----------------------------------------------------------------------------
(* Requests *)

\* A reader that has got past the start lock.
Proceed(r) ==
    /\ reader[r] = "starting"
    /\ client.started = "yes" \/ (client.closed /\ client.started # "connecting")
    /\ IF client.closed \/ ~client.up
       THEN /\ client' = [client EXCEPT !.needed = @ \/ ~client.closed]
            /\ Resume(r, "disconnected", 0) /\ UNCHANGED queue
       ELSE /\ queue' = Append(queue, [of |-> r, on |-> client.number, proven |-> 0])
            /\ reader' = [reader EXCEPT ![r] = "waiting"] /\ UNCHANGED <<client, Devices>>
    /\ UNCHANGED <<sending, writesLeft>>

\* A write decided on a validated inverter; it is never kept for a later connection.
AskWrite ==
    /\ writesLeft > 0 /\ \E u \in Inverters : Validated(u)
    /\ ~\E r \in ToSet(queue) \union sending : r.of = "writer"
    /\ writesLeft' = writesLeft - 1
    /\ queue' = <<[of |-> "writer", on |-> client.number, proven |-> client.number]>> \o queue
    /\ UNCHANGED <<client, sending, reader, Devices>>

\* Mutant for TLC: a request is sent on whatever connection there is.
AnyLink(r)  == client.up
OwnLink(r)  == client.up /\ r.on = client.number

Take ==
    /\ client.started = "yes" /\ ~client.closed /\ sending = {} /\ queue # <<>>
    /\ queue' = Tail(queue)
    /\ IF OwnLink(Head(queue))
       THEN sending' = {Head(queue)} /\ UNCHANGED <<client, reader, Devices>>
       ELSE /\ client' = [client EXCEPT !.needed = @ \/ ~client.up]
            /\ Resume(Head(queue).of, "disconnected", 0) /\ UNCHANGED sending
    /\ UNCHANGED writesLeft

\* A reply comes on the connection of its request; a lost or timed out exchange closes the
\* client, although a later connection may be up by then.
ExchangeEnds(r) ==
    /\ ~client.closed /\ sending' = {}
    /\ \/ /\ OwnLink(r) /\ UNCHANGED client
          /\ \E how \in {"ok", "exception"} : Resume(r.of, how, r.on)
       \/ client' = Disconnect /\ Resume(r.of, "disconnected", 0)
    /\ UNCHANGED <<queue, writesLeft>>

\* Unloading: closed at once, then, once no connect is under way, everyone is answered.
Close ==
    /\ ~client.closed /\ client' = [client EXCEPT !.closed = TRUE]
    /\ UNCHANGED <<Traffic, Devices, writesLeft>>

CloseEnds ==
    /\ client.closed /\ client.started # "connecting" /\ (queue # <<>> \/ sending # {} \/ client.up)
    /\ client' = [client EXCEPT !.up = FALSE] /\ queue' = <<>> /\ sending' = {}
    /\ reader' = [r \in Readers |-> IF \E q \in ToSet(queue) \union sending : q.of = r THEN "idle"
                                    ELSE reader[r]]
    /\ job' = IF reader'["devices"] = "idle" THEN NoJob ELSE job
    /\ UNCHANGED <<probes, gatewayCaching, proof, writesLeft>>

\* The worker, the end of a connect, of an exchange and of the unloading.
LinkStep == StartConnect \/ ConnectEnds \/ CloseEnds \/ Take \/ (\E r \in sending : ExchangeEnds(r))

LinkNext ==
    \/ LinkStep \/ (\E r \in Readers : Proceed(r))
    \/ Reconnect \/ PeerCloses \/ Close \/ FlowReads \/ AskWrite
    \/ \E u \in Inverters, kind \in {"poll", "probe"} : StartJob(kind, u)

LinkFairness == WF_linkVars(LinkStep) /\ \A r \in Readers : WF_linkVars(Proceed(r))
LinkSpec     == LinkInit /\ [][LinkNext]_linkVars /\ LinkFairness

-----------------------------------------------------------------------------
(* Properties *)

\* An inverter counts as validated only while the connection stands on which its whole
\* identity and the caching were read, in one probe.
Proven == \A u \in Inverters : Validated(u) => proof[u] = Parts \X {client.number}

\* A write goes out only on the connection on which its inverter was validated, through drops,
\* late timeouts and reconnections before it is sent; validation never outlives a connection
\* or spans two.
LinkKept ==
    [][/\ Proven'
       /\ \A r \in sending' \ sending : r.of = "writer" => r.proven = client'.number]_linkVars

\* Every reader is answered, also through an unload during the first connect.
ReadersAnswered == \A r \in Readers : reader[r] # "idle" ~> reader[r] = "idle"
=================================================================================
