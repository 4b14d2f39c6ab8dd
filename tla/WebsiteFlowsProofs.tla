------------------------- MODULE WebsiteFlowsProofs -------------------------
(* Website bytes and visits for any number of flows, devices and names.     *)
EXTENDS WebsiteFlows, TLAPS

----------------------------------------------------------------------------
(* Types *)

\* What was sampled of a followed flow is a count, and so is what it adds.
LEMMA DeltaType ==
    ASSUME TypeOK, NEW f \in Flows, Sampled(f)
    PROVE  /\ sample[f] \in Bytes
           /\ FlowDelta(f) \in Bytes
           /\ Previous(f) # NoRow => Previous(f) \in FlowState
<1>1. sample[f] \in Bytes /\ (Previous(f) # NoRow => Previous(f) \in FlowState)
  BY DEF TypeOK, Sampled, Previous
<1>2. ASSUME NEW d \in Directions
      PROVE  (IF IsReset(f) THEN sample[f][d]
              ELSE sample[f][d] - Previous(f).bytes[d]) \in Nat
  <2>1. CASE IsReset(f)
    BY <1>1, <2>1 DEF Bytes
  <2>2. CASE ~IsReset(f)
    <3>1. Previous(f) \in FlowState /\ ~(sample[f][d] < Previous(f).bytes[d])
      BY <1>1, <2>2 DEF IsReset
    <3>2. sample[f][d] \in Nat /\ Previous(f).bytes[d] \in Nat
      BY <1>1, <3>1 DEF Bytes, FlowState
    <3> QED BY <2>2, <3>1, <3>2
  <2> QED BY <2>1, <2>2
<1>3. FlowDelta(f) \in Bytes
  BY <1>2 DEF FlowDelta, Bytes
<1> QED BY <1>1, <1>3

\* A flow is booked to a destination of the model.
LEMMA DestinationType ==
    ASSUME TypeOK, NEW f \in Flows, Sampled(f), NEW n \in Dests
    PROVE  Destination(f, n) \in Dests
<1>1. CASE IsReset(f) \/ Previous(f).dest = IP
  BY <1>1 DEF Destination
<1>2. CASE ~(IsReset(f) \/ Previous(f).dest = IP)
  <2>1. Previous(f) \in FlowState
    BY <1>2, DeltaType DEF IsReset
  <2> QED BY <1>2, <2>1 DEF Destination, FlowState
<1> QED BY <1>1, <1>2

\* A day of the calendar.
LEMMA DayType == ASSUME NEW t \in Nat PROVE Day(t) \in Nat
<1>1. DayLength \in Nat /\ DayLength > 0
  BY FlowsAssumption
<1> QED BY <1>1, Z3 DEF Day

\* Adding what a flow's sample adds to a table of counts.
LEMMA AddedType ==
    ASSUME TypeOK, NEW f \in Flows, Sampled(f),
           NEW amount \in [Flows -> Bytes]
    PROVE  Added(amount, f) \in Bytes
<1>1. FlowDelta(f) \in [Directions -> Nat] /\ amount[f] \in [Directions -> Nat]
  BY DeltaType DEF Bytes
<1> QED BY <1>1 DEF Added, Bytes

\* One more packet of a flow in one direction.
LEMMA PacketType ==
    ASSUME NEW S, Bytes \subseteq S, NEW amount \in [Flows -> S],
           NEW f \in Flows, NEW d \in Directions, amount[f] \in Bytes,
           NEW more, more = [amount EXCEPT ![f][d] = @ + 1]
    PROVE  more \in [Flows -> S]
<1> DEFINE row == [amount[f] EXCEPT ![d] = amount[f][d] + 1]
<1>1. row \in Bytes
  BY DEF Bytes
<1>2. more = [amount EXCEPT ![f] = row]
  OBVIOUS
<1> HIDE DEF row
<1> QED BY <1>1, <1>2

\* record_website_flows keeps its tables in their schema.
LEMMA RecordType ==
    ASSUME TypeOK, NEW name \in [Flows -> Dests], RecordFlows(name)
    PROVE  TypeOK'
<1>1. clock \in Nat
  BY FlowsAssumption DEF TypeOK
<1>2. flowState' \in [Flows -> FlowState \cup {NoRow}]
  <2>1. ASSUME NEW f \in Flows, Followed(f)
        PROVE  [bytes |-> sample[f], dest |-> Destination(f, name[f]),
                updated |-> clock] \in FlowState
    BY <1>1, <2>1, DeltaType, DestinationType DEF Followed, FlowState
  <2> QED BY <2>1 DEF RecordFlows, TypeOK
<1>3. booked' \in [Flows -> Bytes] /\ skipped' \in [Flows -> Bytes]
  <2>1. booked \in [Flows -> Bytes] /\ skipped \in [Flows -> Bytes]
    BY DEF TypeOK
  <2>2. \A f \in Flows : Sampled(f) =>
          Added(booked, f) \in Bytes /\ Added(skipped, f) \in Bytes
    BY <2>1, AddedType
  <2> QED BY <2>1, <2>2 DEF RecordFlows, Booked
<1>4. visits' \in [Flows -> Nat]
  BY DEF RecordFlows, TypeOK
<1> DEFINE touched == {Destination(f, name[f]) : f \in {g \in Flows : Booked(g)}}
<1>5. touched \subseteq Dests
  BY DestinationType DEF Booked
<1>6. /\ domains' = domains \cup touched
      /\ daily' = daily \cup ({Day(clock)} \X touched)
      /\ recent' \subseteq recent \cup ({clock} \X touched)
  BY DEF RecordFlows
<1> HIDE DEF touched
<1>7. /\ domains' \subseteq Dests
      /\ daily' \subseteq Nat \X Dests
      /\ recent' \subseteq Nat \X Dests
  BY <1>1, <1>5, <1>6, DayType DEF TypeOK
<1> QED BY <1>2, <1>3, <1>4, <1>7 DEF RecordFlows, TypeOK, traffic

\* A packet keeps the counters numbers.
LEMMA PacketKeepsTypes ==
    ASSUME TypeOK, NEW f \in Flows, NEW d \in Directions, Packet(f, d)
    PROVE  TypeOK'
<1>1. conn' \in [Flows -> Bytes \cup {NoConn}]
  <2>1. conn \in [Flows -> Bytes \cup {NoConn}] /\ conn[f] \in Bytes
    BY DEF Packet, TypeOK
  <2>2. conn' = [conn EXCEPT ![f][d] = @ + 1]
    BY DEF Packet
  <2>3. Bytes \subseteq Bytes \cup {NoConn}
    OBVIOUS
  <2> QED BY <2>1, <2>2, <2>3, PacketType
<1>2. sent \in [Flows -> Bytes] /\ passed \in [Flows -> Bytes]
  BY DEF TypeOK
<1>3. sent' \in [Flows -> Bytes] /\ passed' \in [Flows -> Bytes]
  <2>1. sent' = [sent EXCEPT ![f][d] = @ + 1]
    BY DEF Packet
  <2>2. passed' = passed \/ passed' = [passed EXCEPT ![f][d] = @ + 1]
    BY DEF Packet
  <2>3. sent' \in [Flows -> Bytes]
    BY <1>2, <2>1, PacketType
  <2>4. CASE passed' = [passed EXCEPT ![f][d] = @ + 1]
    BY <1>2, <2>3, <2>4, PacketType
  <2> QED BY <1>2, <2>2, <2>3, <2>4
<1> QED BY <1>1, <1>3 DEF Packet, TypeOK, tables

\* Every table keeps its type; no delta is negative.
THEOREM TypeCorrect == Spec => []TypeOK
<1> USE DEF traffic, tables
<1>1. Init => TypeOK
  <2> SUFFICES ASSUME Init PROVE TypeOK
    OBVIOUS
  <2>1. None \in Bytes
    BY DEF None, Bytes
  <2>2. clock \in 0 .. MaxTime
    BY FlowsAssumption DEF Init
  <2> QED BY <2>1, <2>2 DEF Init, TypeOK
<1>2. TypeOK /\ [Next]_vars => TypeOK'
  <2> SUFFICES ASSUME TypeOK, [Next]_vars PROVE TypeOK'
    OBVIOUS
  <2>1. CASE UNCHANGED vars
    BY <2>1 DEF vars, TypeOK
  <2>2. ASSUME NEW f \in Flows, Open(f) PROVE TypeOK'
    <3>1. None \in Bytes
      BY DEF None, Bytes
    <3> QED BY <2>2, <3>1 DEF Open, TypeOK
  <2>3. ASSUME NEW f \in Flows, Close(f) PROVE TypeOK'
    BY <2>3 DEF Close, TypeOK
  <2>4. ASSUME NEW f \in Flows, NEW d \in Directions, Packet(f, d)
        PROVE  TypeOK'
    BY <2>4, PacketKeepsTypes
  <2>5. ASSUME NEW a \in Devices, Learn(a) PROVE TypeOK'
    BY <2>5 DEF Learn, TypeOK
  <2>6. CASE Tick
    BY <2>6, FlowsAssumption DEF Tick, TypeOK
  <2>7. ASSUME NEW D \in SUBSET Devices, ApplyPolicies(D) PROVE TypeOK'
    BY <2>7 DEF ApplyPolicies, TypeOK
  <2>8. CASE ListFlows
    BY <2>8 DEF ListFlows, TypeOK
  <2>9. ASSUME NEW name \in [Flows -> Dests], RecordFlows(name) PROVE TypeOK'
    BY <2>9, RecordType
  <2>10. CASE Cleanup
    <3>1. Day(clock) \in Nat
      BY DayType, FlowsAssumption DEF TypeOK
    <3> QED BY <2>10, <3>1 DEF Cleanup, NoLocals, TypeOK
  <2>11. CASE Fail
    BY <2>11 DEF Fail, NoLocals, TypeOK
  <2> QED BY <2>1, <2>2, <2>3, <2>4, <2>5, <2>6, <2>7, <2>8, <2>9, <2>10,
             <2>11 DEF Next
<1> QED BY <1>1, <1>2, PTL DEF Spec

----------------------------------------------------------------------------
(* The rows of the domain tables *)

\* No row of a domain outlives it, through retention and cleanup.
THEOREM DomainsHold == Spec => []DomainsReferenced
<1> USE DEF traffic, tables, DomainsReferenced
<1>1. Init => DomainsReferenced
  BY DEF Init
<1>2. TypeOK /\ DomainsReferenced /\ [Next]_vars => DomainsReferenced'
  <2> SUFFICES ASSUME TypeOK, DomainsReferenced, [Next]_vars
               PROVE  DomainsReferenced'
    OBVIOUS
  <2>1. ASSUME NEW name \in [Flows -> Dests], RecordFlows(name)
        PROVE  DomainsReferenced'
    <3> DEFINE touched ==
                 {Destination(f, name[f]) : f \in {g \in Flows : Booked(g)}}
    <3>1. /\ domains' = domains \cup touched
          /\ daily' = daily \cup ({Day(clock)} \X touched)
          /\ recent' \subseteq recent \cup ({clock} \X touched)
      BY <2>1 DEF RecordFlows
    <3> HIDE DEF touched
    <3> QED BY <3>1
  <2>2. CASE Cleanup
    <3>1. CASE cleaned = Day(clock)
      BY <2>2, <3>1 DEF Cleanup
    <3>2. CASE cleaned # Day(clock)
      <4>1. /\ daily' \subseteq daily /\ UNCHANGED recent
            /\ domains' = {d \in domains : \E r \in daily' \cup recent : r[2] = d}
        BY <2>2, <3>2 DEF Cleanup
      <4> QED BY <4>1
    <3> QED BY <3>1, <3>2
  <2>3. CASE UNCHANGED <<domains, daily, recent>>
    BY <2>3
  <2> QED BY <2>1, <2>2, <2>3
          DEF Next, Open, Close, Packet, Learn, Tick, ApplyPolicies,
              ListFlows, Fail, vars
<1> QED BY <1>1, <1>2, TypeCorrect, PTL DEF Spec

----------------------------------------------------------------------------
(* Bytes *)

Accounted(f, d) == booked[f][d] + skipped[f][d]

\* Counters of a connection that has not been sampled, or only in part:
\* whatever the next sample takes them for, there are enough bytes for it.
Covered(f, c) ==
    \/ \A d \in Directions : Accounted(f, d) + c[d] <= sent[f][d]
    \/ /\ flowState[f] # NoRow
       /\ \A d \in Directions :
            /\ flowState[f].bytes[d] <= c[d]
            /\ Accounted(f, d) + (c[d] - flowState[f].bytes[d]) <= sent[f][d]

\* The same once the listed sample is booked.
CoveredAfter(f, c) ==
    \/ \A d \in Directions : Accounted(f, d) + FlowDelta(f)[d] + c[d] <= sent[f][d]
    \/ \A d \in Directions :
         /\ sample[f][d] <= c[d]
         /\ Accounted(f, d) + FlowDelta(f)[d] + (c[d] - sample[f][d])
              <= sent[f][d]

Live(f) == conn[f] # NoConn

\* A flow between any two steps.
BytesInv(f) ==
    /\ flowState[f] # NoRow => DeviceOf[f] \in known
    /\ \A d \in Directions : Accounted(f, d) <= sent[f][d]
    /\ Live(f) => Covered(f, conn[f])
    /\ pc = "listed" /\ sample[f] # NoConn =>
         /\ \A d \in Directions :
              Accounted(f, d) + FlowDelta(f)[d] <= sent[f][d]
         /\ Live(f) => CoveredAfter(f, conn[f])
    /\ pc = "listed" /\ sample[f] = NoConn /\ Live(f) =>
         \A d \in Directions : Accounted(f, d) + conn[f][d] <= sent[f][d]

\* The values of a flow are numbers.
LEMMA Counts ==
    ASSUME TypeOK, NEW f \in Flows, NEW d \in Directions
    PROVE  /\ booked[f][d] \in Nat /\ skipped[f][d] \in Nat
           /\ sent[f][d] \in Nat
           /\ Live(f) => conn[f][d] \in Nat
           /\ sample[f] # NoConn => sample[f][d] \in Nat
           /\ flowState[f] # NoRow => flowState[f].bytes[d] \in Nat
BY DEF TypeOK, Bytes, FlowState, Live

\* What a sample adds in one direction.
LEMMA Deltas ==
    ASSUME NEW f, NEW d \in Directions
    PROVE  FlowDelta(f)[d] = IF IsReset(f) THEN sample[f][d]
                             ELSE sample[f][d] - flowState[f].bytes[d]
BY DEF FlowDelta, Previous

\* When nothing of the flow changes but the number of its bytes still to
\* come, it stays accounted for.
LEMMA FlowUntouched ==
    ASSUME NEW f, BytesInv(f),
           UNCHANGED <<conn[f], sent[f], booked[f], skipped[f], flowState[f],
                       sample[f]>>,
           known \subseteq known', pc' = "listed" => pc = "listed"
    PROVE  BytesInv(f)'
<1>1. /\ \A d \in Directions : Accounted(f, d)' = Accounted(f, d)
      /\ FlowDelta(f)' = FlowDelta(f)
      /\ Live(f)' <=> Live(f)
  BY DEF Accounted, FlowDelta, IsReset, Previous, Live
<1> QED BY <1>1 DEF BytesInv, Covered, CoveredAfter

\* A connection that opens has nothing to account for yet.
LEMMA OpenCovered ==
    ASSUME TypeOK, NEW f \in Flows, BytesInv(f), Open(f)
    PROVE  BytesInv(f)'
<1>1. /\ UNCHANGED <<sent, booked, skipped, flowState, sample, known, pc>>
      /\ Live(f)' /\ \A d \in Directions : conn'[f][d] = 0
  <2>1. None # NoConn
    BY FlowsAssumption DEF None, Bytes
  <2>2. conn'[f] = None
    BY DEF Open, TypeOK
  <2> QED BY <2>1, <2>2 DEF Open, Live, None, tables
<1>2. /\ \A d \in Directions : Accounted(f, d)' = Accounted(f, d)
      /\ FlowDelta(f)' = FlowDelta(f)
  BY <1>1 DEF Accounted, FlowDelta, IsReset, Previous
<1>3. \A d \in Directions :
        /\ Accounted(f, d) \in Nat /\ sent[f][d] \in Nat
        /\ pc = "listed" /\ sample[f] # NoConn => FlowDelta(f)[d] \in Int
  BY Counts, Deltas DEF Accounted, IsReset, Previous
<1>4. \A d \in Directions : Accounted(f, d) + conn'[f][d] <= sent[f][d]
  BY <1>1, <1>3 DEF BytesInv
<1>5. pc = "listed" /\ sample[f] # NoConn =>
        \A d \in Directions :
          Accounted(f, d) + FlowDelta(f)[d] + conn'[f][d] <= sent[f][d]
  BY <1>1, <1>3 DEF BytesInv
<1> QED BY <1>1, <1>2, <1>4, <1>5 DEF BytesInv, Covered, CoveredAfter

\* A packet is counted by the connection and by sent.
LEMMA PacketCovered ==
    ASSUME TypeOK, NEW f \in Flows, BytesInv(f),
           NEW d \in Directions, Packet(f, d)
    PROVE  BytesInv(f)'
<1>1. /\ UNCHANGED <<booked, skipped, flowState, sample, known, pc>>
      /\ Live(f) /\ Live(f)'
      /\ conn'[f][d] = conn[f][d] + 1 /\ sent'[f][d] = sent[f][d] + 1
      /\ \A e \in Directions \ {d} :
           conn'[f][e] = conn[f][e] /\ sent'[f][e] = sent[f][e]
  <2>1. conn[f] \in [Directions -> Nat] /\ sent[f] \in [Directions -> Nat]
    BY DEF Packet, TypeOK, Bytes
  <2>2. /\ conn'[f] = [conn[f] EXCEPT ![d] = @ + 1]
        /\ sent'[f] = [sent[f] EXCEPT ![d] = @ + 1]
    BY DEF Packet, TypeOK
  <2>3. conn'[f] \in Bytes
    BY <2>1, <2>2 DEF Bytes
  <2>4. Live(f) /\ Live(f)'
    BY <2>3, FlowsAssumption DEF Packet, Live
  <2> QED BY <2>1, <2>2, <2>4 DEF Packet, tables
<1>2. /\ \A e \in Directions : Accounted(f, e)' = Accounted(f, e)
      /\ FlowDelta(f)' = FlowDelta(f)
  BY <1>1 DEF Accounted, FlowDelta, IsReset, Previous
<1>3. \A e \in Directions :
        /\ Accounted(f, e) \in Nat /\ sent[f][e] \in Nat /\ conn[f][e] \in Nat
        /\ sample[f] # NoConn => FlowDelta(f)[e] \in Int /\ sample[f][e] \in Nat
        /\ flowState[f] # NoRow => flowState[f].bytes[e] \in Nat
  BY <1>1, Counts, Deltas DEF Accounted, IsReset, Previous
<1>4. \A e \in Directions : Accounted(f, e) <= sent'[f][e]
  BY <1>1, <1>3 DEF BytesInv
<1>5. Covered(f, conn[f])'
  BY <1>1, <1>2, <1>3 DEF BytesInv, Covered
<1>6. ASSUME pc = "listed", sample[f] # NoConn
      PROVE  /\ \A e \in Directions :
                  Accounted(f, e) + FlowDelta(f)[e] <= sent'[f][e]
             /\ CoveredAfter(f, conn[f])'
  BY <1>1, <1>2, <1>3, <1>6 DEF BytesInv, CoveredAfter
<1>7. ASSUME pc = "listed", sample[f] = NoConn
      PROVE  \A e \in Directions : Accounted(f, e) + conn'[f][e] <= sent'[f][e]
  BY <1>1, <1>3, <1>7 DEF BytesInv
<1> QED BY <1>1, <1>2, <1>4, <1>5, <1>6, <1>7 DEF BytesInv

\* A listing takes the counters as they are.
LEMMA ListCovered ==
    ASSUME TypeOK, NEW f \in Flows, BytesInv(f), ListFlows
    PROVE  BytesInv(f)'
<1>1. /\ UNCHANGED <<conn, sent, booked, skipped, flowState, known>>
      /\ sample' = conn
  BY DEF ListFlows, traffic, tables
<1>2. /\ \A d \in Directions : Accounted(f, d)' = Accounted(f, d)
      /\ Live(f)' <=> Live(f)
  BY <1>1 DEF Accounted, Live
<1>3. Covered(f, conn[f])' <=> Covered(f, conn[f])
  BY <1>1, <1>2 DEF Covered
<1>4. ASSUME Live(f)
      PROVE  \A d \in Directions :
               /\ (FlowDelta(f)[d])' \in Int
               /\ Accounted(f, d) + (FlowDelta(f)[d])' <= sent[f][d]
  <2> SUFFICES ASSUME NEW d \in Directions
               PROVE  /\ (FlowDelta(f)[d])' \in Int
                      /\ Accounted(f, d) + (FlowDelta(f)[d])' <= sent[f][d]
    OBVIOUS
  <2>1. (FlowDelta(f)[d])' = IF IsReset(f)' THEN conn[f][d]
                             ELSE conn[f][d] - flowState[f].bytes[d]
    BY <1>1 DEF FlowDelta, Previous
  <2>2. IsReset(f)' <=> \/ flowState[f] = NoRow
                        \/ \E e \in Directions : conn[f][e] < flowState[f].bytes[e]
    BY <1>1 DEF IsReset, Previous
  <2>3. \A e \in Directions :
          /\ Accounted(f, e) \in Nat /\ sent[f][e] \in Nat /\ conn[f][e] \in Nat
          /\ flowState[f] # NoRow => flowState[f].bytes[e] \in Nat
    BY <1>4, Counts DEF Accounted
  <2>4. Covered(f, conn[f])
    BY <1>4 DEF BytesInv
  <2> QED BY <2>1, <2>2, <2>3, <2>4 DEF Covered
<1>5. ASSUME Live(f) PROVE CoveredAfter(f, conn[f])'
  <2>1. \A d \in Directions :
          conn[f][d] \in Nat /\ Accounted(f, d) \in Nat /\ sent[f][d] \in Nat
    BY <1>5, Counts DEF Accounted
  <2>2. \A d \in Directions :
          /\ sample'[f][d] <= conn'[f][d]
          /\ Accounted(f, d)' + (FlowDelta(f)[d])'
               + (conn'[f][d] - sample'[f][d]) <= sent'[f][d]
    BY <1>1, <1>2, <1>4, <1>5, <2>1
  <2> QED BY <2>2 DEF CoveredAfter
<1> QED BY <1>1, <1>2, <1>3, <1>4, <1>5 DEF BytesInv, Live

\* What record_website_flows does to one flow: what its sample adds is
\* booked, or skipped, or nothing.
LEMMA RecordOne ==
    ASSUME TypeOK, NEW f \in Flows,
           NEW name \in [Flows -> Dests], RecordFlows(name)
    PROVE  /\ pc = "listed" /\ pc' = "recorded"
           /\ UNCHANGED <<conn, sent, known, opened, sample>>
           /\ Sampled(f) =>
                /\ flowState'[f] # NoRow /\ flowState'[f].bytes = sample[f]
                /\ \A d \in Directions :
                     Accounted(f, d)' = Accounted(f, d) + FlowDelta(f)[d]
           /\ ~Sampled(f) =>
                /\ flowState'[f] \in {NoRow, flowState[f]}
                /\ \A d \in Directions : Accounted(f, d)' = Accounted(f, d)
<1>1. CASE Sampled(f)
  <2>1. /\ flowState'[f] = [bytes |-> sample[f],
                            dest |-> Destination(f, name[f]), updated |-> clock]
        /\ flowState'[f].bytes = sample[f]
    BY <1>1 DEF RecordFlows, Followed
  <2>2. flowState'[f] # NoRow
    <3>1. /\ sample[f] \in Bytes /\ clock \in Nat
          /\ Destination(f, name[f]) \in Dests
      BY <1>1, DeltaType, DestinationType, FlowsAssumption DEF TypeOK
    <3>2. flowState'[f] \in FlowState
      BY <2>1, <3>1 DEF FlowState
    <3> QED BY <3>2, NoRowAssumption
  <2>3. \A d \in Directions : Accounted(f, d)' = Accounted(f, d) + FlowDelta(f)[d]
    <3> SUFFICES ASSUME NEW d \in Directions
                 PROVE  Accounted(f, d)' = Accounted(f, d) + FlowDelta(f)[d]
      OBVIOUS
    <3>1. /\ Added(booked, f)[d] = booked[f][d] + FlowDelta(f)[d]
          /\ Added(skipped, f)[d] = skipped[f][d] + FlowDelta(f)[d]
      BY DEF Added
    <3>2. /\ booked[f][d] \in Nat /\ skipped[f][d] \in Nat
          /\ FlowDelta(f)[d] \in Nat
      BY <1>1, Counts, DeltaType DEF Bytes
    <3>3. CASE Booked(f)
      <4>1. booked'[f] = Added(booked, f) /\ skipped'[f] = skipped[f]
        BY <3>3 DEF RecordFlows, Booked
      <4> QED BY <3>1, <3>2, <4>1 DEF Accounted
    <3>4. CASE ~Booked(f) /\ DeviceOf[f] \in ignored
      <4>1. booked'[f] = booked[f] /\ skipped'[f] = Added(skipped, f)
        BY <1>1, <3>4 DEF RecordFlows
      <4> QED BY <3>1, <3>2, <4>1 DEF Accounted
    <3>5. CASE ~Booked(f) /\ DeviceOf[f] \notin ignored
      <4>1. booked'[f] = booked[f] /\ skipped'[f] = skipped[f]
        BY <3>5 DEF RecordFlows
      <4>2. FlowDelta(f)[d] = 0
        BY <1>1, <3>5 DEF Booked
      <4> QED BY <3>2, <4>1, <4>2 DEF Accounted
    <3> QED BY <3>3, <3>4, <3>5
  <2> QED BY <1>1, <2>1, <2>2, <2>3 DEF RecordFlows, traffic
<1>2. CASE ~Sampled(f)
  <2>1. booked'[f] = booked[f] /\ skipped'[f] = skipped[f]
    BY <1>2 DEF RecordFlows, Booked
  <2>2. flowState'[f] \in {NoRow, flowState[f]}
    BY <1>2 DEF RecordFlows, Followed
  <2> QED BY <1>2, <2>1, <2>2 DEF RecordFlows, traffic, Accounted
<1> QED BY <1>1, <1>2

\* Recording keeps every flow accounted for.
LEMMA RecordCovered ==
    ASSUME TypeOK, NEW f \in Flows, BytesInv(f),
           NEW name \in [Flows -> Dests], RecordFlows(name)
    PROVE  BytesInv(f)'
<1>1. /\ pc = "listed" /\ pc' = "recorded"
      /\ UNCHANGED <<conn, sent, known>> /\ (Live(f)' <=> Live(f))
  BY RecordOne DEF Live
<1>2. CASE Sampled(f)
  <2>1. /\ flowState'[f] # NoRow /\ flowState'[f].bytes = sample[f]
        /\ \A d \in Directions :
             Accounted(f, d)' = Accounted(f, d) + FlowDelta(f)[d]
    BY <1>2, RecordOne
  <2>2. /\ sample[f] # NoConn /\ DeviceOf[f] \in known
        /\ Live(f) => CoveredAfter(f, conn[f])
        /\ \A d \in Directions :
             Accounted(f, d) + FlowDelta(f)[d] <= sent[f][d]
    BY <1>1, <1>2 DEF BytesInv, Sampled
  <2>3. Live(f) => Covered(f, conn[f])'
    BY <1>1, <2>1, <2>2 DEF Covered, CoveredAfter
  <2> QED BY <1>1, <2>1, <2>2, <2>3 DEF BytesInv
<1>3. CASE ~Sampled(f)
  <2>1. /\ flowState'[f] \in {NoRow, flowState[f]}
        /\ \A d \in Directions : Accounted(f, d)' = Accounted(f, d)
    BY <1>3, RecordOne
  <2>2. CASE sample[f] = NoConn
    <3>1. Live(f) => Covered(f, conn[f])'
      BY <1>1, <2>1, <2>2 DEF BytesInv, Covered
    <3> QED BY <1>1, <2>1, <3>1 DEF BytesInv
  <2>3. CASE sample[f] # NoConn
    <3>1. flowState[f] = NoRow
      BY <1>3, <2>3 DEF BytesInv, Sampled
    <3>2. Live(f) => Covered(f, conn[f])'
      BY <1>1, <2>1, <3>1 DEF BytesInv, Covered
    <3> QED BY <1>1, <2>1, <3>1, <3>2 DEF BytesInv
  <2> QED BY <2>2, <2>3
<1> QED BY <1>2, <1>3

\* Every step of conntrack and of the collector keeps every flow accounted
\* for.
LEMMA BytesStep ==
    ASSUME TypeOK, \A f \in Flows : BytesInv(f), [Next]_vars, NEW f \in Flows
    PROVE  BytesInv(f)'
<1> USE DEF traffic, tables
<1>1. BytesInv(f)
  OBVIOUS
<1>2. CASE UNCHANGED vars \/ Tick \/ Cleanup \/ Fail
             \/ (\E a \in Devices : Learn(a))
             \/ (\E D \in SUBSET Devices : ApplyPolicies(D))
  <2>1. UNCHANGED <<conn, sent, booked, skipped, flowState>> /\ known \subseteq known'
    BY <1>2 DEF vars, Tick, Cleanup, Fail, Learn, ApplyPolicies
  <2>2. pc' = "listed" => pc = "listed" /\ UNCHANGED sample
    BY <1>2 DEF vars, Tick, Cleanup, Fail, NoLocals, Learn, ApplyPolicies
  <2>3. CASE pc' = "listed"
    BY <1>1, <2>1, <2>2, <2>3, FlowUntouched
  <2>4. CASE pc' # "listed"
    BY <1>1, <2>1, <2>4 DEF BytesInv, Covered, Accounted, Live
  <2> QED BY <2>3, <2>4
<1>3. ASSUME NEW g \in Flows, Open(g) \/ Close(g) PROVE BytesInv(f)'
  <2>1. UNCHANGED <<sent, booked, skipped, flowState, sample, known, pc>>
    BY <1>3 DEF Open, Close
  <2>2. CASE g # f
    <3>1. conn'[f] = conn[f]
      BY <1>3, <2>2 DEF Open, Close, TypeOK
    <3> QED BY <1>1, <2>1, <3>1, FlowUntouched
  <2>3. CASE g = f /\ Open(g)
    BY <1>1, <2>3, OpenCovered
  <2>4. CASE g = f /\ Close(g)
    <3>1. ~Live(f)'
      BY <2>4 DEF Close, Live, TypeOK
    <3>2. /\ \A d \in Directions : Accounted(f, d)' = Accounted(f, d)
          /\ FlowDelta(f)' = FlowDelta(f)
      BY <2>1 DEF Accounted, FlowDelta, IsReset, Previous
    <3> QED BY <1>1, <2>1, <3>1, <3>2 DEF BytesInv
  <2> QED BY <1>3, <2>2, <2>3, <2>4
<1>4. ASSUME NEW g \in Flows, NEW d \in Directions, Packet(g, d)
      PROVE  BytesInv(f)'
  <2>1. CASE g = f
    BY <1>1, <1>4, <2>1, PacketCovered
  <2>2. CASE g # f
    <3>1. conn'[f] = conn[f] /\ sent'[f] = sent[f]
      BY <1>4, <2>2 DEF Packet, TypeOK
    <3> QED BY <1>1, <1>4, <3>1, FlowUntouched DEF Packet
  <2> QED BY <2>1, <2>2
<1>5. CASE ListFlows
  BY <1>1, <1>5, ListCovered
<1>6. ASSUME NEW name \in [Flows -> Dests], RecordFlows(name)
      PROVE  BytesInv(f)'
  BY <1>1, <1>6, RecordCovered
<1> QED BY <1>2, <1>3, <1>4, <1>5, <1>6 DEF Next

\* A connection that never was sampled has all its bytes still to come.
LEMMA BytesInvariant == Spec => [](\A f \in Flows : BytesInv(f))
<1>1. Init => \A f \in Flows : BytesInv(f)
  BY DEF Init, BytesInv, Accounted, None, Live
<1>2. TypeOK /\ (\A f \in Flows : BytesInv(f)) /\ [Next]_vars
        => (\A f \in Flows : BytesInv(f))'
  BY BytesStep
<1> QED BY <1>1, <1>2, TypeCorrect, PTL DEF Spec

\* No byte of a flow is booked or skipped twice, whatever connections reuse
\* a key, cycles fail and baselines expire.
THEOREM NeverOvercounted == Spec => []FlowNeverOvercounted
<1>1. (\A f \in Flows : BytesInv(f)) => FlowNeverOvercounted
  BY DEF BytesInv, FlowNeverOvercounted, Accounted
<1> QED BY <1>1, BytesInvariant, PTL

----------------------------------------------------------------------------
(* Visits *)

\* The counters c continue the connection whose baseline is kept.
Continues(f, c) ==
    /\ flowState[f] # NoRow
    /\ \A d \in Directions : flowState[f].bytes[d] <= c[d]

\* The visits of a flow once its listed sample is booked.
VisitsAfter(f) == IF IsReset(f) THEN visits[f] + 1 ELSE visits[f]

\* A connection that is not counted yet has its own opening to be counted
\* by, before a listing, and in the same way after it.
VisitInv(f) ==
    /\ visits[f] <= opened[f]
    /\ Live(f) => visits[f] + 1 <= opened[f] \/ Continues(f, conn[f])
    /\ pc = "listed" /\ sample[f] # NoConn =>
         /\ VisitsAfter(f) <= opened[f]
         /\ Live(f) => \/ VisitsAfter(f) + 1 <= opened[f]
                       \/ \A d \in Directions : sample[f][d] <= conn[f][d]
    /\ pc = "listed" /\ sample[f] = NoConn /\ Live(f) =>
         visits[f] + 1 <= opened[f]

\* The counters of a flow's connection only grow while it lives.
LEMMA PacketGrows ==
    ASSUME TypeOK, NEW g \in Flows, NEW e \in Directions, Packet(g, e),
           NEW f \in Flows
    PROVE  /\ UNCHANGED <<clock, opened, flowState, booked, skipped, visits,
                          sample, known, pc>>
           /\ Live(f)' <=> Live(f)
           /\ Live(f) => \A d \in Directions : conn[f][d] <= conn'[f][d]
<1>1. UNCHANGED <<clock, opened, flowState, booked, skipped, visits, sample, known, pc>>
  BY DEF Packet, tables
<1>2. CASE g # f
  <2>1. conn'[f] = conn[f]
    BY <1>2 DEF Packet, TypeOK
  <2> QED BY <1>1, <2>1, Counts DEF Live
<1>3. CASE g = f
  <2>1. conn[f] \in [Directions -> Nat] /\ conn'[f] = [conn[f] EXCEPT ![e] = @ + 1]
    BY <1>3 DEF Packet, TypeOK, Bytes
  <2>2. conn'[f] \in Bytes
    BY <2>1 DEF Bytes
  <2>3. Live(f) /\ Live(f)'
    BY <1>3, <2>2, FlowsAssumption DEF Packet, Live
  <2> QED BY <1>1, <2>1, <2>3
<1> QED BY <1>2, <1>3

\* Every step keeps the visits of a flow below its connections.
LEMMA VisitStep ==
    ASSUME TypeOK, NEW f \in Flows, BytesInv(f), VisitInv(f), [Next]_vars
    PROVE  VisitInv(f)'
<1>1. visits[f] \in Nat /\ opened[f] \in Nat
  BY DEF TypeOK
<1>2. CASE UNCHANGED vars \/ Tick \/ Cleanup \/ Fail
             \/ (\E a \in Devices : Learn(a))
             \/ (\E D \in SUBSET Devices : ApplyPolicies(D))
  <2>1. UNCHANGED <<conn, opened, visits, flowState>>
    BY <1>2 DEF vars, Tick, Cleanup, Fail, Learn, ApplyPolicies, traffic, tables
  <2>2. pc' = "listed" => pc = "listed" /\ UNCHANGED sample
    BY <1>2 DEF vars, Tick, Cleanup, Fail, NoLocals, Learn, ApplyPolicies
  <2>3. CASE pc' = "listed"
    BY <2>1, <2>2, <2>3
       DEF VisitInv, VisitsAfter, IsReset, Previous, Live, Continues
  <2>4. CASE pc' # "listed"
    BY <2>1, <2>4 DEF VisitInv, Live, Continues
  <2> QED BY <2>3, <2>4
<1>3. ASSUME NEW g \in Flows, Open(g) \/ Close(g) PROVE VisitInv(f)'
  <2>1. UNCHANGED <<visits, flowState, sample, pc>>
    BY <1>3 DEF Open, Close, tables
  <2>2. VisitsAfter(f)' = VisitsAfter(f)
    BY <2>1 DEF VisitsAfter, IsReset, Previous
  <2>3. CASE g # f
    <3>1. conn'[f] = conn[f] /\ opened'[f] = opened[f]
      BY <1>3, <2>3 DEF Open, Close, TypeOK
    <3> QED BY <2>1, <2>2, <3>1 DEF VisitInv, Live, Continues
  <2>4. CASE g = f /\ Open(g)
    <3>1. opened'[f] = opened[f] + 1
      BY <2>4 DEF Open, TypeOK
    <3> QED BY <1>1, <2>1, <2>2, <3>1 DEF VisitInv, VisitsAfter
  <2>5. CASE g = f /\ Close(g)
    <3>1. ~Live(f)' /\ opened' = opened
      BY <2>5 DEF Close, Live, TypeOK
    <3> QED BY <2>1, <2>2, <3>1 DEF VisitInv
  <2> QED BY <1>3, <2>3, <2>4, <2>5
<1>4. ASSUME NEW g \in Flows, NEW e \in Directions, Packet(g, e)
      PROVE  VisitInv(f)'
  <2>1. /\ UNCHANGED <<opened, flowState, visits, sample, pc>>
        /\ Live(f)' <=> Live(f)
        /\ Live(f) => \A d \in Directions : conn[f][d] <= conn'[f][d]
    BY <1>4, PacketGrows
  <2>2. VisitsAfter(f)' = VisitsAfter(f)
    BY <2>1 DEF VisitsAfter, IsReset, Previous
  <2>3. \A d \in Directions :
          /\ Live(f) => conn[f][d] \in Nat /\ conn'[f][d] \in Int
          /\ sample[f] # NoConn => sample[f][d] \in Nat
          /\ flowState[f] # NoRow => flowState[f].bytes[d] \in Nat
    <3>1. TypeOK'
      BY <1>4, PacketKeepsTypes
    <3>2. Live(f) => \A d \in Directions : conn'[f][d] \in Nat
      BY <2>1, <3>1 DEF TypeOK, Bytes, Live
    <3> QED BY <3>2, Counts
  <2> QED BY <2>1, <2>2, <2>3 DEF VisitInv, Continues
<1>5. CASE ListFlows
  <2>1. /\ UNCHANGED <<conn, opened, visits, flowState>> /\ sample' = conn
    BY <1>5 DEF ListFlows, traffic, tables
  <2>2. Live(f) => \A d \in Directions :
          /\ conn[f][d] \in Nat
          /\ flowState[f] # NoRow => flowState[f].bytes[d] \in Nat
    BY Counts
  <2>3. Live(f) => VisitsAfter(f)' <= opened[f]
    <3>1. ASSUME Live(f), Continues(f, conn[f]) PROVE ~IsReset(f)'
      BY <2>1, <2>2, <3>1 DEF Continues, IsReset, Previous
    <3>2. VisitsAfter(f)' \in {visits[f], visits[f] + 1}
      BY <2>1 DEF VisitsAfter
    <3> QED BY <1>1, <2>1, <3>1, <3>2 DEF VisitInv, VisitsAfter
  <2> QED BY <2>1, <2>2, <2>3 DEF VisitInv, Live, Continues
<1>6. ASSUME NEW name \in [Flows -> Dests], RecordFlows(name)
      PROVE  VisitInv(f)'
  <2>1. /\ pc = "listed" /\ pc' = "recorded"
        /\ UNCHANGED <<conn, opened>> /\ (Live(f)' <=> Live(f))
    BY <1>6, RecordOne DEF Live
  <2>2. CASE Sampled(f)
    <3>1. flowState'[f] # NoRow /\ flowState'[f].bytes = sample[f]
      BY <1>6, <2>2, RecordOne
    <3>2. visits'[f] \in {visits[f], VisitsAfter(f)} /\ visits'[f] <= VisitsAfter(f)
      <4>1. visits'[f] = IF Booked(f) /\ IsReset(f) THEN visits[f] + 1
                         ELSE visits[f]
        BY <1>6 DEF RecordFlows
      <4> QED BY <1>1, <4>1 DEF VisitsAfter
    <3>3. VisitsAfter(f) \in Nat
      BY <1>1 DEF VisitsAfter
    <3> QED BY <1>1, <2>1, <2>2, <3>1, <3>2, <3>3
            DEF VisitInv, Sampled, Continues
  <2>3. CASE ~Sampled(f)
    <3>1. visits'[f] = visits[f]
      BY <1>6, <2>3 DEF RecordFlows, Booked
    <3>2. flowState'[f] \in {NoRow, flowState[f]}
      BY <1>6, <2>3, RecordOne
    <3>3. sample[f] # NoConn => flowState[f] = NoRow
      BY <2>3 DEF BytesInv, Sampled
    <3> QED BY <2>1, <3>1, <3>2, <3>3 DEF VisitInv, Continues
  <2> QED BY <2>2, <2>3
<1> QED BY <1>2, <1>3, <1>4, <1>5, <1>6 DEF Next

\* A connection is at most one visit, however often it is sampled, and
\* whatever cycles fail between its samples.
THEOREM VisitsCounted == Spec => []OneVisitPerConnection
<1>1. Init => \A f \in Flows : VisitInv(f)
  BY DEF Init, VisitInv, Live
<1>2. TypeOK /\ (\A f \in Flows : BytesInv(f)) /\ (\A f \in Flows : VisitInv(f))
        /\ [Next]_vars => (\A f \in Flows : VisitInv(f))'
  BY VisitStep
<1>3. (\A f \in Flows : VisitInv(f)) => OneVisitPerConnection
  BY DEF VisitInv, OneVisitPerConnection
<1> QED BY <1>1, <1>2, <1>3, TypeCorrect, BytesInvariant, PTL DEF Spec

----------------------------------------------------------------------------
(* Exactness *)

\* A key without a connection has no trace; one that had a single one is
\* accounted for up to its baseline, which that connection grew from.
ExactInv(f) ==
    /\ opened[f] = 0 =>
         /\ ~Live(f) /\ flowState[f] = NoRow
         /\ pc = "listed" => sample[f] = NoConn
         /\ \A d \in Directions : Accounted(f, d) = 0
    /\ opened[f] = 1 =>
         /\ flowState[f] # NoRow =>
              \A d \in Directions :
                /\ Accounted(f, d) = flowState[f].bytes[d]
                /\ Live(f) => flowState[f].bytes[d] <= conn[f][d]
                /\ pc = "listed" /\ sample[f] # NoConn =>
                     flowState[f].bytes[d] <= sample[f][d]
         /\ flowState[f] = NoRow
              /\ (Live(f) \/ (pc = "listed" /\ sample[f] # NoConn)) =>
              \A d \in Directions : Accounted(f, d) = 0
         /\ pc = "listed" /\ sample[f] # NoConn /\ Live(f) =>
              \A d \in Directions : sample[f][d] <= conn[f][d]
         /\ pc = "listed" /\ sample[f] = NoConn /\ flowState[f] # NoRow =>
              ~Live(f)

\* Every step keeps a key with one connection accounted for exactly.
LEMMA ExactStep ==
    ASSUME TypeOK, NEW f \in Flows, BytesInv(f), ExactInv(f), [Next]_vars
    PROVE  ExactInv(f)'
<1>1. opened[f] \in Nat
  BY DEF TypeOK
<1>2. CASE UNCHANGED vars \/ Tick \/ Cleanup \/ Fail
             \/ (\E a \in Devices : Learn(a))
             \/ (\E D \in SUBSET Devices : ApplyPolicies(D))
  <2>1. UNCHANGED <<conn, opened, booked, skipped, flowState>>
    BY <1>2 DEF vars, Tick, Cleanup, Fail, Learn, ApplyPolicies, traffic, tables
  <2>2. pc' = "listed" => pc = "listed" /\ UNCHANGED sample
    BY <1>2 DEF vars, Tick, Cleanup, Fail, NoLocals, Learn, ApplyPolicies
  <2>3. CASE pc' = "listed"
    BY <2>1, <2>2, <2>3 DEF ExactInv, Accounted, Live
  <2>4. CASE pc' # "listed"
    BY <2>1, <2>4 DEF ExactInv, Accounted, Live
  <2> QED BY <2>3, <2>4
<1>3. ASSUME NEW g \in Flows, Open(g) \/ Close(g) PROVE ExactInv(f)'
  <2>1. UNCHANGED <<booked, skipped, flowState, sample, pc>>
    BY <1>3 DEF Open, Close, tables
  <2>2. CASE g # f
    <3>1. conn'[f] = conn[f] /\ opened'[f] = opened[f]
      BY <1>3, <2>2 DEF Open, Close, TypeOK
    <3> QED BY <2>1, <3>1 DEF ExactInv, Accounted, Live
  <2>3. CASE g = f /\ Open(g)
    <3>1. opened'[f] = opened[f] + 1
      BY <2>3 DEF Open, TypeOK
    <3> QED BY <1>1, <2>1, <3>1 DEF ExactInv, Accounted
  <2>4. CASE g = f /\ Close(g)
    <3>1. ~Live(f)' /\ opened' = opened
      BY <2>4 DEF Close, Live, TypeOK
    <3> QED BY <2>1, <3>1 DEF ExactInv, Accounted
  <2> QED BY <1>3, <2>2, <2>3, <2>4
<1>4. ASSUME NEW g \in Flows, NEW e \in Directions, Packet(g, e)
      PROVE  ExactInv(f)'
  <2>1. /\ UNCHANGED <<opened, flowState, booked, skipped, sample, pc>>
        /\ Live(f)' <=> Live(f)
        /\ Live(f) => \A d \in Directions : conn[f][d] <= conn'[f][d]
    BY <1>4, PacketGrows
  <2>2. \A d \in Directions :
          /\ Live(f) => conn[f][d] \in Nat /\ conn'[f][d] \in Int
          /\ sample[f] # NoConn => sample[f][d] \in Nat
          /\ flowState[f] # NoRow => flowState[f].bytes[d] \in Nat
    <3>1. TypeOK'
      BY <1>4, PacketKeepsTypes
    <3>2. Live(f) => \A d \in Directions : conn'[f][d] \in Nat
      BY <2>1, <3>1 DEF TypeOK, Bytes, Live
    <3> QED BY <3>2, Counts
  <2>3. \A d \in Directions : Accounted(f, d)' = Accounted(f, d)
    BY <2>1 DEF Accounted
  <2> QED BY <2>1, <2>2, <2>3 DEF ExactInv
<1>5. CASE ListFlows
  <2>1. /\ UNCHANGED <<conn, opened, booked, skipped, flowState>>
        /\ sample' = conn
    BY <1>5 DEF ListFlows, traffic, tables
  <2>2. Live(f) => \A d \in Directions : conn[f][d] \in Nat
    BY Counts
  <2> QED BY <2>1, <2>2 DEF ExactInv, Accounted, Live
<1>6. ASSUME NEW name \in [Flows -> Dests], RecordFlows(name)
      PROVE  ExactInv(f)'
  <2>1. /\ pc = "listed" /\ pc' = "recorded"
        /\ UNCHANGED <<conn, opened>> /\ (Live(f)' <=> Live(f))
    BY <1>6, RecordOne DEF Live
  <2>2. CASE Sampled(f)
    <3>1. /\ flowState'[f] # NoRow /\ flowState'[f].bytes = sample[f]
          /\ \A d \in Directions :
               Accounted(f, d)' = Accounted(f, d) + FlowDelta(f)[d]
      BY <1>6, <2>2, RecordOne
    <3>2. sample[f] # NoConn /\ opened[f] # 0
      BY <2>1, <2>2 DEF ExactInv, Sampled
    <3>3. ASSUME opened[f] = 1, NEW d \in Directions
          PROVE  Accounted(f, d) + FlowDelta(f)[d] = sample[f][d]
      <4>1. sample[f][d] \in Nat
        BY <3>2, Counts
      <4>2. CASE flowState[f] = NoRow
        BY <2>1, <3>2, <3>3, <4>1, <4>2, Deltas DEF ExactInv, IsReset, Previous
      <4>3. CASE flowState[f] # NoRow
        <5>1. \A e \in Directions :
                /\ flowState[f].bytes[e] \in Nat /\ sample[f][e] \in Nat
                /\ flowState[f].bytes[e] <= sample[f][e]
          BY <2>1, <3>2, <3>3, <4>3, Counts DEF ExactInv
        <5>2. ~IsReset(f)
          BY <4>3, <5>1 DEF IsReset, Previous
        <5>3. Accounted(f, d) = flowState[f].bytes[d]
          BY <3>3, <4>3 DEF ExactInv
        <5> QED BY <5>1, <5>2, <5>3, Deltas
      <4> QED BY <4>2, <4>3
    <3> QED BY <2>1, <3>1, <3>2, <3>3 DEF ExactInv
  <2>3. CASE ~Sampled(f)
    <3>1. /\ flowState'[f] \in {NoRow, flowState[f]}
          /\ \A d \in Directions : Accounted(f, d)' = Accounted(f, d)
      BY <1>6, <2>3, RecordOne
    <3>2. sample[f] # NoConn => flowState[f] = NoRow
      BY <2>3 DEF BytesInv, Sampled
    <3> QED BY <2>1, <3>1, <3>2 DEF ExactInv
  <2> QED BY <2>2, <2>3
<1> QED BY <1>2, <1>3, <1>4, <1>5, <1>6 DEF Next

\* A key that had one connection is accounted for exactly up to its last
\* sample, blocked or not, and whatever cycles failed in between.
THEOREM BaselinesExact == Spec => []ExactUpToBaseline
<1>1. Init => \A f \in Flows : ExactInv(f)
  BY DEF Init, ExactInv, Accounted, None, Live
<1>2. TypeOK /\ (\A f \in Flows : BytesInv(f)) /\ (\A f \in Flows : ExactInv(f))
        /\ [Next]_vars => (\A f \in Flows : ExactInv(f))'
  BY ExactStep
<1>3. (\A f \in Flows : ExactInv(f)) => ExactUpToBaseline
  BY DEF ExactInv, ExactUpToBaseline, Accounted
<1> QED BY <1>1, <1>2, <1>3, TypeCorrect, BytesInvariant, PTL DEF Spec
============================================================================
