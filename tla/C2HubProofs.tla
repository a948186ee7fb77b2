---------------------------- MODULE C2HubProofs ----------------------------
(***************************************************************************)
(* Proofs about the C2 hub for any number of certificates, connections,      *)
(* dispatchers and payloads, and any queue depth.                           *)
(*                                                                         *)
(* NewestSessionReachable is not inductive: that Register puts the newest     *)
(* session into the map needs the fact that connections of one serial are    *)
(* used in order (InOrder), and that Unregister removes nobody else's entry   *)
(* needs RegisteredSessionIsOurs.  HubInv is the conjunction.                *)
(***************************************************************************)
EXTENDS C2HubDelivery, SequenceTheorems, TLAPS

\* The connections of a serial are used in order: a used one has only used predecessors.
InOrder ==
  \A s \in Session : rd[s] # "unused" =>
    \A k \in 1 .. MaxConn : k < s[2] => rd[<<SerialOf(s), k>>] # "unused"

\* A dispatcher inside the select of dispatchRaw holds a session and a payload.
SendingHolds ==
  \A d \in Dispatcher : dpc[d] = "sending" => dsess[d] \in Session /\ dmsg[d] \in Msg

HubInv == HubTypeOK /\ SendingHolds /\ InOrder /\ RegisteredSessionIsOurs /\ NewestSessionReachable

\* A session is the pair of its serial and its number.
LEMMA SessionPair ==
  /\ \A s \in Session : s = <<SerialOf(s), s[2]>> /\ SerialOf(s) \in Serial /\ s[2] \in 1 .. MaxConn
  /\ \A c \in Serial, k \in 1 .. MaxConn :
       <<c, k>> \in Session /\ SerialOf(<<c, k>>) = c /\ <<c, k>>[2] = k
  BY DEF Session, SerialOf

\* The empty hub satisfies the invariant.
LEMMA HubInitInv == HubInit => HubInv
  <1> SUFFICES ASSUME HubInit PROVE HubInv
    OBVIOUS
  <1>1. HubTypeOK
    BY DEF HubInit, HubTypeOK
  <1>2. InOrder /\ SendingHolds
    BY DEF HubInit, InOrder, SendingHolds
  <1>3. RegisteredSessionIsOurs
    BY DEF HubInit, RegisteredSessionIsOurs
  <1>4. NewestSessionReachable
    BY DEF HubInit, NewestSessionReachable, Newest
  <1> QED BY <1>1, <1>2, <1>3, <1>4 DEF HubInv

\* Every action of the hub keeps the types of its variables.
LEMMA HubTypeStep == HubTypeOK /\ SendingHolds /\ [HubNext]_hubVars => HubTypeOK'
  <1> SUFFICES ASSUME HubTypeOK, SendingHolds, [HubNext]_hubVars PROVE HubTypeOK'
    OBVIOUS
  <1> USE DEF HubTypeOK
  <1>1. ASSUME NEW s \in Session, Register(s) PROVE HubTypeOK'
    BY <1>1, SessionPair DEF Register, dispVars
  <1>2. ASSUME NEW s \in Session, StartPumps(s) PROVE HubTypeOK'
    BY <1>2 DEF StartPumps, dispVars
  <1>3. ASSUME NEW s \in Session, ReadEnd(s) PROVE HubTypeOK'
    BY <1>3 DEF ReadEnd, dispVars
  <1>4. ASSUME NEW s \in Session, Unregister(s) PROVE HubTypeOK'
    BY <1>4, SessionPair DEF Unregister, dispVars
  <1>5. ASSUME NEW s \in Session, WriteOk(s) PROVE HubTypeOK'
    <2>1. send[s] \in Seq(Msg) /\ send[s] # <<>>
      BY <1>5 DEF WriteOk
    <2>2. Tail(send[s]) \in Seq(Msg)
      BY <2>1
    <2> QED BY <1>5, <2>2 DEF WriteOk, connVars, dispVars
  <1>6. ASSUME NEW s \in Session, WriteError(s) PROVE HubTypeOK'
    <2>1. send[s] \in Seq(Msg) /\ send[s] # <<>>
      BY <1>6 DEF WriteError
    <2>2. Tail(send[s]) \in Seq(Msg)
      BY <2>1
    <2> QED BY <1>6, <2>2 DEF WriteError, dispVars
  <1>7. ASSUME NEW s \in Session, LinkDown(s) PROVE HubTypeOK'
    BY <1>7 DEF LinkDown, dispVars
  <1>8. ASSUME NEW d \in Dispatcher, NEW c \in Serial, NEW m \in Msg, DispatchLookup(d, c, m)
        PROVE  HubTypeOK'
    <2>1. CASE bySerial[c] = NoSession
      BY <1>8, <2>1 DEF DispatchLookup, connVars
    <2>2. CASE bySerial[c] # NoSession
      <3>1. bySerial[c] \in Session
        BY <2>2
      <3>2. /\ dpc' = [dpc EXCEPT ![d] = "sending"]
            /\ dsess' = [dsess EXCEPT ![d] = bySerial[c]]
            /\ dmsg' = [dmsg EXCEPT ![d] = m]
            /\ UNCHANGED <<connVars, send>>
        BY <1>8, <2>2 DEF DispatchLookup
      <3> QED BY <3>1, <3>2 DEF connVars
    <2> QED BY <2>1, <2>2
  <1>9. ASSUME NEW d \in Dispatcher, DispatchEnqueue(d) PROVE HubTypeOK'
    <2>1. dsess[d] \in Session /\ dmsg[d] \in Msg
      BY <1>9 DEF DispatchEnqueue, SendingHolds
    <2> QED BY <1>9, <2>1 DEF DispatchEnqueue, finish, connVars
  <1>10. ASSUME NEW d \in Dispatcher, DispatchTimeout(d) \/ DispatchPanic(d) PROVE HubTypeOK'
    BY <1>10 DEF DispatchTimeout, DispatchPanic, finish, connVars
  <1>11. ASSUME NEW d \in Dispatcher, DispatchReturn(d) PROVE HubTypeOK'
    BY <1>11 DEF DispatchReturn, connVars
  <1>12. CASE UNCHANGED hubVars
    BY <1>12 DEF hubVars
  <1> QED
    BY <1>1, <1>2, <1>3, <1>4, <1>5, <1>6, <1>7, <1>8, <1>9, <1>10, <1>11, <1>12
    DEF HubNext, SessionStep, DispatchSelect

\* ... and a dispatcher that is sending keeps what it holds.
LEMMA SendingStep == HubTypeOK /\ SendingHolds /\ [HubNext]_hubVars => SendingHolds'
  <1> SUFFICES ASSUME HubTypeOK, SendingHolds, [HubNext]_hubVars PROVE SendingHolds'
    OBVIOUS
  <1>1. ASSUME UNCHANGED dispVars PROVE SendingHolds'
    BY <1>1 DEF dispVars, SendingHolds
  <1>2. ASSUME NEW d \in Dispatcher, NEW c \in Serial, NEW m \in Msg, DispatchLookup(d, c, m)
        PROVE  SendingHolds'
    <2>1. bySerial[c] \in Session \cup {NoSession}
      BY DEF HubTypeOK
    <2>2. dpc \in [Dispatcher -> {"idle", "sending", "true", "false", "panic"}]
          /\ DOMAIN dsess = Dispatcher /\ DOMAIN dmsg = Dispatcher
      BY DEF HubTypeOK
    <2> QED BY <1>2, <2>1, <2>2 DEF DispatchLookup, SendingHolds
  <1>3. ASSUME NEW d \in Dispatcher, NEW r \in {"true", "false", "panic", "idle"},
               dpc' = [dpc EXCEPT ![d] = r],
               \A e \in Dispatcher \ {d} : dsess'[e] = dsess[e] /\ dmsg'[e] = dmsg[e]
        PROVE  SendingHolds'
    BY <1>3 DEF SendingHolds, HubTypeOK
  <1>4. ASSUME NEW d \in Dispatcher, NEW r \in {"true", "false", "panic"}, finish(d, r)
        PROVE  SendingHolds'
    BY <1>4, <1>3 DEF finish, HubTypeOK
  <1>5. ASSUME NEW d \in Dispatcher, DispatchReturn(d) PROVE SendingHolds'
    BY <1>5, <1>3 DEF DispatchReturn
  <1>6. ASSUME NEW d \in Dispatcher, DispatchSelect(d) PROVE SendingHolds'
    BY <1>6, <1>4 DEF DispatchSelect, DispatchEnqueue, DispatchTimeout, DispatchPanic
  <1>7. ASSUME NEW s \in Session, SessionStep(s) \/ LinkDown(s) PROVE UNCHANGED dispVars
    BY <1>7 DEF SessionStep, Register, StartPumps, ReadEnd, Unregister, WriteOk, WriteError, LinkDown
  <1>8. CASE UNCHANGED hubVars
    BY <1>8, <1>1 DEF hubVars, dispVars
  <1> QED BY <1>1, <1>2, <1>5, <1>6, <1>7, <1>8 DEF HubNext

\* A session that is served and only moves on in its own pumps disturbs nobody in the map.
LEMMA PumpMove ==
  ASSUME HubInv, NEW s \in Session, NEW x \in {"reading", "apply", "journal", "unregister"},
         rd[s] \in {"closePrev", "reading", "apply", "journal"}, rd' = [rd EXCEPT ![s] = x],
         UNCHANGED bySerial
  PROVE  (InOrder /\ RegisteredSessionIsOurs /\ NewestSessionReachable)'
  <1>1. /\ rd \in [Session -> {"unused", "closePrev", "reading", "apply", "journal", "unregister", "done"}]
        /\ bySerial \in [Serial -> Session \cup {NoSession}]
        /\ InOrder /\ RegisteredSessionIsOurs /\ NewestSessionReachable
    BY DEF HubInv, HubTypeOK
  <1>2. \A t \in Session : rd'[t] = "unused" <=> rd[t] = "unused"
    BY <1>1
  <1>3. InOrder'
    BY <1>1, <1>2, SessionPair DEF InOrder
  <1>4. RegisteredSessionIsOurs'
    BY <1>1 DEF RegisteredSessionIsOurs
  <1>5. \A t \in Session : Newest(t)' /\ Serving(t)' => Newest(t) /\ Serving(t)
    BY <1>1, <1>2, SessionPair DEF Newest, Serving
  <1>6. NewestSessionReachable'
    BY <1>1, <1>5 DEF NewestSessionReachable
  <1> QED BY <1>3, <1>4, <1>6

\* The invariant is inductive: who is in the map, and in which order connections came.
LEMMA HubRegistryStep == HubInv /\ [HubNext]_hubVars =>
                           (InOrder /\ RegisteredSessionIsOurs /\ NewestSessionReachable)'
  <1> SUFFICES ASSUME HubInv, [HubNext]_hubVars
               PROVE  (InOrder /\ RegisteredSessionIsOurs /\ NewestSessionReachable)'
    OBVIOUS
  <1> DEFINE Goal == InOrder /\ RegisteredSessionIsOurs /\ NewestSessionReachable
  <1>1. /\ rd \in [Session -> {"unused", "closePrev", "reading", "apply", "journal", "unregister", "done"}]
        /\ bySerial \in [Serial -> Session \cup {NoSession}]
        /\ InOrder /\ RegisteredSessionIsOurs /\ NewestSessionReachable
    BY DEF HubInv, HubTypeOK
  <1>2. ASSUME UNCHANGED <<rd, bySerial>> PROVE Goal'
    BY <1>1, <1>2 DEF InOrder, RegisteredSessionIsOurs, NewestSessionReachable, Newest, Serving
  <1>3. ASSUME NEW s \in Session, Register(s) PROVE Goal'
    <2>1. /\ rd' = [rd EXCEPT ![s] = "closePrev"] /\ rd[s] = "unused"
          /\ bySerial' = [bySerial EXCEPT ![SerialOf(s)] = s]
          /\ \A k \in 1 .. MaxConn : k < s[2] => rd[<<SerialOf(s), k>>] # "unused"
      BY <1>3 DEF Register
    <2>2. \A t \in Session : SerialOf(t) = SerialOf(s) /\ t[2] > s[2] => rd[t] = "unused"
      BY <1>1, <2>1, SessionPair DEF InOrder
    <2>3. InOrder'
      BY <1>1, <2>1, SessionPair DEF InOrder
    <2>4. RegisteredSessionIsOurs'
      BY <1>1, <2>1, SessionPair, HubAssumption DEF RegisteredSessionIsOurs
    <2>5. NewestSessionReachable'
      <3> SUFFICES ASSUME NEW t \in Session, Newest(t)', Serving(t)'
                   PROVE  bySerial'[SerialOf(t)] = t
        BY DEF NewestSessionReachable
      <3>1. CASE t = s
        BY <1>1, <2>1, <3>1, SessionPair
      <3>2. CASE SerialOf(t) # SerialOf(s)
        <4>1. \A k \in 1 .. MaxConn : rd'[<<SerialOf(t), k>>] = rd[<<SerialOf(t), k>>]
          BY <1>1, <2>1, <3>2, SessionPair
        <4>2. Newest(t) /\ Serving(t)
          BY <1>1, <2>1, <3>2, <4>1, SessionPair DEF Newest, Serving
        <4> QED BY <1>1, <2>1, <3>2, <4>2, SessionPair DEF NewestSessionReachable
      <3>3. CASE t # s /\ SerialOf(t) = SerialOf(s)
        <4>1. t[2] # s[2] /\ rd'[s] # "unused" /\ s = <<SerialOf(t), s[2]>> /\ s[2] \in 1 .. MaxConn
          BY <1>1, <2>1, <3>3, SessionPair
        <4>2. ~(s[2] > t[2])
          BY <4>1 DEF Newest
        <4>3. t[2] > s[2]
          BY <4>1, <4>2, SessionPair, HubAssumption
        <4>4. rd'[t] = "unused"
          BY <1>1, <2>1, <2>2, <3>3, <4>3
        <4> QED BY <4>4 DEF Serving
      <3> QED BY <3>1, <3>2, <3>3
    <2> QED BY <2>3, <2>4, <2>5
  <1>5. ASSUME NEW s \in Session, StartPumps(s) \/ ReadEnd(s) PROVE Goal'
    BY <1>5, PumpMove DEF StartPumps, ReadEnd
  <1>6. ASSUME NEW s \in Session, Unregister(s) PROVE Goal'
    <2>1. /\ rd[s] = "unregister" /\ rd' = [rd EXCEPT ![s] = "done"]
          /\ bySerial' = IF bySerial[SerialOf(s)] = s
                         THEN [bySerial EXCEPT ![SerialOf(s)] = NoSession]
                         ELSE bySerial
      BY <1>6 DEF Unregister
    <2>2. \A t \in Session : rd'[t] = "unused" <=> rd[t] = "unused"
      BY <1>1, <2>1
    <2>3. InOrder'
      BY <1>1, <2>2, SessionPair DEF InOrder
    <2>4. RegisteredSessionIsOurs'
      BY <1>1, <2>1, SessionPair, HubAssumption DEF RegisteredSessionIsOurs
    <2>5. \A t \in Session : Newest(t)' /\ Serving(t)' => Newest(t) /\ Serving(t) /\ t # s
      BY <1>1, <2>1, <2>2, SessionPair DEF Newest, Serving
    <2>6. NewestSessionReachable'
      BY <1>1, <2>1, <2>5, SessionPair DEF NewestSessionReachable
    <2> QED BY <2>3, <2>4, <2>6
  <1>7. ASSUME NEW s \in Session, WriteOk(s) \/ WriteError(s) \/ LinkDown(s) PROVE Goal'
    BY <1>2, <1>7 DEF WriteOk, WriteError, LinkDown, connVars
  <1>8. ASSUME NEW d \in Dispatcher, NEW c \in Serial, NEW m \in Msg, DispatchLookup(d, c, m)
        PROVE  Goal'
    BY <1>2, <1>8 DEF DispatchLookup, connVars
  <1>9. ASSUME NEW d \in Dispatcher, DispatchSelect(d) \/ DispatchReturn(d) PROVE Goal'
    BY <1>2, <1>9 DEF DispatchSelect, DispatchEnqueue, DispatchTimeout, DispatchPanic,
                      DispatchReturn, finish, connVars
  <1>10. CASE UNCHANGED hubVars
    BY <1>2, <1>10 DEF hubVars
  <1> QED BY <1>3, <1>5, <1>6, <1>7, <1>8, <1>9, <1>10 DEF HubNext, SessionStep

\* HubInv holds in every reachable state.
THEOREM HubInvariant == HubSpec => []HubInv
  <1>1. HubInv /\ [HubNext]_hubVars => HubInv'
    BY HubTypeStep, SendingStep, HubRegistryStep DEF HubInv
  <1> QED BY <1>1, HubInitInv, PTL DEF HubSpec

\* However connections of a certificate overlap, the newest one that is served is the one
\* dispatchRaw finds: the late unregister of a replaced session never removes it.
THEOREM NewestReachable == HubSpec => []NewestSessionReachable
  BY HubInvariant, PTL DEF HubInv

\* The hub's variables keep their types (no dispatch or teardown writes outside the map, the
\* channels or the sessions that exist), and the session the map holds for a serial is of that
\* serial and its unregister has not run (Hub and agentSession in hub.go).
THEOREM RegistryIsSound == HubSpec => []RegistryInv
  <1>1. HubInv => RegistryInv
    BY DEF HubInv, RegistryInv
  <1> QED BY <1>1, HubInvariant, PTL

-----------------------------------------------------------------------------
(* The order of delivery.                                                    *)

\* Reading the head of a queue moves the boundary between read and queued, not the whole.
LEMMA HeadMoves ==
  ASSUME NEW S, NEW r \in Seq(S), NEW q \in Seq(S), q # <<>>
  PROVE  Append(r, Head(q)) \o Tail(q) = r \o q
  <1> DEFINE a == Append(r, Head(q))
             t == Tail(q)
  <1>1. /\ Head(q) \in S /\ Head(q) = q[1] /\ t \in Seq(S) /\ Len(t) = Len(q) - 1
        /\ \A i \in 1 .. Len(t) : t[i] = q[i + 1]
    BY HeadTailProperties
  <1>2. /\ a \in Seq(S) /\ Len(a) = Len(r) + 1 /\ a[Len(r) + 1] = q[1]
        /\ \A i \in 1 .. Len(r) : a[i] = r[i]
    BY <1>1, AppendProperties
  <1> HIDE DEF a, t
  <1>3. Len(r) \in Nat /\ Len(q) \in Nat \ {0} /\ Len(t) \in Nat
    BY <1>1, EmptySeq, LenProperties
  <1>4. /\ a \o t \in Seq(S) /\ r \o q \in Seq(S)
        /\ Len(a \o t) = Len(a) + Len(t) /\ Len(r \o q) = Len(r) + Len(q)
        /\ \A i \in 1 .. Len(a) + Len(t) : (a \o t)[i] = IF i <= Len(a) THEN a[i] ELSE t[i - Len(a)]
        /\ \A i \in 1 .. Len(r) + Len(q) : (r \o q)[i] = IF i <= Len(r) THEN r[i] ELSE q[i - Len(r)]
    BY <1>1, <1>2, ConcatProperties
  <1>5. Len(a \o t) = Len(r \o q)
    BY <1>1, <1>2, <1>3, <1>4
  <1>6. ASSUME NEW i \in 1 .. Len(a \o t) PROVE (a \o t)[i] = (r \o q)[i]
    <2>1. i \in 1 .. Len(a) + Len(t) /\ i \in 1 .. Len(r) + Len(q)
      BY <1>4, <1>5, <1>6
    <2>2. CASE i <= Len(r)
      BY <1>2, <1>3, <1>4, <2>1, <2>2
    <2>3. CASE i = Len(r) + 1
      <3>1. i - Len(r) = 1
        BY <1>3, <2>3
      <3> QED BY <1>2, <1>3, <1>4, <2>1, <2>3, <3>1
    <2>4. CASE i > Len(r) + 1
      <3>1. (a \o t)[i] = t[i - Len(a)] /\ (r \o q)[i] = q[i - Len(r)]
        BY <1>2, <1>3, <1>4, <2>1, <2>4
      <3>2. i - Len(a) \in 1 .. Len(t) /\ (i - Len(a)) + 1 = i - Len(r)
        BY <1>2, <1>3, <2>1, <2>4
      <3> QED BY <1>1, <3>1, <3>2
    <2> QED BY <1>3, <2>1, <2>2, <2>3, <2>4
  <1>7. a \o t = r \o q
    BY <1>4, <1>5, <1>6, SeqEqual
  <1> QED BY <1>7 DEF a, t

\* Queueing a payload appends it to the whole.
LEMMA QueueGrows == \A r, q \in Seq(Msg), e \in Msg : Append(r \o q, e) = r \o Append(q, e)
  <1> SUFFICES ASSUME NEW r \in Seq(Msg), NEW q \in Seq(Msg), NEW e \in Msg
               PROVE  Append(r \o q, e) = r \o Append(q, e)
    BY Zenon
  <1>1. r \o q \in Seq(Msg) /\ <<e>> \in Seq(Msg)
    BY ConcatProperties
  <1>2. Append(r \o q, e) = (r \o q) \o <<e>> /\ Append(q, e) = q \o <<e>>
    BY <1>1, AppendIsConcat
  <1> QED BY <1>1, <1>2, ConcatAssociative

\* The part read so far is a prefix of the whole.
LEMMA ReadIsPrefix ==
  ASSUME NEW S, NEW r \in Seq(S), NEW q \in Seq(S)
  PROVE  Len(r) <= Len(r \o q) /\ \A i \in 1 .. Len(r) : r[i] = (r \o q)[i]
  <1>1. Len(r) \in Nat /\ Len(q) \in Nat
    BY LenProperties
  <1>2. /\ Len(r \o q) = Len(r) + Len(q)
        /\ \A i \in 1 .. Len(r) + Len(q) : (r \o q)[i] = IF i <= Len(r) THEN r[i] ELSE q[i - Len(r)]
    BY ConcatProperties
  <1> QED BY <1>1, <1>2

HistoryTypes == accepted \in [Session -> Seq(Msg)] /\ received \in [Session -> Seq(Msg)]

\* Nothing has passed through a session that is not registered yet.
UnusedIsEmpty ==
  \A s \in Session : rd[s] = "unused" => accepted[s] = <<>> /\ received[s] = <<>> /\ send[s] = <<>>

\* A dispatch found its session in the map.
SendsToUsed == \A d \in Dispatcher : dpc[d] = "sending" => rd[dsess[d]] # "unused"

DeliveryInv == HubInv /\ HistoryTypes /\ UnusedIsEmpty /\ SendsToUsed /\ DeliveredInOrder

\* The histories watch the hub: every step is one of the hub's own.
LEMMA DeliveryIsHub == [DeliveryNext]_dvars => [HubNext]_hubVars
  BY DEF DeliveryNext, dvars, HubNext, SessionStep, DispatchSelect

\* Each end of the channel keeps the order.
LEMMA DeliveryStep == DeliveryInv /\ [DeliveryNext]_dvars => DeliveryInv'
  <1> SUFFICES ASSUME DeliveryInv, [DeliveryNext]_dvars PROVE DeliveryInv'
    OBVIOUS
  <1>1. /\ rd \in [Session -> {"unused", "closePrev", "reading", "apply", "journal", "unregister", "done"}]
        /\ bySerial \in [Serial -> Session \cup {NoSession}] /\ send \in [Session -> Seq(Msg)]
        /\ dpc \in [Dispatcher -> {"idle", "sending", "true", "false", "panic"}]
        /\ dsess \in [Dispatcher -> Session \cup {NoSession}]
        /\ conn \in [Session -> {"unused", "open", "closed"}] /\ link \in [Session -> BOOLEAN]
        /\ accepted \in [Session -> Seq(Msg)] /\ received \in [Session -> Seq(Msg)]
        /\ UnusedIsEmpty /\ SendsToUsed /\ DeliveredInOrder
    BY DEF DeliveryInv, HubInv, HubTypeOK, HistoryTypes
  <1>2. HubInv'
    BY DeliveryIsHub, HubRegistryStep, HubTypeStep, SendingStep DEF DeliveryInv, HubInv
  <1>3. ASSUME UNCHANGED <<accepted, received, send>>,
               \A s \in Session : rd'[s] = "unused" => rd[s] = "unused",
               \A s \in Session : link'[s] /\ conn'[s] = "open" => (link[s] /\ conn[s] = "open") \/ rd[s] = "unused",
               SendsToUsed'
        PROVE  DeliveryInv'
    <2>1. HistoryTypes' /\ UnusedIsEmpty'
      BY <1>1, <1>3 DEF HistoryTypes, UnusedIsEmpty
    <2>2. <<>> = <<>> \o <<>>
      BY ConcatEmptySeq, EmptySeq
    <2>3. DeliveredInOrder'
      <3> SUFFICES ASSUME NEW s \in Session, link'[s], conn'[s] = "open" PROVE accepted[s] = received[s] \o send[s]
        BY <1>1, <1>3 DEF DeliveredInOrder
      <3>1. CASE link[s] /\ conn[s] = "open"
        BY <1>1, <3>1 DEF DeliveredInOrder
      <3>2. CASE rd[s] = "unused"
        BY <1>1, <2>2, <3>2 DEF UnusedIsEmpty
      <3> QED BY <1>3, <3>1, <3>2
    <2> QED BY <1>2, <1>3, <2>1, <2>3 DEF DeliveryInv
  <1>4. ASSUME NEW s \in Session, Register(s) \/ StartPumps(s) \/ ReadEnd(s) \/ Unregister(s) \/ LinkDown(s),
               UNCHANGED <<accepted, received>>
        PROVE  DeliveryInv'
    <2>1. UNCHANGED <<send, dpc, dsess>>
      BY <1>4 DEF Register, StartPumps, ReadEnd, Unregister, LinkDown, dispVars
    <2>2. \A r \in Session : rd'[r] = "unused" => rd[r] = "unused"
      BY <1>1, <1>4 DEF Register, StartPumps, ReadEnd, Unregister, LinkDown
    <2>3. \A r \in Session : link'[r] /\ conn'[r] = "open" => (link[r] /\ conn[r] = "open") \/ rd[r] = "unused"
      BY <1>1, <1>4 DEF Register, StartPumps, ReadEnd, Unregister, LinkDown
    <2>4. SendsToUsed'
      BY <1>1, <2>1, <2>2 DEF SendsToUsed, DeliveryInv, HubInv, SendingHolds
    <2> QED BY <1>3, <1>4, <2>1, <2>2, <2>3, <2>4
  <1>5. ASSUME NEW d \in Dispatcher,
               \/ \E c \in Serial, m \in Msg : DispatchLookup(d, c, m)
               \/ DispatchTimeout(d) \/ DispatchPanic(d) \/ DispatchReturn(d),
               UNCHANGED <<accepted, received>>
        PROVE  DeliveryInv'
    <2>1. UNCHANGED <<send, rd, link, conn>>
      BY <1>5 DEF DispatchLookup, DispatchTimeout, DispatchPanic, DispatchReturn, finish, connVars
    <2>2. \A e \in Dispatcher : dpc'[e] = "sending" =>
            \/ dpc[e] = "sending" /\ dsess'[e] = dsess[e]
            \/ \E c \in Serial : bySerial[c] # NoSession /\ dsess'[e] = bySerial[c]
      BY <1>1, <1>5 DEF DispatchLookup, DispatchTimeout, DispatchPanic, DispatchReturn, finish
    <2>3. SendsToUsed'
      BY <1>1, <2>1, <2>2 DEF SendsToUsed, DeliveryInv, HubInv, RegisteredSessionIsOurs
    <2> QED BY <1>3, <1>5, <2>1, <2>3
  <1>6. ASSUME NEW s \in Session, WriteOk(s), UNCHANGED accepted,
               received' = IF link[s] THEN [received EXCEPT ![s] = Append(@, Head(send[s]))] ELSE received
        PROVE  DeliveryInv'
    <2>1. /\ send[s] \in Seq(Msg) /\ send[s] # <<>> /\ conn[s] = "open" /\ received[s] \in Seq(Msg)
          /\ send' = [send EXCEPT ![s] = Tail(@)] /\ UNCHANGED <<rd, link, conn, dpc, dsess>>
      BY <1>1, <1>6 DEF WriteOk, connVars, dispVars
    <2>2. Head(send[s]) \in Msg /\ Tail(send[s]) \in Seq(Msg)
      BY <2>1, HeadTailProperties
    <2>3. Append(received[s], Head(send[s])) \in Seq(Msg)
      BY <2>1, <2>2, AppendProperties
    <2>4. HistoryTypes'
      BY <1>1, <1>6, <2>3 DEF HistoryTypes
    <2>5. UnusedIsEmpty' /\ SendsToUsed'
      BY <1>1, <1>6, <2>1 DEF UnusedIsEmpty, SendsToUsed
    <2>6. DeliveredInOrder'
      <3>1. CASE ~link[s]
        BY <1>1, <1>6, <2>1, <3>1 DEF DeliveredInOrder
      <3>2. CASE link[s]
        <4>1. accepted[s] = received[s] \o send[s]
          BY <2>1, <3>2, <1>1 DEF DeliveredInOrder
        <4>2. received'[s] = Append(received[s], Head(send[s])) /\ send'[s] = Tail(send[s])
          BY <1>1, <1>6, <2>1, <3>2
        <4>3. accepted[s] = received'[s] \o send'[s]
          BY <2>1, <4>1, <4>2, HeadMoves
        <4>4. Len(received'[s]) <= Len(accepted[s]) /\ \A i \in 1 .. Len(received'[s]) : received'[s][i] = accepted[s][i]
          <5>1. received'[s] \in Seq(Msg) /\ send'[s] \in Seq(Msg)
            BY <2>2, <2>3, <4>2
          <5>2. /\ Len(received'[s]) <= Len(received'[s] \o send'[s])
                /\ \A i \in 1 .. Len(received'[s]) : received'[s][i] = (received'[s] \o send'[s])[i]
            BY <5>1, ReadIsPrefix
          <5> QED BY <4>3, <5>2
        <4>5. \A r \in Session : r # s => received'[r] = received[r] /\ send'[r] = send[r]
          BY <1>1, <1>6, <2>1
        <4> QED BY <1>1, <1>6, <2>1, <4>3, <4>4, <4>5 DEF DeliveredInOrder
      <3> QED BY <3>1, <3>2
    <2> QED BY <1>2, <2>4, <2>5, <2>6 DEF DeliveryInv
  <1>7. ASSUME NEW s \in Session, WriteError(s), UNCHANGED <<accepted, received>> PROVE DeliveryInv'
    <2>1. /\ send[s] # <<>> /\ send' = [send EXCEPT ![s] = Tail(@)] /\ conn' = [conn EXCEPT ![s] = "closed"]
          /\ UNCHANGED <<rd, link, dpc, dsess>>
      BY <1>7 DEF WriteError, dispVars
    <2>2. HistoryTypes' /\ UnusedIsEmpty' /\ SendsToUsed'
      BY <1>1, <1>7, <2>1 DEF HistoryTypes, UnusedIsEmpty, SendsToUsed
    <2>3. DeliveredInOrder'
      BY <1>1, <1>7, <2>1 DEF DeliveredInOrder
    <2> QED BY <1>2, <2>2, <2>3 DEF DeliveryInv
  <1>8. ASSUME NEW d \in Dispatcher, DispatchEnqueue(d), UNCHANGED received,
               accepted' = [accepted EXCEPT ![dsess[d]] = Append(@, dmsg[d])]
        PROVE  DeliveryInv'
    <2>0. dpc[d] = "sending" /\ dsess[d] \in Session /\ dmsg[d] \in Msg /\ rd[dsess[d]] # "unused"
      BY <1>1, <1>8 DEF DispatchEnqueue, DeliveryInv, HubInv, SendingHolds, SendsToUsed
    <2>2. PICK s \in Session, m \in Msg : s = dsess[d] /\ m = dmsg[d] /\ rd[s] # "unused"
      BY <2>0
    <2>1. /\ dpc[d] = "sending" /\ send' = [send EXCEPT ![s] = Append(@, m)] /\ UNCHANGED <<rd, link, conn>>
          /\ dpc' = [dpc EXCEPT ![d] = "true"] /\ dsess' = [dsess EXCEPT ![d] = NoSession]
      BY <1>8, <2>2 DEF DispatchEnqueue, finish, connVars
    <2>3. accepted' = [accepted EXCEPT ![s] = Append(@, m)]
      BY <1>8, <2>2
    <2>4. Append(accepted[s], m) \in Seq(Msg) /\ Append(send[s], m) \in Seq(Msg)
      BY <1>1, <2>2, AppendProperties
    <2>a. UNCHANGED received
      BY <1>8
    <2>5. HistoryTypes'
      BY <1>1, <2>2, <2>3, <2>4, <2>a DEF HistoryTypes
    <2>6. UnusedIsEmpty'
      BY <1>1, <2>1, <2>2, <2>3, <2>a DEF UnusedIsEmpty
    <2>7. SendsToUsed'
      BY <1>1, <2>1 DEF SendsToUsed
    <2>8. DeliveredInOrder'
      <3>1. \A r \in Session : r # s => accepted'[r] = accepted[r] /\ send'[r] = send[r]
        BY <1>1, <2>1, <2>3
      <3>2. accepted'[s] = Append(accepted[s], m) /\ send'[s] = Append(send[s], m)
        BY <1>1, <2>1, <2>2, <2>3
      <3>3. /\ Len(accepted'[s]) = Len(accepted[s]) + 1 /\ Len(accepted[s]) \in Nat /\ Len(received[s]) \in Nat
            /\ \A i \in 1 .. Len(accepted[s]) : accepted'[s][i] = accepted[s][i]
        BY <1>1, <2>2, <3>2, AppendProperties, LenProperties
      <3>4. Len(received[s]) <= Len(accepted[s]) /\ \A i \in 1 .. Len(received[s]) : received[s][i] = accepted[s][i]
        BY <1>1, <2>2 DEF DeliveredInOrder
      <3>5. Len(received[s]) <= Len(accepted'[s]) /\ \A i \in 1 .. Len(received[s]) : received[s][i] = accepted'[s][i]
        BY <3>3, <3>4
      <3>6. link[s] /\ conn[s] = "open" => accepted'[s] = received[s] \o send'[s]
        <4> SUFFICES ASSUME link[s], conn[s] = "open" PROVE accepted'[s] = received[s] \o send'[s]
          OBVIOUS
        <4>1. accepted[s] = received[s] \o send[s]
          BY <1>1, <2>2 DEF DeliveredInOrder
        <4>2. received[s] \in Seq(Msg) /\ send[s] \in Seq(Msg)
          BY <1>1, <2>2
        <4>3. PICK r \in Seq(Msg), q \in Seq(Msg) : r = received[s] /\ q = send[s]
          BY <4>2
        <4>4. Append(r \o q, m) = r \o Append(q, m)
          BY QueueGrows, Zenon
        <4>5. accepted'[s] = Append(r \o q, m) /\ send'[s] = Append(q, m)
          BY <3>2, <4>1, <4>3, Zenon
        <4> QED BY <4>3, <4>4, <4>5, Zenon
      <3>7. ASSUME NEW r \in Session
            PROVE  /\ Len(received[r]) <= Len(accepted'[r])
                   /\ \A i \in 1 .. Len(received[r]) : received[r][i] = accepted'[r][i]
                   /\ link[r] /\ conn[r] = "open" => accepted'[r] = received[r] \o send'[r]
        <4>1. CASE r = s
          BY <3>5, <3>6, <4>1, Zenon
        <4>2. CASE r # s
          BY <1>1, <3>1, <4>2 DEF DeliveredInOrder
        <4> QED BY <4>1, <4>2
      <3> QED BY <2>1, <2>a, <3>7 DEF DeliveredInOrder
    <2> QED BY <1>2, <2>5, <2>6, <2>7, <2>8 DEF DeliveryInv
  <1>9. CASE UNCHANGED dvars
    <2>1. UNCHANGED <<accepted, received, send, rd, link, conn, dpc, dsess>>
      BY <1>9 DEF dvars, hubVars
    <2>2. SendsToUsed'
      BY <1>1, <2>1 DEF SendsToUsed
    <2> QED BY <1>3, <2>1, <2>2
  <1> QED BY <1>4, <1>5, <1>6, <1>7, <1>8, <1>9 DEF DeliveryNext

\* For any queue depth and any number of dispatchers and connections, payloads reach the agent in
\* the order the hub accepted them, once, and writePump loses none while both ends are up.
THEOREM DeliveryInOrder == DeliverySpec => []DeliveredInOrder
  <1>1. DeliveryInit => DeliveryInv
    <2> SUFFICES ASSUME DeliveryInit PROVE DeliveryInv
      OBVIOUS
    <2>1. HubInv
      BY HubInitInv DEF DeliveryInit
    <2>2. /\ accepted = [s \in Session |-> <<>>] /\ received = [s \in Session |-> <<>>]
          /\ send = [s \in Session |-> <<>>] /\ dpc = [d \in Dispatcher |-> "idle"]
      BY DEF DeliveryInit, HubInit
    <2>3. <<>> \in Seq(Msg) /\ Len(<<>>) = 0 /\ <<>> \o <<>> = <<>>
      BY EmptySeq, ConcatEmptySeq
    <2>4. HistoryTypes /\ UnusedIsEmpty /\ SendsToUsed
      BY <2>2, <2>3 DEF HistoryTypes, UnusedIsEmpty, SendsToUsed
    <2>5. DeliveredInOrder
      BY <2>2, <2>3 DEF DeliveredInOrder
    <2> QED BY <2>1, <2>4, <2>5 DEF DeliveryInv
  <1>2. DeliveryInv => DeliveredInOrder
    BY DEF DeliveryInv
  <1> QED BY <1>1, <1>2, DeliveryStep, PTL DEF DeliverySpec
=============================================================================
