-------------------------- MODULE ZigBeeLinkProofs --------------------------
(***************************************************************************)
(* Proofs about ZigBeeLink, for any frames, channels, link qualities and   *)
(* bounds: its types; from the contract between the bytes on the line and  *)
(* the field the scanner reads, that the scanner stays in step and keeps   *)
(* exactly the beacons; and, from the window over the last bytes, that the *)
(* init task misses no reset and leaves an XBee that is quiet.             *)
(***************************************************************************)
EXTENDS ZigBeeLink, SequenceTheorems, TLAPS

-----------------------------------------------------------------------------
(* What a message looks like on the line                                   *)

\* The commands and the reset sequence are bytes.
LEMMA SequenceBytes ==
    /\ SeqLen = 12
    /\ initialized_sequence \in Seq(Byte)
    /\ Len(initialized_sequence) = 12
    /\ initialized_sequence # <<>>
    /\ \A k \in 1..12 : initialized_sequence[k] \notin {0, 2, 6, 7, 10, 13}
  BY DEF SeqLen, initialized_sequence, Byte

\* The kinds of message and what they carry.
LEMMA MessageKinds ==
    ASSUME NEW m \in Messages
    PROVE  \/ m.type = "INITIALIZED"
           \/ m.type = "SCAN_DONE"
           \/ m.type = "CHAN_IS" /\ m.chan \in Channels
           \/ /\ m.type = "RECEIVED_PACKET"
              /\ m.band \in Channels /\ m.lqi \in LQIs /\ m.frame \in Frames
  BY DEF Messages

\* A frame behind a header of eight bytes.
LEMMA BehindHeader ==
    ASSUME NEW S, NEW h \in Seq(S), Len(h) = 8, NEW f \in Seq(S)
    PROVE  /\ h \o f \in Seq(S)
           /\ Len(h \o f) = 8 + Len(f)
           /\ \A k \in 1..(8 + Len(f)) : (h \o f)[k] = IF k <= 8 THEN h[k] ELSE f[k - 8]
<1>1. /\ h \o f \in Seq(S)
      /\ Len(h \o f) = Len(h) + Len(f)
      /\ \A i \in 1..(Len(h) + Len(f)) :
             (h \o f)[i] = IF i <= Len(h) THEN h[i] ELSE f[i - Len(h)]
  BY ConcatProperties
<1> QED
  BY <1>1

\* The bytes of a packet: eight of a header, of which the last is the length, and
\* the frame.
LEMMA PacketBytes ==
    ASSUME NEW m \in Messages, m.type = "RECEIVED_PACKET"
    PROVE  /\ Bytes(m) \in Seq(Byte)
           /\ Len(Bytes(m)) = 8 + Len(m.frame)
           /\ Bytes(m)[1] = 2
           /\ Bytes(m)[2] = m.band
           /\ Bytes(m)[3] = m.lqi
           /\ Bytes(m)[8] = Len(m.frame)
           /\ \A k \in 1..Len(m.frame) : Bytes(m)[8 + k] = m.frame[k]
<1> DEFINE h == <<RECEIVED_PACKET, m.band, m.lqi, 0, 0, 0, 0, Len(m.frame)>>
<1>3. Bytes(m) = h \o m.frame
  BY DEF Bytes
<1>1. m.band \in Byte /\ m.lqi \in Byte /\ m.frame \in Seq(Byte) /\ Len(m.frame) \in 1..127
  <2>1. m.band \in Channels /\ m.lqi \in LQIs /\ m.frame \in Frames
    BY MessageKinds
  <2>2. m.frame \in Seq(Byte) /\ Len(m.frame) \in 1..127
    BY <2>1, FramesAssumption DEF FramesAssumption
  <2>3. m.lqi \in Byte
    BY <2>1, NumbersAssumption
  <2>4. m.band \in 0..15
    BY <2>1, NumbersAssumption
  <2>5. m.band \in Byte
    BY <2>4 DEF Byte
  <2> QED
    BY <2>2, <2>3, <2>5
<1>2. /\ h \in Seq(Byte) /\ Len(h) = 8
      /\ h[1] = 2 /\ h[2] = m.band /\ h[3] = m.lqi /\ h[8] = Len(m.frame)
  BY <1>1 DEF Byte, RECEIVED_PACKET
<1> HIDE DEF h
<1>4. /\ h \o m.frame \in Seq(Byte)
      /\ Len(h \o m.frame) = 8 + Len(m.frame)
      /\ \A k \in 1..(8 + Len(m.frame)) :
             (h \o m.frame)[k] = IF k <= 8 THEN h[k] ELSE m.frame[k - 8]
  <2>1. h \in Seq(Byte) /\ Len(h) = 8 /\ m.frame \in Seq(Byte)
    BY <1>1, <1>2
  <2> QED
    BY <2>1, BehindHeader
<1>5. \A k \in 1..Len(m.frame) : Bytes(m)[8 + k] = m.frame[k]
  BY <1>1, <1>3, <1>4
<1>6. Bytes(m)[1] = h[1] /\ Bytes(m)[2] = h[2] /\ Bytes(m)[3] = h[3] /\ Bytes(m)[8] = h[8]
  BY <1>1, <1>3, <1>4
<1> QED
  BY <1>2, <1>3, <1>4, <1>5, <1>6

\* Every message is a sequence of one byte or more, and a packet is known by its
\* first.
LEMMA MessageBytes ==
    ASSUME NEW m \in Messages
    PROVE  /\ Bytes(m) \in Seq(Byte)
           /\ Bytes(m) # <<>>
           /\ m.type = "INITIALIZED" => Bytes(m) = initialized_sequence
           /\ m.type = "SCAN_DONE" => Bytes(m) = <<6>>
           /\ m.type = "CHAN_IS" => Len(Bytes(m)) = 2 /\ Bytes(m)[1] = 7
<1>1. CASE m.type = "INITIALIZED"
  <2>1. Bytes(m) = initialized_sequence
    BY <1>1 DEF Bytes
  <2> QED
    BY <1>1, <2>1, SequenceBytes
<1>2. CASE m.type = "SCAN_DONE"
  BY <1>2 DEF Bytes, SCAN_DONE, Byte
<1>3. CASE m.type = "CHAN_IS"
  BY <1>3, MessageKinds, NumbersAssumption DEF NumbersAssumption, Bytes, CHAN_IS, Byte
<1>4. CASE m.type = "RECEIVED_PACKET"
  <2>1. m.frame \in Seq(Byte) /\ Len(m.frame) \in 1..127
    BY <1>4, MessageKinds, FramesAssumption DEF FramesAssumption
  <2> QED
    BY <1>4, <2>1, PacketBytes
<1> QED
  BY <1>1, <1>2, <1>3, <1>4, MessageKinds

-----------------------------------------------------------------------------
(* Types                                                                   *)

\* A sequence with a length is not the empty one.
LEMMA HasLength ==
    ASSUME NEW S, NEW s \in Seq(S)
    PROVE  s # <<>> <=> Len(s) \in Nat \ {0}
  BY EmptySeq

\* The entries of the log, and the bytes of each.
LEMMA LogEntries ==
    ASSUME LineOK, NEW i \in 1..Len(log)
    PROVE  /\ log[i].msg \in Messages
           /\ log[i].bytes \in Seq(Byte)
           /\ log[i].bytes # <<>>
           /\ Len(log[i].bytes) \in Nat \ {0}
<1>1. log[i] \in Entries /\ log[i].bytes # <<>>
  BY DEF LineOK
<1>2. log[i].msg \in Messages /\ log[i].bytes \in Seq(Byte)
  BY <1>1 DEF Entries
<1> QED
  BY <1>1, <1>2, HasLength

\* A whole message is an entry of the log, with at least one byte.
LEMMA WholeIsEntry ==
    ASSUME NEW m \in Messages
    PROVE  Whole(m) \in Entries /\ Whole(m).bytes # <<>>
  BY MessageBytes DEF Whole, Entries

\* Something appended to the log is read later.
LEMMA LineAppended ==
    ASSUME LineOK, NEW e \in Entries, e.bytes # <<>>,
           log' = Append(log, e), UNCHANGED <<pos, off>>
    PROVE  LineOK'
<1>1. /\ log' \in Seq(Entries)
      /\ Len(log') = Len(log) + 1
      /\ log'[Len(log) + 1] = e
      /\ \A i \in 1..Len(log) : log'[i] = log[i]
  BY DEF LineOK
<1>2. Len(e.bytes) \in Nat \ {0}
  BY EmptySeq DEF Entries
<1> QED
  BY <1>1, <1>2 DEF LineOK

\* What the device sends reaches the log or is lost.
LEMMA DeliveredLine ==
    ASSUME TypeOK, NEW m \in Messages, Deliver(m)
    PROVE  LineOK' /\ sends' \in 0..MaxSends
<1>1. sends' \in 0..MaxSends
  BY BoundsAssumption DEF TypeOK, Deliver, BoundsAssumption
<1>2. LineOK /\ UNCHANGED <<pos, off>>
  BY DEF Deliver, TypeOK
<1>3. ASSUME fd = "open" PROVE LineOK'
  <2>1. log' = Append(log, Whole(m))
    BY <1>3 DEF Deliver
  <2> QED
    BY <1>2, <2>1, WholeIsEntry, LineAppended
<1>4. ASSUME fd # "open" PROVE LineOK'
  BY <1>2, <1>4 DEF Deliver, LineOK
<1> QED
  BY <1>1, <1>3, <1>4

\* A message that is cut short keeps what has been read of it.
LEMMA CutLine ==
    ASSUME TypeOK, NEW n \in Nat, CutShort(n)
    PROVE  LineOK' /\ sends' \in 0..MaxSends
<1> DEFINE last == Len(log)
           e == Whole([type |-> "INITIALIZED"])
           cut == [log EXCEPT ![last].bytes = SubSeq(@, 1, n)]
<1>1. /\ log \in Seq(Entries) /\ last \in Nat \ {0} /\ pos \in 1..last /\ off \in Nat
      /\ n \in 1..(Len(log[last].bytes) - 1)
      /\ pos = last => n >= off
      /\ log' = Append(cut, e)
      /\ IF pos = last /\ n = off THEN pos' = pos + 1 /\ off' = 0
                                  ELSE pos' = pos /\ off' = off
  BY DEF CutShort, TypeOK, LineOK
<1>2. e \in Entries /\ e.bytes # <<>>
  BY WholeIsEntry DEF Messages
<1>3. /\ SubSeq(log[last].bytes, 1, n) \in Seq(Byte)
      /\ Len(SubSeq(log[last].bytes, 1, n)) = n
  <2>1. log[last] \in Entries
    BY <1>1
  <2>2. log[last].bytes \in Seq(Byte)
    BY <2>1 DEF Entries
  <2> QED
    BY <2>2, <1>1
<1>4. /\ cut \in Seq(Entries) /\ Len(cut) = last
      /\ cut[last].bytes = SubSeq(log[last].bytes, 1, n)
      /\ \A i \in 1..(last - 1) : cut[i] = log[i]
  <2>0. log[last] \in Entries
    BY <1>1
  <2>1. [log[last] EXCEPT !.bytes = SubSeq(@, 1, n)] \in Entries
    BY <2>0, <1>3 DEF Entries
  <2>2. cut = [log EXCEPT ![last] = [log[last] EXCEPT !.bytes = SubSeq(@, 1, n)]]
    BY <1>1
  <2> QED
    BY <2>1, <2>2, <1>1 DEF Entries
<1> HIDE DEF cut, e
<1>5. /\ log' \in Seq(Entries) /\ Len(log') = last + 1
      /\ log'[last + 1] = e
      /\ \A i \in 1..last : log'[i] = cut[i]
  BY <1>1, <1>2, <1>4
<1>6. Len(e.bytes) \in Nat \ {0}
  BY <1>2, EmptySeq DEF Entries
<1>0. /\ log'[last].bytes # <<>> /\ Len(log'[last].bytes) = n
      /\ \A i \in 1..(last - 1) : log'[i] = log[i]
  <2>1. log'[last].bytes = SubSeq(log[last].bytes, 1, n)
    BY <1>1, <1>4, <1>5
  <2>2. n \in Nat \ {0}
    BY <1>1
  <2>3. /\ log'[last].bytes \in Seq(Byte) /\ Len(log'[last].bytes) = n
    BY ONLY <2>1, <1>3
  <2>4. log'[last].bytes # <<>>
    BY ONLY <2>2, <2>3, HasLength
  <2>5. \A i \in 1..(last - 1) : log'[i] = log[i]
    BY <1>1, <1>4, <1>5
  <2> QED
    BY ONLY <2>3, <2>4, <2>5
<1>7. \A i \in 1..Len(log') : log'[i].bytes # <<>>
  <2> SUFFICES ASSUME NEW i \in 1..Len(log') PROVE log'[i].bytes # <<>>
    OBVIOUS
  <2>1. CASE i = last + 1
    BY <2>1, <1>2, <1>5
  <2>2. CASE i = last
    BY <2>2, <1>0
  <2>3. CASE i \in 1..(last - 1)
    <3>1. log'[i] = log[i] /\ i \in 1..Len(log)
      BY <2>3, <1>0, <1>1
    <3> QED
      BY <3>1 DEF TypeOK, LineOK
  <2>4. last \in Nat \ {0} /\ i \in 1..(last + 1)
    BY <1>1, <1>5
  <2>5. i = last + 1 \/ i = last \/ i \in 1..(last - 1)
    BY <2>4
  <2> QED
    BY <2>1, <2>2, <2>3, <2>5
<1>8. IF pos' <= Len(log') THEN off' < Len(log'[pos'].bytes) ELSE off' = 0
  <2>1. CASE pos = last /\ n = off
    <3>1. pos' = last + 1 /\ off' = 0
      BY <2>1, <1>1
    <3> QED
      BY <3>1, <1>5, <1>6
  <2>2. CASE pos = last /\ n # off
    <3>1. pos' = last /\ off' = off /\ off < n
      BY <2>2, <1>1
    <3> QED
      BY <3>1, <1>0, <1>1, <1>5
  <2>3. CASE pos # last
    <3>1. pos' = pos /\ off' = off /\ pos \in 1..(last - 1)
      BY <2>3, <1>1
    <3>2. off < Len(log[pos].bytes)
      BY <3>1, <1>1 DEF TypeOK, LineOK
    <3> QED
      BY <3>1, <3>2, <1>0, <1>1, <1>5
  <2> QED
    BY <2>1, <2>2, <2>3
<1>9. sends' \in 0..MaxSends
  BY BoundsAssumption DEF CutShort, TypeOK, BoundsAssumption
<1>10. pos' \in 1..(Len(log') + 1) /\ off' \in Nat
  BY <1>1, <1>5 DEF TypeOK, LineOK
<1> QED
  BY ONLY <1>5, <1>7, <1>8, <1>9, <1>10 DEF LineOK

\* A port that has just been opened.
LEMMA OpenedLine ==
    ASSUME TypeOK, Open
    PROVE  LineOK' /\ fd' = "open" /\ harm' \subseteq {"joined", "reset", "error", "cr"}
<1>1. CASE log' = <<>>
  BY <1>1 DEF Open, LineOK, TypeOK
<1>2. CASE \E m \in Messages : \E k \in 2..Len(Bytes(m)) :
               log' = <<[msg |-> m, bytes |-> SubSeq(Bytes(m), k, Len(Bytes(m)))]>>
  <2>1. PICK m \in Messages : \E k \in 2..Len(Bytes(m)) :
               log' = <<[msg |-> m, bytes |-> SubSeq(Bytes(m), k, Len(Bytes(m)))]>>
    BY <1>2
  <2>2. PICK k \in 2..Len(Bytes(m)) :
               log' = <<[msg |-> m, bytes |-> SubSeq(Bytes(m), k, Len(Bytes(m)))]>>
    BY <2>1
  <2>3. /\ SubSeq(Bytes(m), k, Len(Bytes(m))) \in Seq(Byte)
        /\ Len(SubSeq(Bytes(m), k, Len(Bytes(m)))) \in Nat \ {0}
    BY MessageBytes
  <2>4. SubSeq(Bytes(m), k, Len(Bytes(m))) # <<>>
    BY <2>3, HasLength
  <2>5. /\ log' \in Seq(Entries) /\ Len(log') = 1
        /\ log'[1].bytes = SubSeq(Bytes(m), k, Len(Bytes(m)))
    BY <2>2, <2>3 DEF Entries
  <2>6. LineOK'
    BY <2>3, <2>4, <2>5 DEF Open, LineOK
  <2> QED
    BY <2>6 DEF Open, TypeOK
<1> QED
  BY <1>1, <1>2 DEF Open

\* The byte under the reader, and where the reader is when it has been read.
Advances ==
    /\ pos <= Len(log)
    /\ IF off + 1 = Len(log[pos].bytes) THEN pos' = pos + 1 /\ off' = 0
                                        ELSE pos' = pos /\ off' = off + 1
    /\ UNCHANGED log
LEMMA AdvancedLine ==
    ASSUME LineOK, Advances
    PROVE  LineOK' /\ log[pos].bytes[off + 1] \in Byte
<1>1. log[pos].bytes \in Seq(Byte) /\ log[pos].bytes # <<>>
  BY LogEntries DEF LineOK, Advances
<1>2. CASE off + 1 = Len(log[pos].bytes)
  <2>1. \A i \in 1..Len(log) : log[i].bytes \in Seq(Byte) /\ Len(log[i].bytes) \in Nat \ {0}
    BY LogEntries
  <2> QED
    BY <1>1, <1>2, <2>1 DEF LineOK, Advances
<1>3. CASE off + 1 # Len(log[pos].bytes)
  BY <1>1, <1>3 DEF LineOK, Advances
<1> QED
  BY <1>2, <1>3

\* Beginning to read a field, or no longer reading, keeps the types of the call.
LEMMA ReadType ==
    ASSUME NEW n \in Nat,
           NEW f \in Fields,
           Read(f, n)
    PROVE  CallOK'
<1>1. <<>> \in Seq(Byte)
  OBVIOUS
<1> QED
  BY <1>1 DEF Read, CallOK

\* The fields there are.
LEMMA FieldNames ==
    /\ "idle" \in Fields /\ "seq" \in Fields /\ "cmd" \in Fields /\ "chan" \in Fields
    /\ "band" \in Fields /\ "lqi" \in Fields /\ "time" \in Fields /\ "len" \in Fields
    /\ "data" \in Fields
  BY DEF Fields

\* The tty gives a byte for a byte.
LEMMA TtyByte == \A b \in Byte : FromTty(b) \in Byte
  BY DEF FromTty, Byte

\* A result more is a result.
LEMMA ResultAdded ==
    ASSUME NEW S, NEW s \in Seq(S), NEW e \in S
    PROVE  Append(s, e) \in Seq(S)
  OBVIOUS

\* Whoever is given a byte keeps the types of the tasks.
TaskReads(b) ==
    \/ InitByte(b) \/ Collects(b) \/ Throws \/ Command(b) \/ Channel
    \/ Band(b) \/ LQI(b) \/ Time \/ Length(b) \/ Data(b)
LEMMA TaskReadsType ==
    ASSUME CallOK, TaskOK, pos \in Nat \ {0}, NEW b \in Byte, TaskReads(b)
    PROVE  CallOK' /\ TaskOK'
<1>0. 102 \in Byte /\ Byte \subseteq Nat /\ result \in Seq(Results)
  BY DEF Byte, TaskOK
<1>1. CASE InitByte(b)
  <2>1. CallOK'
    BY <1>1, ReadType, FieldNames DEF InitByte, Idle
  <2>2. window' \in Seq(Byte) /\ Len(window') = SeqLen
    <3>1. PICK c \in Byte : window' = Append(Tail(window), c)
      BY <1>1, <1>0 DEF InitByte, Shift
    <3>2. Tail(window) \in Seq(Byte) /\ Len(Tail(window)) = SeqLen - 1
      BY SequenceBytes, HasLength, HeadTailProperties DEF TaskOK
    <3> QED
      BY <3>1, <3>2, SequenceBytes
  <2>3. fd' \in {"closed", "open", "hung"} /\ task' \in {"none", "init", "scan"}
    BY <1>1 DEF InitByte, TaskOK
  <2>4. initialized' \in {"no", "tried", "yes", "gone"} /\ UNCHANGED scanVars
    BY <1>1 DEF InitByte, TaskOK
  <2> QED
    BY <2>1, <2>2, <2>3, <2>4 DEF scanVars, TaskOK
<1>2. CASE Collects(b)
  <2>1. left' \in Nat /\ got' \in Seq(Byte) /\ UNCHANGED <<at, pending>>
    BY <1>2 DEF Collects, CallOK
  <2> QED
    BY <1>2, <2>1 DEF Collects, ScanStays, scanVars, CallOK, TaskOK
<1>3. CASE Throws
  BY <1>3, ReadType, FieldNames DEF Throws, Dies, Idle, scanVars, TaskOK
<1>4. CASE Command(b)
  <2>1. CallOK'
    BY <1>4, ReadType, FieldNames DEF Command, Idle
  <2> QED
    BY <1>4, <2>1 DEF Command, scanVars, TaskOK
<1>5. CASE Channel
  BY <1>5, ReadType, FieldNames DEF Channel, ScanStays, scanVars, TaskOK
<1>6. CASE Band(b)
  <2>1. CallOK'
    BY <1>6, ReadType, FieldNames DEF Band, Dies, Idle
  <2>2. cur' \in [band : Byte, lqi : Byte]
    BY <1>6 DEF Band, Dies, scanVars, TaskOK
  <2> QED
    BY <1>6, <2>1, <2>2 DEF Band, ScanStays, Dies, scanVars, TaskOK
<1>7. CASE LQI(b)
  <2>1. CallOK'
    BY <1>7, ReadType, FieldNames DEF LQI
  <2>2. cur' \in [band : Byte, lqi : Byte]
    BY <1>7 DEF LQI, TaskOK
  <2> QED
    BY <1>7, <2>1, <2>2 DEF LQI, ScanStays, TaskOK
<1>8. CASE Time
  BY <1>8, ReadType, FieldNames DEF Time, ScanStays, scanVars, TaskOK
<1>9. CASE Length(b) \/ Data(b)
  <2>1. CASE Length(b)
    <3>1. CallOK'
      <4>1. (IF pending THEN 102 ELSE b) \in Nat
        BY <1>0
      <4> QED
        BY <2>1, <4>1, ReadType, FieldNames DEF Length
    <3>2. result' = result \/ AddPacket(<<>>)
      BY <2>1 DEF Length
    <3>3. <<>> \in Seq(Byte) /\ [band |-> cur.band, lqi |-> cur.lqi, frame |-> <<>>, of |-> pos] \in Results
      BY DEF Results, TaskOK
    <3>4. result' \in Seq(Results)
      <4>1. result' = result
               \/ result' = Append(result, [band |-> cur.band, lqi |-> cur.lqi,
                                            frame |-> <<>>, of |-> pos])
        BY <3>2 DEF AddPacket
      <4> QED
        BY <1>0, <3>3, <4>1, ResultAdded
    <3> QED
      BY <2>1, <3>1, <3>4 DEF Length, ScanStays, TaskOK
  <2>2. CASE Data(b)
    <3>1. CallOK'
      BY <2>2, ReadType, FieldNames DEF Data
    <3>2. Append(got, b) \in Seq(Byte)
      BY DEF CallOK
    <3>3. [band |-> cur.band, lqi |-> cur.lqi, frame |-> Append(got, b), of |-> pos] \in Results
      BY <3>2 DEF Results, TaskOK
    <3>4. result' \in Seq(Results)
      <4>1. result' = result
               \/ result' = Append(result, [band |-> cur.band, lqi |-> cur.lqi,
                                            frame |-> Append(got, b), of |-> pos])
        BY <2>2 DEF Data, AddPacket
      <4> QED
        BY <1>0, <3>3, <4>1, ResultAdded
    <3> QED
      BY <2>2, <3>1, <3>4 DEF Data, ScanStays, TaskOK
  <2> QED
    BY <1>9, <2>1, <2>2
<1> QED
  BY <1>1, <1>2, <1>3, <1>4, <1>5, <1>6, <1>7, <1>8, <1>9 DEF TaskReads

\* Every step keeps the types.
LEMMA TypeStep == TypeOK /\ [Next]_vars => TypeOK'
<1> SUFFICES ASSUME TypeOK, [Next]_vars PROVE TypeOK'
  OBVIOUS
<1>0. LineOK /\ CallOK /\ TaskOK /\ pos \in Nat \ {0}
  BY DEF TypeOK, LineOK
<1>1. CASE UNCHANGED vars
  BY <1>1 DEF TypeOK, vars, devVars, lineVars, callVars, scanVars, histVars, LineOK, CallOK, TaskOK
<1>a. Fault => faults' \in 0..MaxFaults
  BY BoundsAssumption DEF TypeOK, Fault, BoundsAssumption
<1>2. CASE DeviceReports
  <2>1. PICK m \in Messages : Deliver(m)
    BY <1>2 DEF DeviceReports, Messages
  <2>2. LineOK' /\ sends' \in 0..MaxSends
    BY <2>1, DeliveredLine
  <2> QED
    BY <1>2, <2>2 DEF DeviceReports, devVars, callVars, scanVars, histVars, TypeOK, CallOK, TaskOK
<1>3. CASE DeviceDone
  <2>1. LineOK'
    <3>1. [type |-> "SCAN_DONE"] \in Messages
      BY DEF Messages
    <3>2. CASE fd = "open"
      <4>1. log' = Append(log, Whole([type |-> "SCAN_DONE"])) /\ UNCHANGED <<pos, off>>
        BY <1>3, <3>2 DEF DeviceDone
      <4> QED
        BY <1>0, <3>1, <4>1, WholeIsEntry, LineAppended
    <3>3. CASE fd # "open"
      BY <1>0, <1>3, <3>3 DEF DeviceDone, LineOK
    <3> QED
      BY <3>2, <3>3
  <2> QED
    BY <1>3, <2>1 DEF DeviceDone, callVars, scanVars, histVars, TypeOK, CallOK, TaskOK
<1>4. CASE PressReset
  <2>1. LineOK' /\ sends' \in 0..MaxSends
    <3>1. CASE Deliver([type |-> "INITIALIZED"])
      <4>1. [type |-> "INITIALIZED"] \in Messages
        BY DEF Messages
      <4> QED
        BY <3>1, <4>1, DeliveredLine
    <3>2. CASE \E n \in 1..(HeaderLen + 127) : CutShort(n)
      BY <3>2, CutLine DEF HeaderLen
    <3> QED
      BY <1>4, <3>1, <3>2 DEF PressReset
  <2>2. harm' \subseteq {"joined", "reset", "error", "cr"} /\ disturbed' \in BOOLEAN
    BY <1>4 DEF PressReset, CutShort, TypeOK
  <2> QED
    BY <1>4, <2>1, <2>2 DEF PressReset, callVars, scanVars, TypeOK, CallOK, TaskOK
<1>5. CASE Unplug \/ Plug \/ Disconnected
  BY <1>5, <1>a DEF Unplug, Plug, Disconnected, devVars, lineVars, callVars, scanVars, histVars,
     TypeOK, LineOK, CallOK, TaskOK
<1>6. CASE ProcessDies \/ ScanNoName
  <2>1. Dies /\ Fault /\ disturbed' = TRUE /\ UNCHANGED <<devVars, lineVars, harm, sends>>
    BY <1>6 DEF ProcessDies, ScanNoName
  <2>2. CallOK'
    BY <2>1, ReadType, FieldNames DEF Dies, Idle
  <2> QED
    BY <1>a, <2>1, <2>2 DEF Dies, devVars, lineVars, scanVars, TypeOK, LineOK, TaskOK
<1>7. CASE InitOpens
  <2>1. CallOK'
    BY <1>7, ReadType, FieldNames DEF InitOpens
  <2>2. LineOK' /\ fd' = "open" /\ harm' \subseteq {"joined", "reset", "error", "cr"}
    BY <1>7, OpenedLine DEF InitOpens
  <2>3. window' \in Seq(Byte) /\ Len(window') = SeqLen
    <3>1. window' = [i \in 1..12 |-> 0]
      BY <1>7, SequenceBytes DEF InitOpens
    <3> QED
      BY <3>1, SequenceBytes DEF Byte
  <2> QED
    BY <1>7, <2>1, <2>2, <2>3 DEF InitOpens, devVars, scanVars, TypeOK, TaskOK
<1>8. CASE InitFails
  BY <1>8, <1>a DEF InitFails, devVars, lineVars, callVars, scanVars, histVars,
     TypeOK, LineOK, CallOK, TaskOK
<1>9. CASE ScanOpens \/ StartLost \/ ScanOpenFails
  <2>1. BeginScan /\ devScan' \in BOOLEAN /\ disturbed' \in BOOLEAN /\ faults' \in 0..MaxFaults
    BY <1>9, <1>a DEF ScanOpens, StartLost, ScanOpenFails, TypeOK
  <2>2. CallOK'
    BY <2>1, ReadType, FieldNames DEF BeginScan
  <2>3. /\ LineOK' /\ fd' \in {"closed", "open", "hung"}
        /\ harm' \subseteq {"joined", "reset", "error", "cr"}
    <3>1. CASE Open
      BY <3>1, OpenedLine
    <3>2. CASE ScanOpenFails
      BY <3>2, <1>0 DEF ScanOpenFails, lineVars, LineOK, TypeOK, TaskOK
    <3> QED
      BY <1>9, <3>1, <3>2 DEF ScanOpens, StartLost
  <2>4. result' \in Seq(Results)
    BY <2>1 DEF BeginScan
  <2> QED
    BY <2>1, <2>2, <2>3, <2>4 DEF BeginScan, TypeOK, TaskOK
<1>10. CASE ReadByte
  <2>1. Advances
    BY <1>10 DEF ReadByte, Advances
  <2>2. LineOK' /\ log[pos].bytes[off + 1] \in Byte
    BY <1>0, <2>1, AdvancedLine
  <2>3. TaskReads(FromTty(log[pos].bytes[off + 1]))
    BY <1>10 DEF ReadByte, TaskReads
  <2>4. CallOK' /\ TaskOK'
    BY <1>0, <2>2, <2>3, TtyByte, TaskReadsType
  <2>5. harm' \subseteq {"joined", "reset", "error", "cr"}
    BY <1>10 DEF ReadByte, TypeOK
  <2> QED
    BY <1>10, <2>2, <2>4, <2>5 DEF ReadByte, devVars, TypeOK
<1>11. CASE ReadFails
  <2>1. left' \in Nat
    BY <1>0, <1>11 DEF ReadFails, CallOK
  <2>2. got' \in Seq(Byte)
    <3>1. SubSeq(got, 1, Len(got) - 1) \in Seq(Byte)
      BY <1>0 DEF CallOK
    <3> QED
      BY <1>0, <1>11, <3>1 DEF ReadFails, CallOK
  <2>3. harm' \subseteq {"joined", "reset", "error", "cr"}
    BY <1>11 DEF ReadFails, TypeOK
  <2> QED
    BY <1>11, <1>a, <2>1, <2>2, <2>3
       DEF ReadFails, devVars, lineVars, scanVars, TypeOK, LineOK, CallOK, TaskOK
<1> QED
  BY <1>1, <1>2, <1>3, <1>4, <1>5, <1>6, <1>7, <1>8, <1>9, <1>10, <1>11
     DEF Next, Device, Phone

\* The variables of the link keep their types, whatever the device, the user and the
\* faults do.
THEOREM TypeCorrect == Spec => []TypeOK
<1>1. Init => TypeOK
  <2> SUFFICES ASSUME Init PROVE TypeOK
    OBVIOUS
  <2>1. LineOK
    BY DEF Init, LineOK
  <2>2. CallOK
    <3>1. at = "idle" /\ left = 0 /\ got = <<>> /\ pending = FALSE
      BY DEF Init
    <3>2. <<>> \in Seq(Byte)
      OBVIOUS
    <3> QED
      BY <3>1, <3>2, FieldNames DEF CallOK
  <2>3. window \in Seq(Byte) /\ Len(window) = SeqLen
    <3>1. window = [i \in 1..12 |-> 0]
      BY SequenceBytes DEF Init
    <3> QED
      BY <3>1, SequenceBytes DEF Byte
  <2>4. cur \in [band : Byte, lqi : Byte] /\ result \in Seq(Results)
    BY DEF Init, Byte
  <2>5. TaskOK
    BY <2>3, <2>4 DEF Init, TaskOK
  <2> QED
    <3>1. sends \in 0..MaxSends /\ faults \in 0..MaxFaults
      BY BoundsAssumption DEF Init, BoundsAssumption
    <3> QED
      BY <2>1, <2>2, <2>5, <3>1 DEF Init, TypeOK
<1> QED
  BY <1>1, TypeStep, PTL DEF Spec

-----------------------------------------------------------------------------
(* The scanner in step                                                     *)

\* What a scanner that nothing has displaced knows of an entry: it is a whole
\* message, or a part of the reset sequence, which holds no command.
Known(e) ==
    IF e.msg.type = "INITIALIZED"
    THEN \A k \in 1..Len(e.bytes) : e.bytes[k] \notin {2, 6, 7}
    ELSE e.bytes = Bytes(e.msg)
LineKnown ==
    fd = "open" /\ harm = {} => \A i \in 1..Len(log) : Known(log[i])
CallKnown ==
    Scanning =>
        /\ at \in {"cmd", "chan", "band", "lqi", "time", "len", "data"}
        /\ ~pending
        /\ left >= 1
        /\ at \in {"cmd", "chan", "band", "lqi", "len"} => left = 1 /\ got = <<>>
        /\ at \in {"lqi", "time", "len", "data"} => cur.band = log[pos].msg.band
        /\ at \in {"time", "len", "data"} => cur.lqi = log[pos].msg.lqi
InStepInv == LineKnown /\ CallKnown /\ InStep /\ ResultsAreBeacons

\* Results name messages.
LEMMA ResultNumbers ==
    ASSUME TypeOK
    PROVE  \A k \in 1..Len(result) : result[k].of \in Nat \ {0}
<1>1. result \in Seq(Results)
  BY DEF TypeOK, TaskOK
<1>2. \A k \in 1..Len(result) : result[k] \in Results
  BY <1>1
<1> QED
  BY <1>2 DEF Results

\* One element more.
LEMMA Appended ==
    ASSUME NEW S, NEW s \in Seq(S), NEW e \in S
    PROVE  /\ Append(s, e) \in Seq(S)
           /\ Len(Append(s, e)) = Len(s) + 1
           /\ Append(s, e)[Len(s) + 1] = e
           /\ \A i \in 1..Len(s) : Append(s, e)[i] = s[i]
  OBVIOUS

\* A whole message is known.
LEMMA WholeKnown ==
    ASSUME NEW m \in Messages
    PROVE  Known(Whole(m))
<1>1. CASE m.type = "INITIALIZED"
  <2>1. Whole(m).bytes = initialized_sequence /\ Whole(m).msg.type = "INITIALIZED"
    BY <1>1, MessageBytes DEF Whole
  <2> QED
    BY <2>1, SequenceBytes DEF Known
<1>2. CASE m.type # "INITIALIZED"
  BY <1>2 DEF Whole, Known
<1> QED
  BY <1>1, <1>2

\* A message that arrives behind the others disturbs nobody.
LEMMA AppendedKeeps ==
    ASSUME TypeOK, InStepInv, UNCHANGED <<pos, off, fd, task, at, left, got, pending, cur, result, harm>>,
           log' = log \/ \E e \in Entries : Known(e) /\ log' = Append(log, e)
    PROVE  InStepInv'
<1>1. /\ \A i \in 1..Len(log) : log'[i] = log[i]
      /\ Len(log') \in Nat /\ Len(log) \in Nat /\ Len(log') >= Len(log)
      /\ \A i \in 1..Len(log') : i \notin 1..Len(log) => Known(log'[i])
  <2>1. CASE log' = log
    BY <2>1 DEF TypeOK, LineOK
  <2>2. CASE \E e \in Entries : Known(e) /\ log' = Append(log, e)
    <3>1. PICK e \in Entries : Known(e) /\ log' = Append(log, e)
      BY <2>2
    <3>2. log \in Seq(Entries)
      BY DEF TypeOK, LineOK
    <3> QED
      BY <3>1, <3>2
  <2> QED
    BY <2>1, <2>2
<1>2. pos \in 1..(Len(log) + 1) /\ (pos = Len(log) + 1 => off = 0)
  BY DEF TypeOK, LineOK
<1>3. LineKnown'
  BY <1>1 DEF InStepInv, LineKnown
<1>4. Scanning' = Scanning
  BY DEF Scanning
<1>5. ASSUME Scanning PROVE (CallKnown /\ InStep)'
  <2>1. CASE pos <= Len(log)
    <3>1. log'[pos] = log[pos]
      BY <1>1, <1>2, <2>1
    <3> QED
      BY <1>1, <1>2, <1>4, <1>5, <2>1, <3>1 DEF InStepInv, CallKnown, InStep, InPacket
  <2>2. CASE pos > Len(log)
    <3>1. at = "cmd" /\ off = 0
      BY <1>2, <1>5, <2>2 DEF InStepInv, InStep
    <3> QED
      BY <1>4, <1>5, <3>1 DEF InStepInv, CallKnown, InStep
  <2> QED
    BY <1>1, <1>2, <2>1, <2>2
<1>6. ASSUME Scanning PROVE KeptBeacons'
  <2>1. KeptBeacons
    BY <1>6 DEF InStepInv, ResultsAreBeacons
  <2>2. \A k \in 1..Len(result) : result[k].of \in Nat \ {0}
    BY ResultNumbers
  <2>3. \A k \in 1..Len(result) : result[k].of \in 1..Len(log)
    BY <1>2, <2>1, <2>2 DEF KeptBeacons
  <2>4. \A i \in 1..(pos - 1) : i \in 1..Len(log)
    BY <1>2
  <2>5. \A k \in 1..Len(result) :
            result[k].of < pos /\ IsResultOf(result[k], log'[result[k].of].msg)
    BY <1>1, <2>1, <2>3 DEF KeptBeacons
  <2>6. \A i \in 1..(pos - 1) :
            IsBeacon(log'[i].msg) => \E k \in 1..Len(result) : result[k].of = i
    BY <1>1, <2>1, <2>4 DEF KeptBeacons
  <2>7. \A j, k \in 1..Len(result) : j < k => result[j].of < result[k].of
    BY <2>1 DEF KeptBeacons
  <2> QED
    BY <2>5, <2>6, <2>7 DEF KeptBeacons
<1> QED
  BY <1>3, <1>4, <1>5, <1>6 DEF InStepInv, CallKnown, InStep, ResultsAreBeacons

\* A reset that cuts a message short displaces the scanner, unless the message is a
\* reset sequence, in which the scanner looks for a command at every byte.
LEMMA CutKeeps ==
    ASSUME TypeOK, InStepInv, NEW n \in Nat, CutShort(n),
           UNCHANGED <<fd, task, at, left, got, pending, cur, result>>
    PROVE  InStepInv'
<1> DEFINE last == Len(log)
           e == Whole([type |-> "INITIALIZED"])
           cut == [log EXCEPT ![last].bytes = SubSeq(@, 1, n)]
<1>0. CASE harm' # {}
  BY <1>0 DEF InStepInv, LineKnown, CallKnown, InStep, ResultsAreBeacons, Scanning
<1>a. CASE harm' = {}
  <2>1. /\ log \in Seq(Entries) /\ last \in Nat \ {0} /\ pos \in 1..last /\ off \in Nat
        /\ n \in 1..(Len(log[last].bytes) - 1)
        /\ log' = Append(cut, e)
        /\ IF pos = last /\ n = off THEN pos' = pos + 1 /\ off' = 0
                                    ELSE pos' = pos /\ off' = off
    BY DEF CutShort, TypeOK, LineOK
  <2>2. harm = {} /\ log[last].msg.type = "INITIALIZED"
    BY <1>a DEF CutShort
  <2>3. e \in Entries /\ Known(e)
    <3>1. [type |-> "INITIALIZED"] \in Messages
      BY DEF Messages
    <3> QED
      BY <3>1, WholeIsEntry, WholeKnown
  <2>4. log[last].bytes \in Seq(Byte) /\ log[last].msg \in Messages
    BY <2>1, LogEntries DEF TypeOK
  <2>5. /\ cut \in Seq(Entries) /\ Len(cut) = last
        /\ cut[last].bytes = SubSeq(log[last].bytes, 1, n)
        /\ cut[last].msg = log[last].msg
        /\ \A i \in 1..(last - 1) : cut[i] = log[i]
    <3>1. log[last] \in Entries
      BY <2>1
    <3>2. SubSeq(log[last].bytes, 1, n) \in Seq(Byte)
      BY <2>1, <2>4
    <3>3. [log[last] EXCEPT !.bytes = SubSeq(@, 1, n)] \in Entries
      BY <3>1, <3>2 DEF Entries
    <3>4. cut = [log EXCEPT ![last] = [log[last] EXCEPT !.bytes = SubSeq(@, 1, n)]]
      BY <2>1
    <3>5. log \in Seq(Entries) /\ last \in 1..Len(log)
      BY <2>1
    <3>6. /\ cut \in Seq(Entries) /\ Len(cut) = last
          /\ cut[last] = [log[last] EXCEPT !.bytes = SubSeq(@, 1, n)]
          /\ \A i \in 1..(last - 1) : cut[i] = log[i]
      BY ONLY <3>3, <3>4, <3>5
    <3>7. /\ cut[last].bytes = SubSeq(log[last].bytes, 1, n)
          /\ cut[last].msg = log[last].msg
      BY ONLY <3>1, <3>6 DEF Entries
    <3> QED
      BY ONLY <3>6, <3>7
  <2> HIDE DEF cut, e
  <2>6. /\ Len(log') = last + 1 /\ log'[last + 1] = e
        /\ \A i \in 1..last : log'[i] = cut[i]
    <3>1. log' = Append(cut, e) /\ e \in Entries
      BY <2>1, <2>3
    <3> QED
      BY ONLY <3>1, <2>5, Appended
  <2>7. \A i \in 1..last : log'[i].msg = log[i].msg
    <3> SUFFICES ASSUME NEW i \in 1..last PROVE log'[i].msg = log[i].msg
      OBVIOUS
    <3>1. i = last \/ i \in 1..(last - 1)
      BY <2>1
    <3>2. log'[i] = cut[i]
      BY ONLY <2>6
    <3>3. cut[i].msg = log[i].msg
      BY ONLY <3>1, <2>5
    <3> QED
      BY ONLY <3>2, <3>3
  <2>8. ASSUME fd = "open" PROVE LineKnown'
    <3> SUFFICES ASSUME NEW i \in 1..(last + 1) PROVE Known(log'[i])
      BY <2>6 DEF LineKnown
    <3>1. CASE i = last + 1
      BY <3>1, <2>3, <2>6
    <3>2. CASE i = last
      <4>1. /\ log'[i].msg.type = "INITIALIZED"
            /\ log'[i].bytes = SubSeq(log[last].bytes, 1, n)
        BY <3>2, <2>1, <2>2, <2>5, <2>6
      <4>2. Known(log[last])
        BY <2>1, <2>2, <2>8 DEF InStepInv, LineKnown
      <4>3. \A k \in 1..Len(log[last].bytes) : log[last].bytes[k] \notin {2, 6, 7}
        BY <4>2, <2>2 DEF Known
      <4>4. /\ Len(SubSeq(log[last].bytes, 1, n)) = n
            /\ \A k \in 1..n : /\ SubSeq(log[last].bytes, 1, n)[k] = log[last].bytes[k]
                               /\ k \in 1..Len(log[last].bytes)
        BY <2>1, <2>4
      <4> QED
        BY <4>1, <4>3, <4>4 DEF Known
    <3>3. CASE i \in 1..(last - 1)
      <4>1. log'[i] = log[i] /\ i \in 1..last
        BY <3>3, <2>1, <2>5, <2>6
      <4> QED
        BY <4>1, <2>2, <2>8 DEF InStepInv, LineKnown
    <3>4. i = last + 1 \/ i = last \/ i \in 1..(last - 1)
      <4>1. last \in Nat
        BY <2>1
      <4> QED
        BY ONLY <4>1, i \in 1..(last + 1)
    <3> QED
      BY <3>1, <3>2, <3>3, <3>4
  <2>9. Scanning' = Scanning
    BY <1>a, <2>2 DEF Scanning
  <2>10. ASSUME Scanning PROVE (CallKnown /\ InStep)'
    <3>1. CASE pos = last /\ n = off
      <4>1. at = "cmd"
        BY <2>2, <2>10, <3>1 DEF InStepInv, InStep, CallKnown, InPacket
      <4> QED
        BY <2>1, <2>9, <2>10, <3>1, <4>1 DEF InStepInv, CallKnown, InStep
    <3>2. CASE ~(pos = last /\ n = off)
      <4>1. pos' = pos /\ off' = off /\ log'[pos].msg = log[pos].msg /\ pos <= Len(log')
        BY <2>1, <2>6, <2>7, <3>2
      <4> QED
        BY <2>9, <2>10, <4>1 DEF InStepInv, CallKnown, InStep, InPacket
    <3> QED
      BY <3>1, <3>2
  <2>11. ASSUME Scanning PROVE KeptBeacons'
    <3>1. KeptBeacons
      BY <2>11 DEF InStepInv, ResultsAreBeacons
    <3>2. \A k \in 1..Len(result) : result[k].of \in Nat \ {0}
      BY ResultNumbers
    <3>3. \A k \in 1..Len(result) : result[k].of \in 1..last /\ result[k].of < pos'
      BY <2>1, <3>1, <3>2 DEF KeptBeacons
    <3>4. \A i \in 1..(pos' - 1) : i \in 1..last /\ (i \in 1..(pos - 1) \/ ~IsBeacon(log[i].msg))
      BY <2>1, <2>2 DEF IsBeacon
    <3> QED
      BY <2>7, <3>1, <3>3, <3>4 DEF KeptBeacons
  <2> QED
    BY <2>2, <2>8, <2>9, <2>10, <2>11
       DEF InStepInv, LineKnown, CallKnown, InStep, ResultsAreBeacons
<1> QED
  BY <1>0, <1>a

\* Reading a byte of a message that is not a beacon's last keeps the results.
LEMMA KeptStays ==
    ASSUME TypeOK, KeptBeacons, Advances, result' = result,
           pos' = pos \/ ~IsBeacon(log[pos].msg)
    PROVE  KeptBeacons'
<1>1. pos \in Nat \ {0} /\ (pos' = pos \/ pos' = pos + 1) /\ UNCHANGED log
  BY DEF TypeOK, LineOK, Advances
<1>2. \A i \in 1..(pos' - 1) : i \in 1..(pos - 1) \/ ~IsBeacon(log[i].msg)
  BY <1>1
<1>3. \A k \in 1..Len(result) : result[k].of < pos'
  BY <1>1, ResultNumbers DEF KeptBeacons
<1> QED
  BY <1>1, <1>2, <1>3 DEF KeptBeacons

\* Reading a packet's last byte adds the packet if it is a beacon.
LEMMA KeptGrows ==
    ASSUME TypeOK, KeptBeacons, Advances, pos' = pos + 1,
           log[pos].msg.type = "RECEIVED_PACKET",
           cur.band = log[pos].msg.band, cur.lqi = log[pos].msg.lqi,
           AddPacket(log[pos].msg.frame)
    PROVE  KeptBeacons'
<1> DEFINE m == log[pos].msg
           r == [band |-> cur.band, lqi |-> cur.lqi, frame |-> m.frame, of |-> pos]
<1>1. pos \in Nat \ {0} /\ UNCHANGED log /\ pos \in 1..Len(log)
  BY DEF TypeOK, LineOK, Advances
<1>2. CASE m.frame \notin Beacons
  <2>1. result' = result /\ ~IsBeacon(m)
    BY <1>2 DEF AddPacket, IsBeacon
  <2> QED
    BY <2>1, KeptStays
<1>3. CASE m.frame \in Beacons
  <2>1. result' = Append(result, r) /\ IsResultOf(r, m) /\ r.of = pos
    BY <1>3 DEF AddPacket, IsResultOf, IsBeacon
  <2>2. r \in Results /\ result \in Seq(Results)
    <3>1. result \in Seq(Results) /\ cur.band \in Byte /\ cur.lqi \in Byte
      BY DEF TypeOK, TaskOK
    <3>2. m \in Messages
      BY <1>1, LogEntries DEF TypeOK
    <3>3. m.frame \in Seq(Byte)
      BY <3>2, MessageKinds, FramesAssumption DEF FramesAssumption
    <3> QED
      BY <1>1, <3>1, <3>3 DEF Results
  <2> HIDE DEF r
  <2>3. /\ Len(result') = Len(result) + 1 /\ Len(result) \in Nat
        /\ result'[Len(result) + 1] = r
        /\ \A i \in 1..Len(result) : result'[i] = result[i]
    BY <2>1, <2>2, Appended
  <2>4. \A k \in 1..Len(result') : k \in 1..Len(result) \/ k = Len(result) + 1
    BY <2>3
  <2>5. \A k \in 1..Len(result) :
            result[k].of \in Nat /\ result[k].of < pos
              /\ IsResultOf(result[k], log[result[k].of].msg)
    BY ResultNumbers DEF KeptBeacons
  <2>6. \A k \in 1..Len(result') :
            result'[k].of < pos' /\ IsResultOf(result'[k], log[result'[k].of].msg)
    <3> SUFFICES ASSUME NEW k \in 1..Len(result')
                 PROVE  result'[k].of < pos' /\ IsResultOf(result'[k], log[result'[k].of].msg)
      OBVIOUS
    <3>1. CASE k \in 1..Len(result)
      BY <3>1, <1>1, <2>3, <2>5
    <3>2. CASE k = Len(result) + 1
      <4>1. result'[k] = r
        BY <3>2, <2>3
      <4> QED
        BY <4>1, <1>1, <2>1
    <3> QED
      BY <3>1, <3>2, <2>4
  <2>7. ASSUME NEW j \in 1..Len(result'), NEW k \in 1..Len(result'), j < k
        PROVE  result'[j].of < result'[k].of
    <3>1. j \in 1..Len(result) /\ result'[j] = result[j]
      BY <2>3, <2>4, <2>7
    <3>2. CASE k \in 1..Len(result)
      BY <3>1, <3>2, <2>3, <2>7 DEF KeptBeacons
    <3>3. CASE k = Len(result) + 1
      <4>1. result'[k].of = pos
        BY <3>3, <2>1, <2>3
      <4> QED
        BY <4>1, <3>1, <2>5
    <3> QED
      BY <3>2, <3>3, <2>4
  <2>8. ASSUME NEW i \in 1..(pos' - 1), IsBeacon(log[i].msg)
        PROVE  \E k \in 1..Len(result') : result'[k].of = i
    <3>1. CASE i = pos
      <4>1. Len(result) + 1 \in 1..Len(result') /\ result'[Len(result) + 1].of = i
        BY <3>1, <2>1, <2>3
      <4> QED
        BY <4>1
    <3>2. CASE i \in 1..(pos - 1)
      <4>1. PICK k \in 1..Len(result) : result[k].of = i
        BY <3>2, <2>8 DEF KeptBeacons
      <4>2. k \in 1..Len(result') /\ result'[k].of = i
        BY <4>1, <2>3
      <4> QED
        BY <4>2
    <3> QED
      BY <3>1, <3>2, <1>1
  <2> QED
    BY <2>6, <2>7, <2>8, <1>1 DEF KeptBeacons
<1> QED
  BY <1>2, <1>3

\* Which part of the scanner takes a byte.
LEMMA WhoReads ==
    ASSUME NEW b, TaskReads(b), ~pending, left \in Nat,
           at \in {"cmd", "chan", "band", "lqi", "time", "len", "data"},
           at \in {"cmd", "chan", "band", "lqi", "len"} => left = 1
    PROVE  \/ at = "cmd" /\ Command(b)
           \/ at = "chan" /\ Channel
           \/ at = "band" /\ Band(b)
           \/ at = "lqi" /\ LQI(b)
           \/ at = "time" /\ left > 1 /\ Collects(b)
           \/ at = "time" /\ left = 1 /\ Time
           \/ at = "len" /\ Length(b)
           \/ at = "data" /\ left > 1 /\ Collects(b)
           \/ at = "data" /\ left = 1 /\ Data(b)
<1>1. /\ InitByte(b) => at = "seq"
      /\ Collects(b) => at \in {"cmd", "band", "lqi", "time", "data"} /\ left > 1
      /\ Throws => pending
      /\ Command(b) => at = "cmd"
      /\ Channel => at = "chan"
      /\ Band(b) => at = "band"
      /\ LQI(b) => at = "lqi"
      /\ Time => at = "time" /\ left = 1
      /\ Length(b) => at = "len"
      /\ Data(b) => at = "data" /\ left = 1
  BY DEF InitByte, Collects, Throws, Command, Channel, Band, LQI, Time, Length, Data, LastByte
<1> QED
  BY <1>1 DEF TaskReads

\* A byte that comes through unchanged keeps the scanner in step.
LEMMA ReadKeepsStep ==
    ASSUME TypeOK, InStepInv, Scanning, ReadByte, Scanning'
    PROVE  (CallKnown /\ InStep /\ KeptBeacons)'
<1> DEFINE m == log[pos].msg
           bytes == log[pos].bytes
           b == bytes[off + 1]
<1>1. /\ Advances
      /\ pos \in Nat \ {0} /\ pos \in 1..Len(log) /\ pos' <= Len(log) + 1
      /\ off \in Nat /\ off < Len(bytes)
      /\ log' = log
  BY DEF ReadByte, Advances, TypeOK, LineOK
<1>2. m \in Messages /\ bytes \in Seq(Byte) /\ Len(bytes) \in Nat \ {0} /\ b \in Byte /\ Known(log[pos])
  <2>1. LineOK
    BY DEF TypeOK
  <2>2. m \in Messages /\ bytes \in Seq(Byte) /\ Len(bytes) \in Nat \ {0}
    BY <1>1, <2>1, LogEntries
  <2>3. b \in Byte
    BY <1>1, <2>2
  <2> QED
    BY <1>1, <2>2, <2>3 DEF InStepInv, LineKnown, Scanning
<1>3. FromTty(b) = b /\ TaskReads(b)
  BY DEF ReadByte, TaskReads, Scanning
<1>4. /\ at \in {"cmd", "chan", "band", "lqi", "time", "len", "data"}
      /\ pending = FALSE
      /\ left \in Nat /\ left >= 1 /\ got \in Seq(Byte) /\ Len(got) \in Nat
      /\ at \in {"cmd", "chan", "band", "lqi", "len"} => left = 1 /\ got = <<>>
      /\ at \in {"lqi", "time", "len", "data"} => cur.band = m.band
      /\ at \in {"time", "len", "data"} => cur.lqi = m.lqi
  <2>1. left \in Nat /\ got \in Seq(Byte) /\ pending \in BOOLEAN
    BY DEF TypeOK, CallOK
  <2> QED
    BY <2>1 DEF InStepInv, CallKnown
<1>5. /\ at = "cmd" => off = 0 \/ m.type = "INITIALIZED"
      /\ at = "chan" => m.type = "CHAN_IS" /\ off = 1
      /\ at = "band" => InPacket(1)
      /\ at = "lqi" => InPacket(2)
      /\ at = "time" => InPacket(3) /\ left + Len(got) = 4
      /\ at = "len" => InPacket(7)
      /\ at = "data" => /\ InPacket(8)
                        /\ left + Len(got) = Len(m.frame)
                        /\ \A k \in 1..Len(got) : got[k] = m.frame[k]
  BY DEF InStepInv, InStep
<1>6. KeptBeacons
  BY DEF InStepInv, ResultsAreBeacons
<1>7. m.type # "INITIALIZED" => bytes = Bytes(m)
  BY <1>2 DEF Known
<1>8. m.type = "RECEIVED_PACKET" =>
        /\ Len(bytes) = 8 + Len(m.frame)
        /\ bytes[1] = 2 /\ bytes[2] = m.band /\ bytes[3] = m.lqi /\ bytes[8] = Len(m.frame)
        /\ \A k \in 1..Len(m.frame) : bytes[8 + k] = m.frame[k]
        /\ m.frame \in Seq(Byte) /\ Len(m.frame) \in 1..127 /\ m.band \in 0..15
  <2>1. ASSUME m.type = "RECEIVED_PACKET"
        PROVE  m.frame \in Seq(Byte) /\ Len(m.frame) \in 1..127 /\ m.band \in 0..15
    <3>1. m.band \in Channels /\ m.frame \in Frames
      BY <1>2, <2>1, MessageKinds
    <3>2. m.band \in 0..15
      BY <3>1, NumbersAssumption
    <3> QED
      BY <3>1, <3>2, FramesAssumption DEF FramesAssumption
  <2>2. ASSUME m.type = "RECEIVED_PACKET"
        PROVE  /\ Len(Bytes(m)) = 8 + Len(m.frame)
               /\ Bytes(m)[1] = 2 /\ Bytes(m)[2] = m.band /\ Bytes(m)[3] = m.lqi
               /\ Bytes(m)[8] = Len(m.frame)
               /\ \A k \in 1..Len(m.frame) : Bytes(m)[8 + k] = m.frame[k]
    BY <1>2, <2>2, PacketBytes
  <2>3. ASSUME m.type = "RECEIVED_PACKET" PROVE bytes = Bytes(m)
    BY <1>7, <2>3
  <2> QED
    BY <2>1, <2>2, <2>3
<1>9. /\ m.type = "SCAN_DONE" => bytes[1] = 6
      /\ m.type = "CHAN_IS" => Len(bytes) = 2 /\ bytes[1] = 7
      /\ m.type = "INITIALIZED" => b \notin {2, 6, 7}
      /\ m.type \in {"INITIALIZED", "SCAN_DONE", "CHAN_IS", "RECEIVED_PACKET"}
  <2>1. m.type = "SCAN_DONE" => bytes[1] = 6
    BY <1>2, <1>7, MessageBytes
  <2>2. m.type = "CHAN_IS" => Len(bytes) = 2 /\ bytes[1] = 7
    BY <1>2, <1>7, MessageBytes
  <2>3. m.type = "INITIALIZED" => b \notin {2, 6, 7}
    <3>1. off + 1 \in 1..Len(bytes)
      BY <1>1, <1>2
    <3> QED
      BY <1>2, <3>1 DEF Known
  <2>4. m.type \in {"INITIALIZED", "SCAN_DONE", "CHAN_IS", "RECEIVED_PACKET"}
    BY <1>2, MessageKinds
  <2> QED
    BY <2>1, <2>2, <2>3, <2>4
<1>10. /\ off + 1 = Len(bytes) => pos' = pos + 1 /\ off' = 0
       /\ off + 1 # Len(bytes) => pos' = pos /\ off' = off + 1 /\ log'[pos'].msg = m
  BY <1>1 DEF Advances
<1>11. m.type # "RECEIVED_PACKET" => ~IsBeacon(m)
  BY DEF IsBeacon
<1>12. \A n : InPacket(n) <=> m.type = "RECEIVED_PACKET" /\ off = n + Len(got)
  BY DEF InPacket
<1>13. \A n : InPacket(n)' <=> log'[pos'].msg.type = "RECEIVED_PACKET" /\ off' = n + Len(got')
  BY DEF InPacket
<1>14. b = bytes[off + 1]
  OBVIOUS
<1>15. ASSUME result' = result, pos' = pos \/ ~IsBeacon(m) PROVE KeptBeacons'
  BY <1>1, <1>6, <1>15, KeptStays
<1> HIDE DEF m, bytes, b
<1>25. m.type = "RECEIVED_PACKET" =>
         Len(m.frame) \in Nat /\ Len(m.frame) >= 1 /\ Len(bytes) = 8 + Len(m.frame)
  <2>1. m.type = "RECEIVED_PACKET" => Len(m.frame) \in 1..127
    BY <1>8
  <2>2. m.type = "RECEIVED_PACKET" => Len(bytes) = 8 + Len(m.frame)
    BY <1>8
  <2>3. \A n \in 1..127 : n \in Nat /\ n >= 1
    OBVIOUS
  <2> QED
    BY <2>1, <2>2, <2>3, Zenon
<1>16. CASE at = "cmd" /\ Command(b)
  <2>1. CASE m.type = "INITIALIZED"
    <3>1. at' = "cmd" /\ left' = 1 /\ got' = <<>> /\ pending' = FALSE /\ result' = result
      BY <1>9, <1>16, <2>1 DEF Command, Read, scanVars, SCAN_DONE, CHAN_IS, RECEIVED_PACKET
    <3>2. off' = 0 \/ log'[pos'].msg.type = "INITIALIZED"
      BY <1>10, <2>1
    <3>3. KeptBeacons'
      BY <1>11, <1>15, <2>1, <3>1
    <3> QED
      BY <3>1, <3>2, <3>3 DEF CallKnown, InStep
  <2>2. CASE m.type # "INITIALIZED"
    <3>1. off = 0 /\ b = bytes[1]
      BY <1>5, <1>14, <1>16, <2>2
    <3>2. b # 6
      BY <1>16 DEF Command, Scanning, SCAN_DONE
    <3>3. CASE m.type = "CHAN_IS"
      <4>1. /\ at' = "chan" /\ left' = 1 /\ got' = <<>> /\ pending' = FALSE /\ result' = result
        <5>1. b = 7
          BY <1>9, <3>1, <3>3
        <5> QED
          BY <1>16, <5>1 DEF Command, Read, scanVars, SCAN_DONE, CHAN_IS, RECEIVED_PACKET
      <4>2. pos' = pos /\ off' = 1 /\ log'[pos'].msg = m
        BY <1>9, <1>10, <3>1, <3>3
      <4>3. KeptBeacons' /\ pos' <= Len(log')
        BY <1>1, <1>15, <4>1, <4>2
      <4> QED
        BY <3>3, <4>1, <4>2, <4>3 DEF CallKnown, InStep
    <3>4. CASE m.type = "RECEIVED_PACKET"
      <4>1. /\ at' = "band" /\ left' = 1 /\ got' = <<>> /\ pending' = FALSE /\ result' = result
        BY <1>8, <1>16, <3>1, <3>4 DEF Command, Read, scanVars, SCAN_DONE, CHAN_IS, RECEIVED_PACKET
      <4>2. pos' = pos /\ off' = 1 /\ log'[pos'].msg = m
        BY <1>8, <1>10, <3>1, <3>4
      <4>3. KeptBeacons' /\ pos' <= Len(log')
        BY <1>1, <1>15, <4>1, <4>2
      <4> QED
        BY <1>13, <3>4, <4>1, <4>2, <4>3 DEF CallKnown, InStep
    <3> QED
      BY <1>9, <2>2, <3>1, <3>2, <3>3, <3>4
  <2> QED
    BY <2>1, <2>2
<1>17. CASE at = "chan" /\ Channel
  <2>1. at' = "cmd" /\ left' = 1 /\ got' = <<>> /\ pending' = FALSE /\ result' = result
    BY <1>17 DEF Channel, Read, scanVars
  <2>2. off' = 0 /\ ~IsBeacon(m)
    BY <1>5, <1>9, <1>10, <1>11, <1>17
  <2> QED
    BY <1>15, <2>1, <2>2 DEF CallKnown, InStep
<1>18. CASE at = "band" /\ Band(b)
  <2>1. m.type = "RECEIVED_PACKET" /\ off = 1 /\ b = m.band
    BY <1>4, <1>5, <1>8, <1>12, <1>14, <1>18
  <2>2. /\ at' = "lqi" /\ left' = 1 /\ got' = <<>> /\ pending' = FALSE /\ result' = result
        /\ cur'.band = m.band
    <3>1. b <= 15
      BY <1>8, <2>1
    <3>2. cur \in [band : Byte, lqi : Byte]
      BY DEF TypeOK, TaskOK
    <3> QED
      BY <1>18, <2>1, <3>1, <3>2 DEF Band, Read
  <2>3. pos' = pos /\ off' = 2 /\ log'[pos'].msg = m
    BY <1>8, <1>10, <2>1
  <2>4. KeptBeacons' /\ pos' <= Len(log')
    BY <1>1, <1>15, <2>2, <2>3
  <2> QED
    BY <1>13, <2>1, <2>2, <2>3, <2>4 DEF CallKnown, InStep
<1>19. CASE at = "lqi" /\ LQI(b)
  <2>1. m.type = "RECEIVED_PACKET" /\ off = 2 /\ b = m.lqi /\ cur.band = m.band
    BY <1>4, <1>5, <1>8, <1>12, <1>14, <1>19
  <2>2. /\ at' = "time" /\ left' = 4 /\ got' = <<>> /\ pending' = FALSE /\ result' = result
        /\ cur'.band = m.band /\ cur'.lqi = m.lqi
    <3>1. cur \in [band : Byte, lqi : Byte]
      BY DEF TypeOK, TaskOK
    <3> QED
      BY <1>19, <2>1, <3>1 DEF LQI, Read
  <2>3. pos' = pos /\ off' = 3 /\ log'[pos'].msg = m
    BY <1>8, <1>10, <2>1
  <2>4. KeptBeacons' /\ pos' <= Len(log')
    BY <1>1, <1>15, <2>2, <2>3
  <2> QED
    BY <1>13, <2>1, <2>2, <2>3, <2>4 DEF CallKnown, InStep
<1>20. CASE at = "time" /\ left > 1 /\ Collects(b)
  <2>1. /\ m.type = "RECEIVED_PACKET" /\ off = 3 + Len(got) /\ left + Len(got) = 4
        /\ cur.band = m.band /\ cur.lqi = m.lqi
    BY <1>4, <1>5, <1>12, <1>20
  <2>2. /\ at' = "time" /\ left' = left - 1 /\ pending' = FALSE /\ result' = result /\ cur' = cur
        /\ got' = Append(got, b) /\ Len(got') = Len(got) + 1
    BY <1>2, <1>4, <1>20 DEF Collects, scanVars
  <2>3. pos' = pos /\ off' = off + 1 /\ log'[pos'].msg = m
    BY <1>1, <1>4, <1>8, <1>10, <1>20, <2>1
  <2>4. KeptBeacons' /\ pos' <= Len(log')
    BY <1>1, <1>15, <2>2, <2>3
  <2>5. off' = 3 + Len(got') /\ left' + Len(got') = 4 /\ left' >= 1
    BY <1>4, <1>20, <2>1, <2>2, <2>3
  <2> QED
    BY <1>13, <2>1, <2>2, <2>3, <2>4, <2>5 DEF CallKnown, InStep
<1>21. CASE at = "time" /\ left = 1 /\ Time
  <2>1. /\ m.type = "RECEIVED_PACKET" /\ off = 6
        /\ cur.band = m.band /\ cur.lqi = m.lqi
    BY <1>4, <1>5, <1>12, <1>21
  <2>2. /\ at' = "len" /\ left' = 1 /\ got' = <<>> /\ pending' = FALSE /\ result' = result /\ cur' = cur
    BY <1>21 DEF Time, Read, scanVars
  <2>3. pos' = pos /\ off' = 7 /\ log'[pos'].msg = m
    BY <1>8, <1>10, <2>1
  <2>4. KeptBeacons' /\ pos' <= Len(log')
    BY <1>1, <1>15, <2>2, <2>3
  <2> QED
    BY <1>13, <2>1, <2>2, <2>3, <2>4 DEF CallKnown, InStep
<1>22. CASE at = "len" /\ Length(b)
  <2>1. /\ m.type = "RECEIVED_PACKET" /\ off = 7 /\ b = Len(m.frame)
        /\ cur.band = m.band /\ cur.lqi = m.lqi
    BY <1>4, <1>5, <1>8, <1>12, <1>14, <1>22
  <2>0. Len(m.frame) \in Nat /\ Len(m.frame) >= 1 /\ Len(bytes) = 8 + Len(m.frame)
    BY <1>25, <2>1
  <2>2. /\ at' = "data" /\ left' = Len(m.frame) /\ got' = <<>> /\ pending' = FALSE
        /\ result' = result /\ cur' = cur /\ left' >= 1
    <3>1. b > 0 /\ pending = FALSE
      BY <1>4, <2>0, <2>1
    <3> QED
      BY <1>22, <2>0, <2>1, <3>1 DEF Length, Read
  <2>3. pos' = pos /\ off' = 8 /\ log'[pos'].msg = m
    BY <1>10, <2>0, <2>1
  <2>4. KeptBeacons' /\ pos' <= Len(log')
    BY <1>1, <1>15, <2>2, <2>3
  <2>5. left' + Len(got') = Len(m.frame)
    BY <1>8, <2>1, <2>2
  <2> QED
    BY <1>13, <2>1, <2>2, <2>3, <2>4, <2>5 DEF CallKnown, InStep
<1>23. CASE at = "data" /\ left > 1 /\ Collects(b)
  <2>1. /\ m.type = "RECEIVED_PACKET" /\ off = 8 + Len(got) /\ left + Len(got) = Len(m.frame)
        /\ cur.band = m.band /\ cur.lqi = m.lqi
        /\ \A k \in 1..Len(got) : got[k] = m.frame[k]
    BY <1>4, <1>5, <1>12, <1>23
  <2>2. /\ at' = "data" /\ left' = left - 1 /\ pending' = FALSE /\ result' = result /\ cur' = cur
        /\ got' = Append(got, b)
    BY <1>23, <1>4 DEF Collects, scanVars
  <2>3. pos' = pos /\ off' = off + 1 /\ log'[pos'].msg = m
    BY <1>4, <1>8, <1>10, <1>23, <2>1
  <2>4. KeptBeacons' /\ pos' <= Len(log')
    BY <1>1, <1>15, <2>2, <2>3
  <2>5. /\ Len(got') = Len(got) + 1 /\ got'[Len(got) + 1] = b
        /\ \A k \in 1..Len(got) : got'[k] = got[k]
    BY <1>2, <1>4, <2>2, Appended
  <2>6. off' = 8 + Len(got') /\ left' + Len(got') = Len(m.frame) /\ left' >= 1
    <3>1. Len(m.frame) \in Nat
      BY <1>25, <2>1
    <3> QED
      <4>1. /\ off \in Nat /\ left \in Nat /\ left > 1 /\ Len(got) \in Nat
            /\ off = 8 + Len(got) /\ left + Len(got) = Len(m.frame)
            /\ off' = off + 1 /\ left' = left - 1 /\ Len(got') = Len(got) + 1
        BY <1>1, <1>4, <1>23, <2>1, <2>2, <2>3, <2>5, Zenon
      <4> QED
        BY <3>1, <4>1
  <2>7. \A k \in 1..Len(got') : got'[k] = m.frame[k]
    <3>1. b = m.frame[Len(got) + 1]
      <4>1. Len(got) + 1 \in 1..Len(m.frame) /\ off + 1 = 8 + (Len(got) + 1)
        BY <1>4, <1>8, <1>23, <2>1
      <4> QED
        BY <1>8, <1>14, <2>1, <4>1
    <3>2. \A k \in 1..Len(got') : k \in 1..Len(got) \/ k = Len(got) + 1
      BY <1>4, <2>5
    <3> QED
      BY <2>1, <2>5, <3>1, <3>2
  <2> QED
    BY <1>13, <2>1, <2>2, <2>3, <2>4, <2>6, <2>7 DEF CallKnown, InStep
<1>24. CASE at = "data" /\ left = 1 /\ Data(b)
  <2>1. /\ m.type = "RECEIVED_PACKET" /\ off = 8 + Len(got) /\ 1 + Len(got) = Len(m.frame)
        /\ cur.band = m.band /\ cur.lqi = m.lqi
        /\ \A k \in 1..Len(got) : got[k] = m.frame[k]
    BY <1>4, <1>5, <1>12, <1>24
  <2>2. at' = "cmd" /\ left' = 1 /\ got' = <<>> /\ pending' = FALSE /\ AddPacket(Append(got, b))
    BY <1>24 DEF Data, Read
  <2>3. pos' = pos + 1 /\ off' = 0
    BY <1>4, <1>8, <1>10, <2>1
  <2>4. Append(got, b) = m.frame
    <3>1. /\ Append(got, b) \in Seq(Byte) /\ Len(Append(got, b)) = Len(got) + 1
          /\ Append(got, b)[Len(got) + 1] = b
          /\ \A k \in 1..Len(got) : Append(got, b)[k] = got[k]
      BY <1>2, <1>4, Appended
    <3>2. b = m.frame[Len(got) + 1]
      <4>1. Len(got) + 1 \in 1..Len(m.frame) /\ off + 1 = 8 + (Len(got) + 1)
        BY <1>4, <1>8, <2>1
      <4> QED
        BY <1>8, <1>14, <2>1, <4>1
    <3>3. \A k \in 1..Len(m.frame) : Append(got, b)[k] = m.frame[k]
      <4>1. \A k \in 1..Len(m.frame) : k \in 1..Len(got) \/ k = Len(got) + 1
        BY <1>4, <2>1
      <4> QED
        BY <2>1, <3>1, <3>2, <4>1
    <3> QED
      BY <1>4, <1>8, <2>1, <3>1, <3>3, SeqEqual
  <2>5. KeptBeacons'
    BY <1>1, <1>6, <2>1, <2>2, <2>3, <2>4, KeptGrows DEF m
  <2> QED
    BY <2>2, <2>3, <2>5 DEF CallKnown, InStep
<1> QED
  <2>1. TaskReads(b) /\ ~pending /\ left \in Nat
        /\ at \in {"cmd", "chan", "band", "lqi", "time", "len", "data"}
        /\ (at \in {"cmd", "chan", "band", "lqi", "len"} => left = 1)
    BY <1>3, <1>4
  <2> QED
    BY <2>1, <1>16, <1>17, <1>18, <1>19, <1>20, <1>21, <1>22, <1>23, <1>24, WhoReads

\* A port that can be read belongs to a task.
PortHeld == task = "none" => fd # "open"
LEMMA PortHeldStep == PortHeld /\ [Next]_vars => PortHeld'
<1> SUFFICES ASSUME PortHeld, [Next]_vars PROVE PortHeld'
  OBVIOUS
<1>1. CASE UNCHANGED vars \/ Device
  BY <1>1 DEF PortHeld, vars, Device, DeviceReports, DeviceDone, PressReset, Unplug, Plug
<1>2. CASE Disconnected \/ ProcessDies \/ InitFails \/ ScanNoName
  BY <1>2 DEF PortHeld, Disconnected, ProcessDies, InitFails, ScanNoName, Dies
<1>3. CASE InitOpens \/ ScanOpens \/ StartLost \/ ScanOpenFails
  BY <1>3 DEF PortHeld, InitOpens, ScanOpens, StartLost, ScanOpenFails, BeginScan
<1>4. CASE ReadByte
  BY <1>4 DEF PortHeld, ReadByte, InitByte, Collects, Throws, Command, Channel, Band, LQI, Time,
     Length, Data, Dies, ScanStays
<1>5. CASE ReadFails
  BY <1>5 DEF PortHeld, ReadFails
<1> QED
  BY <1>1, <1>2, <1>3, <1>4, <1>5 DEF Next, Phone

\* Every step keeps what the scanner and the device agree on.
LEMMA InStepStep == TypeOK /\ PortHeld /\ InStepInv /\ [Next]_vars => InStepInv'
<1> SUFFICES ASSUME TypeOK, PortHeld, InStepInv, [Next]_vars PROVE InStepInv'
  OBVIOUS
<1>0. ASSUME ~Scanning', LineKnown' PROVE InStepInv'
  BY <1>0 DEF InStepInv, CallKnown, InStep, ResultsAreBeacons
<1>1. CASE UNCHANGED vars \/ Plug
  BY <1>1, AppendedKeeps DEF Plug, vars, devVars, lineVars, callVars, scanVars, histVars
<1>2. CASE DeviceReports
  <2>1. PICK m \in Messages : Deliver(m)
    BY <1>2 DEF DeviceReports, Messages
  <2>2. log' = log \/ \E e \in Entries : Known(e) /\ log' = Append(log, e)
    BY <2>1, WholeIsEntry, WholeKnown DEF Deliver
  <2> QED
    BY <1>2, <2>1, <2>2, AppendedKeeps DEF DeviceReports, Deliver, callVars, scanVars, histVars
<1>3. CASE DeviceDone
  <2>1. [type |-> "SCAN_DONE"] \in Messages
    BY DEF Messages
  <2>2. log' = log \/ \E e \in Entries : Known(e) /\ log' = Append(log, e)
    BY <1>3, <2>1, WholeIsEntry, WholeKnown DEF DeviceDone
  <2> QED
    BY <1>3, <2>2, AppendedKeeps DEF DeviceDone, callVars, scanVars, histVars
<1>4. CASE PressReset
  <2>1. CASE Deliver([type |-> "INITIALIZED"]) /\ UNCHANGED harm
    <3>1. [type |-> "INITIALIZED"] \in Messages
      BY DEF Messages
    <3>2. log' = log \/ \E e \in Entries : Known(e) /\ log' = Append(log, e)
      BY <2>1, <3>1, WholeIsEntry, WholeKnown DEF Deliver
    <3> QED
      BY <1>4, <2>1, <3>2, AppendedKeeps DEF PressReset, Deliver, callVars, scanVars
  <2>2. CASE \E n \in 1..(HeaderLen + 127) : CutShort(n)
    <3>1. PICK n \in Nat : CutShort(n)
      BY <2>2 DEF HeaderLen
    <3> QED
      BY <1>4, <3>1, CutKeeps DEF PressReset, callVars, scanVars
  <2> QED
    BY <1>4, <2>1, <2>2 DEF PressReset
<1>5. CASE Unplug \/ ProcessDies \/ ScanNoName
  <2>1. fd' # "open"
    BY <1>5 DEF Unplug, ProcessDies, ScanNoName, Dies
  <2> QED
    BY <1>0, <2>1 DEF Scanning, LineKnown
<1>6. CASE Disconnected \/ InitFails
  <2>1. task' # "scan" /\ UNCHANGED <<fd, harm, log>>
    BY <1>6 DEF Disconnected, InitFails, histVars, lineVars
  <2> QED
    BY <1>0, <2>1 DEF InStepInv, Scanning, LineKnown
<1>7. ASSUME Open PROVE LineKnown' /\ (harm' = {} => log' = <<>> /\ pos' = 1 /\ off' = 0)
  <2>1. harm' = {} => log' = <<>> /\ pos' = 1 /\ off' = 0
    BY <1>7 DEF Open
  <2> QED
    BY <2>1 DEF LineKnown
<1>8. CASE InitOpens
  <2>1. task' # "scan" /\ LineKnown'
    BY <1>7, <1>8 DEF InitOpens
  <2> QED
    BY <1>0, <2>1 DEF Scanning
<1>9. CASE ScanOpens \/ StartLost
  <2>1. Open /\ BeginScan
    BY <1>9 DEF ScanOpens, StartLost
  <2>2. /\ at' = "cmd" /\ left' = 1 /\ got' = <<>> /\ pending' = FALSE /\ result' = <<>>
    BY <2>1 DEF BeginScan, Read
  <2>3. ASSUME harm' = {} PROVE (CallKnown /\ InStep /\ KeptBeacons)'
    <3>1. log' = <<>> /\ pos' = 1 /\ off' = 0
      BY <1>7, <2>1, <2>3
    <3> QED
      BY <2>2, <3>1 DEF CallKnown, InStep, KeptBeacons
  <2> QED
    BY <1>7, <2>1, <2>3 DEF InStepInv, CallKnown, InStep, ResultsAreBeacons, Scanning
<1>10. CASE ScanOpenFails
  <2>1. UNCHANGED <<fd, harm, log>> /\ task = "none"
    BY <1>10 DEF ScanOpenFails, BeginScan, lineVars
  <2>2. fd # "open"
    BY <2>1 DEF PortHeld
  <2> QED
    BY <1>0, <2>1, <2>2 DEF Scanning, LineKnown
<1>11. CASE ReadByte
  <2>1. LineKnown'
    <3>1. log' = log /\ (harm' = {} => harm = {}) /\ (fd' = "open" => fd = "open")
      BY <1>11 DEF ReadByte
    <3> QED
      BY <3>1 DEF InStepInv, LineKnown
  <2>2. CASE Scanning'
    <3>1. Scanning
      <4>1. harm = {} /\ fd = "open"
        BY <1>11, <2>2 DEF ReadByte, Scanning
      <4>2. task' = task \/ task' = "none"
        BY <1>11 DEF ReadByte, InitByte, Collects, Throws, Command, Channel, Band, LQI, Time,
           Length, Data, Dies, ScanStays
      <4> QED
        BY <2>2, <4>1, <4>2 DEF Scanning
    <3> QED
      BY <1>11, <2>1, <2>2, <3>1, ReadKeepsStep
         DEF InStepInv, ResultsAreBeacons
  <2> QED
    BY <1>0, <2>1, <2>2
<1>12. CASE ReadFails
  <2>1. harm' # {}
    BY <1>12 DEF ReadFails
  <2> QED
    BY <1>0, <2>1 DEF Scanning, LineKnown
<1> QED
  BY <1>1, <1>2, <1>3, <1>4, <1>5, <1>6, <1>8, <1>9, <1>10, <1>11, <1>12
     DEF Next, Device, Phone

\* The agreement holds from the beginning and for ever.
LEMMA InStepInvariant == Spec => []InStepInv
<1>1. Init => InStepInv
  BY DEF Init, InStepInv, LineKnown, CallKnown, InStep, ResultsAreBeacons, Scanning
<1>2. Init => PortHeld
  BY DEF Init, PortHeld
<1> QED
  BY <1>1, <1>2, TypeCorrect, PortHeldStep, InStepStep, PTL DEF Spec

\* Whatever frames the device hears and whatever pieces the reads return, a scanner
\* that nothing has displaced reads each field where it is.
THEOREM StaysInStep == Spec => []InStep
<1>1. InStepInv => InStep
  BY DEF InStepInv
<1> QED
  BY <1>1, InStepInvariant, PTL

\* Such a scanner has kept exactly the beacons it has read, each once, in order, and
\* with its own channel and link quality.
THEOREM KeepsTheBeacons == Spec => []ResultsAreBeacons
<1>1. InStepInv => ResultsAreBeacons
  BY DEF InStepInv
<1> QED
  BY <1>1, InStepInvariant, PTL

-----------------------------------------------------------------------------
(* What an init task has seen                                              *)

\* The end of the window is what has been read of the message under the reader;
\* as long as the task runs, the window is not the sequence.
InitReads == task = "init" /\ fd = "open" /\ "error" \notin harm
WindowInv ==
    InitReads =>
        /\ at = "seq" /\ ~pending
        /\ window # initialized_sequence
        /\ \A j \in 0..(SeqLen - 1) :
               j < off => window[SeqLen - j] = FromTty(log[pos].bytes[off - j])

\* While the device scans, nothing on the line has the sequence in it, and no message
\* but the one the port was opened in begins with a byte of it; before that one the
\* window holds zeros.
EchoInv ==
    InitReads /\ devScan /\ OnlyResetsHoldSequence =>
        /\ \A i \in 1..Len(log) :
               /\ ~HoldsSequence(log[i].bytes)
               /\ i > 1 => log[i].bytes[1] \in {2, 7}
        /\ pos = 1 => \A j \in 0..(SeqLen - 1) : j >= off => window[SeqLen - j] = 0

\* An init task that has ended well has seen the device quiet, and a scan that ends
\* in step leaves it so.
QuietInv ==
    OnlyResetsHoldSequence /\ initialized = "yes" /\ harm \cap {"error", "reset", "cr"} = {} =>
        /\ task = "none" => ~devScan
        /\ task = "scan" /\ fd = "open" =>
               /\ harm = {}
               /\ devScan => \A i \in 1..Len(log) : log[i].msg.type # "SCAN_DONE"

\* The sequence has no byte that the tty makes or changes, none that begins another
\* message, and no zero.
LEMMA SequenceFacts ==
    /\ SeqLen \in Nat \ {0}
    /\ Len(initialized_sequence) = SeqLen
    /\ initialized_sequence \in Seq(Byte)
    /\ \A k \in 1..SeqLen : initialized_sequence[k] \notin {0, 2, 6, 7, 10, 13}
  BY SequenceBytes
LEMMA TtySequence ==
    \A b \in Byte, k \in 1..SeqLen :
        FromTty(b) = initialized_sequence[k] <=> b = initialized_sequence[k]
<1> SUFFICES ASSUME NEW b \in Byte, NEW k \in 1..SeqLen
             PROVE  FromTty(b) = initialized_sequence[k] <=> b = initialized_sequence[k]
  OBVIOUS
<1>1. initialized_sequence[k] \notin {10, 13}
  BY SequenceFacts
<1> QED
  BY <1>1 DEF FromTty

\* Sequences of bytes with the same elements are the same.
LEMMA SameBytes ==
    ASSUME NEW s \in Seq(Byte), NEW t \in Seq(Byte), Len(s) = Len(t),
           \A k \in 1..Len(s) : s[k] = t[k]
    PROVE  s = t
  OBVIOUS

\* A window that is shifted by a byte.
LEMMA WindowShifted ==
    ASSUME NEW S, NEW w \in Seq(S), NEW b \in S, w # <<>>
    PROVE  /\ Append(Tail(w), b) \in Seq(S) /\ Len(Append(Tail(w), b)) = Len(w)
           /\ Append(Tail(w), b)[Len(w)] = b
           /\ \A j \in 1..(Len(w) - 1) : Append(Tail(w), b)[Len(w) - j] = w[(Len(w) - j) + 1]
<1>2. /\ Tail(w) \in Seq(S) /\ Len(Tail(w)) = Len(w) - 1 /\ Len(w) \in Nat
      /\ \A k \in 1..Len(Tail(w)) : Tail(w)[k] = w[k + 1]
  BY HeadTailProperties
<1> DEFINE t == Tail(w)
<1> HIDE DEF t
<1>3. /\ Append(t, b) \in Seq(S) /\ Len(Append(t, b)) = Len(t) + 1
      /\ Append(t, b)[Len(t) + 1] = b
      /\ \A k \in 1..Len(t) : Append(t, b)[k] = t[k]
  <2>1. t \in Seq(S)
    BY <1>2 DEF t
  <2> QED
    BY <2>1, Appended
<1>4. Len(t) + 1 = Len(w) /\ \A j \in 1..(Len(w) - 1) : Len(w) - j \in 1..Len(t)
  BY <1>2 DEF t
<1> QED
  BY <1>2, <1>3, <1>4 DEF t

\* A window whose bytes are those of the sequence, as the tty gives them, is the
\* sequence.
LEMMA WindowIsSequence ==
    ASSUME NEW w \in Seq(Byte), Len(w) = SeqLen, NEW s \in Seq(Byte), Len(s) >= SeqLen,
           \A k \in 1..SeqLen : s[k] = initialized_sequence[k],
           \A j \in 0..(SeqLen - 1) : w[SeqLen - j] = FromTty(s[SeqLen - j])
    PROVE  w = initialized_sequence
<1>1. ASSUME NEW k \in 1..SeqLen PROVE w[k] = initialized_sequence[k]
  <2>1. SeqLen - k \in 0..(SeqLen - 1) /\ SeqLen - (SeqLen - k) = k
    BY SequenceFacts
  <2>2. w[k] = FromTty(s[k])
    BY <2>1
  <2>3. s[k] \in Byte /\ s[k] = initialized_sequence[k]
    BY SequenceFacts
  <2> QED
    BY <2>2, <2>3, TtySequence
<1> QED
  BY <1>1, SequenceFacts, SameBytes

\* Messages that come behind the others leave them as they are.
Grows ==
    /\ Len(log') \in Nat /\ Len(log') >= Len(log)
    /\ \A i \in 1..Len(log) : log'[i] = log[i]
    /\ UNCHANGED <<pos, off>>
LEMMA DeviceGrows ==
    ASSUME TypeOK,
           \/ DeviceReports \/ DeviceDone
           \/ PressReset /\ Deliver([type |-> "INITIALIZED"])
    PROVE  Grows
<1>1. PICK m \in Messages :
          /\ log' = log \/ log' = Append(log, Whole(m))
          /\ UNCHANGED <<pos, off>>
  <2>1. CASE DeviceReports
    <3>1. PICK m \in Messages : Deliver(m)
      BY <2>1 DEF DeviceReports, Messages
    <3> QED
      BY <3>1 DEF Deliver
  <2>2. CASE DeviceDone
    <3>1. [type |-> "SCAN_DONE"] \in Messages
      BY DEF Messages
    <3> QED
      BY <2>2, <3>1 DEF DeviceDone
  <2>3. CASE Deliver([type |-> "INITIALIZED"])
    <3>1. [type |-> "INITIALIZED"] \in Messages
      BY DEF Messages
    <3> QED
      BY <2>3, <3>1 DEF Deliver
  <2> QED
    BY <2>1, <2>2, <2>3
<1>2. log \in Seq(Entries) /\ Whole(m) \in Entries
  BY WholeIsEntry DEF TypeOK, LineOK
<1>3. CASE log' = log
  BY <1>1, <1>2, <1>3 DEF Grows
<1>4. CASE log' = Append(log, Whole(m))
  BY <1>1, <1>2, <1>4, Appended DEF Grows
<1> QED
  BY <1>1, <1>3, <1>4

\* A message that is cut short begins as before.
LEMMA CutGrows ==
    ASSUME TypeOK, NEW n \in Nat, CutShort(n)
    PROVE  /\ Len(log) \in Nat /\ pos \in 1..Len(log) /\ Len(log') = Len(log) + 1
           /\ \A i \in 1..(Len(log) - 1) : log'[i] = log[i]
           /\ log[Len(log)].bytes \in Seq(Byte)
           /\ n \in 1..(Len(log[Len(log)].bytes) - 1)
           /\ log'[Len(log)].bytes = SubSeq(log[Len(log)].bytes, 1, n)
           /\ pos = Len(log) => off <= n
           /\ IF pos = Len(log) /\ n = off THEN pos' = pos + 1 /\ off' = 0
                                           ELSE pos' = pos /\ off' = off
<1> DEFINE last == Len(log)
           e == Whole([type |-> "INITIALIZED"])
           cut == [log EXCEPT ![last].bytes = SubSeq(@, 1, n)]
<1>1. /\ log \in Seq(Entries) /\ last \in Nat \ {0} /\ pos \in 1..last /\ off \in Nat
      /\ n \in 1..(Len(log[last].bytes) - 1)
      /\ pos = last => n >= off
      /\ log' = Append(cut, e)
      /\ IF pos = last /\ n = off THEN pos' = pos + 1 /\ off' = 0
                                  ELSE pos' = pos /\ off' = off
  BY DEF CutShort, TypeOK, LineOK
<1>2. log[last] \in Entries /\ log[last].bytes \in Seq(Byte)
  <2>1. log[last] \in Entries
    BY <1>1
  <2> QED
    BY <2>1 DEF Entries
<1>3. SubSeq(log[last].bytes, 1, n) \in Seq(Byte)
  BY <1>1, <1>2
<1>4. /\ cut \in Seq(Entries) /\ Len(cut) = last
      /\ cut[last].bytes = SubSeq(log[last].bytes, 1, n)
      /\ \A i \in 1..(last - 1) : cut[i] = log[i]
  <2>1. [log[last] EXCEPT !.bytes = SubSeq(@, 1, n)] \in Entries
    BY <1>2, <1>3 DEF Entries
  <2>2. cut = [log EXCEPT ![last] = [log[last] EXCEPT !.bytes = SubSeq(@, 1, n)]]
    BY <1>1
  <2> QED
    BY <2>1, <2>2, <1>1 DEF Entries
<1>5. e \in Entries
  BY WholeIsEntry DEF Messages
<1> HIDE DEF cut, e
<1>6. Len(log') = last + 1 /\ \A i \in 1..last : log'[i] = cut[i]
  <2>1. /\ Len(Append(cut, e)) = Len(cut) + 1
        /\ \A i \in 1..Len(cut) : Append(cut, e)[i] = cut[i]
    BY ONLY <1>4, <1>5, Appended
  <2>2. log' = Append(cut, e) /\ Len(cut) = last
    BY <1>1, <1>4
  <2> HIDE DEF last
  <2> QED
    BY ONLY <2>1, <2>2
<1> QED
  BY <1>1, <1>2, <1>4, <1>6

\* What an init task does with a byte.
LEMMA InitReadsByte ==
    ASSUME TypeOK, WindowInv, InitReads, ReadByte
    PROVE  /\ Advances
           /\ pos \in 1..Len(log) /\ off \in Nat
           /\ log[pos].bytes \in Seq(Byte) /\ off < Len(log[pos].bytes)
           /\ window' \in Seq(Byte) /\ Len(window') = SeqLen
           /\ \A j \in 0..(SeqLen - 1) : j < off + 1 =>
                  window'[SeqLen - j] = FromTty(log[pos].bytes[(off + 1) - j])
           /\ \A j \in 1..(SeqLen - 1) : window'[SeqLen - j] = window[(SeqLen - j) + 1]
           /\ IF window' = initialized_sequence
              THEN task' = "none" /\ initialized' = "yes"
              ELSE /\ at' = "seq" /\ ~pending'
                   /\ UNCHANGED <<task, fd, initialized>>
<1> DEFINE bytes == log[pos].bytes
           b == FromTty(bytes[off + 1])
<1>1. /\ Advances /\ LineOK
      /\ pos \in 1..Len(log) /\ off \in Nat /\ off < Len(bytes)
  BY DEF ReadByte, Advances, TypeOK, LineOK
<1>2. bytes \in Seq(Byte) /\ bytes[off + 1] \in Byte
  BY <1>1, LogEntries, AdvancedLine
<1>3. b \in Byte
  BY <1>2, TtyByte
<1>4. at = "seq" /\ ~pending
  BY DEF WindowInv
<1>5. InitByte(b)
  BY <1>4 DEF ReadByte, Collects, Throws, Command, Channel, Band, LQI, Time, Length, Data, LastByte
<1>6. window' = Append(Tail(window), b)
  BY <1>4, <1>5 DEF InitByte, Shift
<1>7. window \in Seq(Byte) /\ Len(window) = SeqLen /\ window # <<>>
  BY SequenceFacts, HasLength DEF TypeOK, TaskOK
<1>8. /\ window' \in Seq(Byte) /\ Len(window') = SeqLen
      /\ window'[SeqLen] = b
      /\ \A j \in 1..(SeqLen - 1) : window'[SeqLen - j] = window[(SeqLen - j) + 1]
  BY <1>3, <1>6, <1>7, WindowShifted
<1>9. ASSUME NEW j \in 0..(SeqLen - 1), j < off + 1
      PROVE  window'[SeqLen - j] = FromTty(bytes[(off + 1) - j])
  <2>1. CASE j = 0
    BY <1>1, <1>8, <2>1, SequenceFacts
  <2>2. CASE j # 0
    <3>1. /\ j \in 1..(SeqLen - 1) /\ j - 1 \in 0..(SeqLen - 1) /\ j - 1 < off
          /\ SeqLen - (j - 1) = (SeqLen - j) + 1 /\ off - (j - 1) = (off + 1) - j
      BY <1>1, <1>9, <2>2, SequenceFacts
    <3>2. window[SeqLen - (j - 1)] = FromTty(bytes[off - (j - 1)])
      BY <3>1 DEF WindowInv
    <3> QED
      BY <1>8, <3>1, <3>2
  <2> QED
    BY <2>1, <2>2
<1>10. IF window' = initialized_sequence
       THEN task' = "none" /\ initialized' = "yes"
       ELSE at' = "seq" /\ ~pending' /\ UNCHANGED <<task, fd, initialized>>
  BY <1>5 DEF InitByte, Read
<1> QED
  BY <1>1, <1>2, <1>8, <1>9, <1>10

\* Whatever happens, the window keeps the end of what has been read, and no whole
\* sequence is left behind.
LEMMA WindowStep ==
    TypeOK /\ PortHeld /\ WindowInv /\ InitMissesNothing /\ [Next]_vars
        => WindowInv' /\ InitMissesNothing'
<1> SUFFICES ASSUME TypeOK, PortHeld, WindowInv, InitMissesNothing, [Next]_vars
             PROVE  WindowInv' /\ InitMissesNothing'
  OBVIOUS
<1>0. /\ pos \in 1..(Len(log) + 1) /\ Len(log) \in Nat /\ off \in Nat
      /\ pos = Len(log) + 1 => off = 0
  BY DEF TypeOK, LineOK
<1>1. ASSUME Grows, UNCHANGED <<fd, task, callVars, window, harm>>
      PROVE  WindowInv' /\ InitMissesNothing'
  <2>1. ASSUME NEW i \in 1..(pos - 1) PROVE log'[i] = log[i]
    BY <1>0, <1>1 DEF Grows
  <2>2. ASSUME off > 0 PROVE log'[pos] = log[pos]
    BY <1>0, <1>1, <2>2 DEF Grows
  <2>3. InitMissesNothing'
    BY <1>1, <2>1 DEF InitMissesNothing, Grows
  <2>4. WindowInv'
    <3>1. ASSUME InitReads, NEW j \in 0..(SeqLen - 1), j < off
          PROVE  window[SeqLen - j] = FromTty(log'[pos].bytes[off - j])
      BY <1>0, <2>2, <3>1, SequenceFacts DEF WindowInv
    <3> QED
      BY <1>1, <3>1 DEF WindowInv, InitReads, Grows, callVars
  <2> QED
    BY <2>3, <2>4
<1>2. CASE UNCHANGED vars
  BY <1>0, <1>1, <1>2 DEF Grows, vars, devVars, lineVars, callVars, histVars
<1>3. CASE DeviceReports
  BY <1>1, <1>3, DeviceGrows DEF DeviceReports, histVars
<1>4. CASE DeviceDone
  BY <1>1, <1>4, DeviceGrows DEF DeviceDone, histVars
<1>5. CASE PressReset
  <2>1. CASE Deliver([type |-> "INITIALIZED"]) /\ UNCHANGED harm
    BY <1>1, <1>5, <2>1, DeviceGrows DEF PressReset
  <2>2. CASE fd = "open" /\ \E n \in 1..(HeaderLen + 127) : CutShort(n)
    <3>1. PICK n \in Nat : CutShort(n)
      BY <2>2 DEF HeaderLen
    <3> DEFINE last == Len(log)
               bytes == log[last].bytes
    <3>2. /\ last \in Nat /\ pos \in 1..last /\ Len(log') = last + 1
          /\ \A i \in 1..(last - 1) : log'[i] = log[i]
          /\ bytes \in Seq(Byte)
          /\ n \in 1..(Len(bytes) - 1)
          /\ log'[last].bytes = SubSeq(bytes, 1, n)
          /\ pos = last => off <= n
          /\ IF pos = last /\ n = off THEN pos' = pos + 1 /\ off' = 0
                                      ELSE pos' = pos /\ off' = off
      BY <3>1, CutGrows
    <3>3. UNCHANGED <<fd, task, callVars, window>> /\ ("error" \in harm <=> "error" \in harm')
      BY <1>5, <3>1 DEF PressReset, CutShort
    <3> HIDE DEF last, bytes
    <3>4. /\ SubSeq(bytes, 1, n) \in Seq(Byte) /\ Len(SubSeq(bytes, 1, n)) = n
          /\ \A k \in 1..n : SubSeq(bytes, 1, n)[k] = bytes[k]
      BY <3>2
    <3>5. ASSUME NEW i \in 1..(pos - 1) PROVE log'[i] = log[i]
      <4>1. i \in 1..(last - 1)
        BY <3>2
      <4> QED
        BY <3>2, <4>1
    <3>6. ASSUME InitReads, pos = last, n = off PROVE log'[pos].bytes # initialized_sequence
      <4> SUFFICES ASSUME SubSeq(bytes, 1, n) = initialized_sequence PROVE FALSE
        BY <3>2, <3>6
      <4>1. n = SeqLen /\ \A k \in 1..SeqLen : bytes[k] = initialized_sequence[k]
        BY <3>4, SequenceFacts
      <4>2. \A j \in 0..(SeqLen - 1) : window[SeqLen - j] = FromTty(bytes[SeqLen - j])
        BY <3>6, <4>1, SequenceFacts DEF WindowInv, bytes
      <4>3. window \in Seq(Byte) /\ Len(window) = SeqLen /\ Len(bytes) >= SeqLen
        BY <3>2, <4>1, SequenceFacts DEF TypeOK, TaskOK
      <4> QED
        BY <3>2, <3>6, <4>1, <4>2, <4>3, WindowIsSequence DEF WindowInv
    <3>7. InitMissesNothing'
      <4> SUFFICES ASSUME task = "init", "error" \notin harm, NEW i \in 1..(pos' - 1)
                   PROVE  log'[i].bytes # initialized_sequence
        BY <3>3 DEF InitMissesNothing
      <4>1. CASE i \in 1..(pos - 1)
        BY <3>5, <4>1 DEF InitMissesNothing
      <4>2. CASE i \notin 1..(pos - 1)
        <5>1. pos = last /\ n = off /\ i = pos
          BY <3>2, <4>2
        <5> QED
          BY <2>2, <3>6, <5>1 DEF InitReads
      <4> QED
        BY <4>1, <4>2
    <3>8. WindowInv'
      <4> SUFFICES ASSUME InitReads, NEW j \in 0..(SeqLen - 1), j < off'
                   PROVE  window[SeqLen - j] = FromTty(log'[pos'].bytes[off' - j])
        BY <3>3 DEF WindowInv, InitReads, callVars
      <4>1. pos' = pos /\ off' = off /\ off - j \in 1..off
        BY <1>0, <3>2, SequenceFacts
      <4>2. log'[pos].bytes[off - j] = log[pos].bytes[off - j]
        <5>1. CASE pos = last
          <6>1. off - j \in 1..n
            BY <1>0, <3>2, <4>1, <5>1
          <6> QED
            BY <3>2, <3>4, <5>1, <6>1 DEF bytes
        <5>2. CASE pos # last
          <6>1. pos \in 1..(last - 1)
            BY <3>2, <5>2
          <6> QED
            BY <3>2, <6>1
        <5> QED
          BY <5>1, <5>2
      <4> QED
        BY <4>1, <4>2 DEF WindowInv
    <3> QED
      BY <3>7, <3>8
  <2> QED
    BY <1>5, <2>1, <2>2 DEF PressReset
<1>6. CASE Unplug
  <2>1. fd' # "open" /\ UNCHANGED <<lineVars, task, harm>>
    BY <1>6 DEF Unplug
  <2> QED
    BY <2>1 DEF WindowInv, InitReads, InitMissesNothing, lineVars
<1>7. CASE Plug
  BY <1>0, <1>1, <1>7 DEF Plug, Grows, lineVars, histVars
<1>8. CASE Disconnected \/ ProcessDies \/ InitFails \/ ScanNoName \/ ScanOpens \/ StartLost \/ ScanOpenFails
  <2>1. task' # "init"
    BY <1>8 DEF Disconnected, ProcessDies, InitFails, ScanNoName, ScanOpens, StartLost, ScanOpenFails,
       BeginScan, Dies
  <2> QED
    BY <2>1 DEF WindowInv, InitReads, InitMissesNothing
<1>9. CASE InitOpens
  <2>1. at' = "seq" /\ ~pending' /\ pos' = 1 /\ off' = 0 /\ window'[1] = 0
    BY <1>9, SequenceFacts DEF InitOpens, Open, Read
  <2>2. initialized_sequence[1] # 0
    BY SequenceFacts
  <2> QED
    BY <2>1, <2>2, SequenceFacts DEF WindowInv, InitMissesNothing
<1>10. CASE ReadByte
  <2>1. CASE task' = "init" /\ "error" \notin harm'
    <3>1. InitReads
      <4>1. fd = "open" /\ "error" \notin harm
        BY <1>10, <2>1 DEF ReadByte
      <4>2. task' = task \/ task' = "none"
        BY <1>10 DEF ReadByte, InitByte, Collects, Throws, Command, Channel, Band, LQI, Time,
           Length, Data, Dies, ScanStays
      <4> QED
        BY <2>1, <4>1, <4>2 DEF InitReads
    <3> DEFINE bytes == log[pos].bytes
    <3>2. /\ Advances
          /\ pos \in 1..Len(log) /\ off \in Nat
          /\ bytes \in Seq(Byte) /\ off < Len(bytes)
          /\ window' \in Seq(Byte) /\ Len(window') = SeqLen
          /\ \A j \in 0..(SeqLen - 1) : j < off + 1 =>
                 window'[SeqLen - j] = FromTty(bytes[(off + 1) - j])
          /\ window' # initialized_sequence
          /\ at' = "seq" /\ ~pending'
      BY <1>10, <2>1, <3>1, InitReadsByte
    <3> HIDE DEF bytes
    <3>3. log' = log
      BY <3>2 DEF Advances
    <3>4. CASE off + 1 = Len(bytes)
      <4>1. pos' = pos + 1 /\ off' = 0
        BY <3>2, <3>4 DEF Advances, bytes
      <4>2. bytes # initialized_sequence
        <5> SUFFICES ASSUME bytes = initialized_sequence PROVE FALSE
          OBVIOUS
        <5>1. off + 1 = SeqLen
          BY <3>4, SequenceFacts
        <5>2. \A j \in 0..(SeqLen - 1) : window'[SeqLen - j] = FromTty(bytes[SeqLen - j])
          BY <3>2, <5>1, SequenceFacts
        <5>3. Len(bytes) >= SeqLen /\ \A k \in 1..SeqLen : bytes[k] = initialized_sequence[k]
          BY SequenceFacts
        <5> QED
          BY <3>2, <5>2, <5>3, WindowIsSequence
      <4>3. \A i \in 1..(pos' - 1) : i \in 1..(pos - 1) \/ i = pos
        BY <3>2, <4>1
      <4> QED
        BY <2>1, <3>1, <3>2, <3>3, <4>1, <4>2, <4>3
           DEF WindowInv, InitMissesNothing, InitReads, bytes
    <3>5. CASE off + 1 # Len(bytes)
      <4>1. pos' = pos /\ off' = off + 1
        BY <3>2, <3>5 DEF Advances, bytes
      <4>2. InitMissesNothing'
        BY <3>1, <3>3, <4>1 DEF InitMissesNothing, InitReads
      <4>3. WindowInv'
        BY <3>2, <3>3, <4>1 DEF WindowInv, InitReads, bytes
      <4> QED
        BY <4>2, <4>3
    <3> QED
      BY <3>4, <3>5
  <2>2. CASE ~(task' = "init" /\ "error" \notin harm')
    BY <2>2 DEF WindowInv, InitReads, InitMissesNothing
  <2> QED
    BY <2>1, <2>2
<1>11. CASE ReadFails
  <2>1. "error" \in harm'
    BY <1>11 DEF ReadFails
  <2> QED
    BY <2>1 DEF WindowInv, InitReads, InitMissesNothing
<1> QED
  BY <1>2, <1>3, <1>4, <1>5, <1>6, <1>7, <1>8, <1>9, <1>10, <1>11 DEF Next, Device, Phone

\* A reset sequence that comes whole is not missed, whatever it follows: the init task
\* ends with its last byte, and so never has one behind it.
THEOREM MissesNothing == Spec => []InitMissesNothing
<1>1. Init => WindowInv /\ InitMissesNothing /\ PortHeld
  BY DEF Init, WindowInv, InitReads, InitMissesNothing, PortHeld
<1> QED
  BY <1>1, TypeCorrect, PortHeldStep, WindowStep, PTL DEF Spec

\* The end of a message holds no sequence if the message holds none, nor does the end
\* of a reset sequence that is not all of it.
LEMMA EndHoldsNone ==
    ASSUME OnlyResetsHoldSequence, NEW m \in Messages, NEW k \in 2..Len(Bytes(m))
    PROVE  ~HoldsSequence(SubSeq(Bytes(m), k, Len(Bytes(m))))
<1> DEFINE s == Bytes(m)
           t == SubSeq(s, k, Len(s))
<1>1. s \in Seq(Byte) /\ Len(s) \in Nat
  BY MessageBytes
<1> HIDE DEF s
<1>2. Len(t) = (Len(s) - k) + 1 /\ \A i \in 1..Len(t) : t[i] = s[(k - 1) + i]
  BY <1>1 DEF s
<1> HIDE DEF t
<1> SUFFICES ASSUME HoldsSequence(t) PROVE FALSE
  BY DEF t, s
<1>3. PICK n \in 0..Len(t) :
         /\ n + SeqLen <= Len(t)
         /\ \A i \in 1..SeqLen : t[n + i] = initialized_sequence[i]
  BY DEF HoldsSequence
<1>4. HoldsSequence(s)
  <2>1. (k - 1) + n \in 0..Len(s) /\ ((k - 1) + n) + SeqLen <= Len(s)
    BY <1>1, <1>2, <1>3, SequenceFacts DEF s
  <2>2. ASSUME NEW i \in 1..SeqLen PROVE s[((k - 1) + n) + i] = initialized_sequence[i]
    <3>1. n + i \in 1..Len(t) /\ (k - 1) + (n + i) = ((k - 1) + n) + i
      BY <1>1, <1>2, <1>3, SequenceFacts DEF s
    <3> QED
      BY <1>2, <1>3, <3>1
  <2> QED
    BY <2>1, <2>2 DEF HoldsSequence
<1>5. m.type = "INITIALIZED"
  BY <1>4 DEF OnlyResetsHoldSequence, s
<1>6. Len(s) = SeqLen
  BY <1>5, MessageBytes, SequenceFacts DEF s
<1> QED
  BY <1>1, <1>2, <1>3, <1>6, SequenceFacts DEF s

\* What the device reports is a channel or a packet.
LEMMA ReportsAppend ==
    ASSUME DeviceReports
    PROVE  \E m \in Messages :
              /\ m.type \in {"CHAN_IS", "RECEIVED_PACKET"}
              /\ log' \in {log, Append(log, Whole(m))}
<1>1. CASE \E c \in Channels : Deliver([type |-> "CHAN_IS", chan |-> c])
  <2>1. PICK c \in Channels : Deliver([type |-> "CHAN_IS", chan |-> c])
    BY <1>1
  <2> DEFINE m == [type |-> "CHAN_IS", chan |-> c]
  <2>2. m \in Messages /\ m.type = "CHAN_IS"
    BY DEF Messages
  <2> HIDE DEF m
  <2>3. log' \in {log, Append(log, Whole(m))}
    BY <2>1 DEF Deliver, m
  <2> QED
    BY <2>2, <2>3
<1>2. CASE \E c \in Channels, q \in LQIs, f \in Frames :
             Deliver([type |-> "RECEIVED_PACKET", band |-> c, lqi |-> q, frame |-> f])
  <2>1. PICK c \in Channels, q \in LQIs, f \in Frames :
             Deliver([type |-> "RECEIVED_PACKET", band |-> c, lqi |-> q, frame |-> f])
    BY <1>2
  <2> DEFINE m == [type |-> "RECEIVED_PACKET", band |-> c, lqi |-> q, frame |-> f]
  <2>2. m \in Messages /\ m.type = "RECEIVED_PACKET"
    BY DEF Messages
  <2> HIDE DEF m
  <2>3. log' \in {log, Append(log, Whole(m))}
    BY <2>1 DEF Deliver, m
  <2> QED
    BY <2>2, <2>3
<1> QED
  BY <1>1, <1>2 DEF DeviceReports

\* While the device scans, what its port gets begins like a report.
LEMMA EchoStep ==
    TypeOK /\ WindowInv /\ EchoInv /\ [Next]_vars => EchoInv'
<1> SUFFICES ASSUME TypeOK, WindowInv, EchoInv, [Next]_vars, InitReads', devScan',
                    OnlyResetsHoldSequence
             PROVE  /\ \A i \in 1..Len(log') :
                           /\ ~HoldsSequence(log'[i].bytes)
                           /\ i > 1 => log'[i].bytes[1] \in {2, 7}
                    /\ pos' = 1 => \A j \in 0..(SeqLen - 1) : j >= off' => window'[SeqLen - j] = 0
  BY DEF EchoInv, OnlyResetsHoldSequence
<1>0. OnlyResetsHoldSequence
  OBVIOUS
<1>1. CASE UNCHANGED vars \/ Plug
  BY <1>1 DEF EchoInv, InitReads, Plug, vars, devVars, lineVars, histVars
<1>2. CASE DeviceReports
  <2>1. PICK m \in Messages :
           /\ m.type \in {"CHAN_IS", "RECEIVED_PACKET"}
           /\ log' \in {log, Append(log, Whole(m))}
    BY <1>2, ReportsAppend
  <2>2. InitReads /\ devScan /\ UNCHANGED <<pos, off, window>>
    BY <1>2 DEF DeviceReports, Deliver, InitReads, histVars
  <2>3. ~HoldsSequence(Whole(m).bytes) /\ Whole(m).bytes[1] \in {2, 7}
    <3>1. Whole(m).bytes = Bytes(m) /\ ~HoldsSequence(Bytes(m))
      BY <2>1 DEF Whole, OnlyResetsHoldSequence
    <3> QED
      BY <2>1, <3>1, MessageBytes, PacketBytes
  <2>4. log \in Seq(Entries) /\ Whole(m) \in Entries
    BY WholeIsEntry DEF TypeOK, LineOK
  <2>5. \A i \in 1..Len(log') : log'[i] = Whole(m) \/ (i \in 1..Len(log) /\ log'[i] = log[i])
    <3>1. CASE log' = log
      BY <3>1
    <3>2. CASE log' = Append(log, Whole(m))
      BY <2>4, <3>2, Appended
    <3> QED
      BY <2>1, <3>1, <3>2
  <2> QED
    BY <2>2, <2>3, <2>5 DEF EchoInv
<1>3. CASE DeviceDone \/ PressReset \/ Unplug
  BY <1>3 DEF DeviceDone, PressReset, Unplug
<1>4. CASE Disconnected \/ ProcessDies \/ InitFails \/ ScanNoName \/ ScanOpens \/ StartLost \/ ScanOpenFails
  BY <1>4 DEF Disconnected, ProcessDies, InitFails, ScanNoName, ScanOpens, StartLost, ScanOpenFails,
     BeginScan, Dies, InitReads
<1>5. CASE InitOpens
  <2>1. ASSUME NEW j \in 0..(SeqLen - 1) PROVE window'[SeqLen - j] = 0
    BY <1>5, SequenceFacts DEF InitOpens
  <2>2. ASSUME NEW i \in 1..Len(log')
        PROVE  ~HoldsSequence(log'[i].bytes) /\ (i > 1 => log'[i].bytes[1] \in {2, 7})
    <3>1. log' # <<>>
      BY <2>2
    <3>2. PICK m \in Messages : \E k \in 2..Len(Bytes(m)) :
              log' = <<[msg |-> m, bytes |-> SubSeq(Bytes(m), k, Len(Bytes(m)))]>>
      BY <1>5, <3>1 DEF InitOpens, Open
    <3>3. PICK k \in 2..Len(Bytes(m)) :
              log' = <<[msg |-> m, bytes |-> SubSeq(Bytes(m), k, Len(Bytes(m)))]>>
      BY <3>2
    <3>4. i = 1 /\ log'[1].bytes = SubSeq(Bytes(m), k, Len(Bytes(m)))
      BY <3>3
    <3> QED
      BY <3>4, EndHoldsNone
  <2> QED
    BY <2>1, <2>2
<1>6. CASE ReadByte
  <2>1. devScan /\ InitReads
    <3>1. fd = "open" /\ "error" \notin harm /\ devScan
      BY <1>6 DEF ReadByte, InitReads, devVars
    <3>2. task' = task \/ task' = "none"
      BY <1>6 DEF ReadByte, InitByte, Collects, Throws, Command, Channel, Band, LQI, Time,
         Length, Data, Dies, ScanStays
    <3> QED
      BY <3>1, <3>2 DEF InitReads
  <2>2. /\ Advances
        /\ pos \in 1..Len(log) /\ off \in Nat
        /\ \A j \in 1..(SeqLen - 1) : window'[SeqLen - j] = window[(SeqLen - j) + 1]
    BY <1>6, <2>1, InitReadsByte
  <2>3. log' = log /\ (pos' = 1 => pos = 1 /\ off' = off + 1)
    BY <2>2 DEF Advances
  <2>4. ASSUME pos' = 1, NEW j \in 0..(SeqLen - 1), j >= off' PROVE window'[SeqLen - j] = 0
    <3>1. /\ j \in 1..(SeqLen - 1) /\ j - 1 \in 0..(SeqLen - 1) /\ j - 1 >= off
          /\ (SeqLen - j) + 1 = SeqLen - (j - 1)
      BY <2>2, <2>3, <2>4, SequenceFacts
    <3>2. window[SeqLen - (j - 1)] = 0
      BY <2>1, <2>3, <2>4, <3>1 DEF EchoInv
    <3> QED
      BY <2>2, <3>1, <3>2
  <2> QED
    BY <2>1, <2>3, <2>4 DEF EchoInv
<1>7. CASE ReadFails
  BY <1>7 DEF ReadFails, InitReads
<1> QED
  BY <1>1, <1>2, <1>3, <1>4, <1>5, <1>6, <1>7 DEF Next, Device, Phone

\* So an init task sees no sequence while the device scans.
LEMMA ScansAreNoReset ==
    ASSUME TypeOK, WindowInv, EchoInv, InitReads, devScan, OnlyResetsHoldSequence, ReadByte
    PROVE  window' # initialized_sequence
<1> DEFINE bytes == log[pos].bytes
           o == off + 1
<1>1. /\ pos \in 1..Len(log) /\ off \in Nat
      /\ bytes \in Seq(Byte) /\ off < Len(bytes)
      /\ \A j \in 0..(SeqLen - 1) : j < o => window'[SeqLen - j] = FromTty(bytes[o - j])
      /\ \A j \in 1..(SeqLen - 1) : window'[SeqLen - j] = window[(SeqLen - j) + 1]
  BY InitReadsByte
<1>2. /\ ~HoldsSequence(bytes)
      /\ pos > 1 => bytes[1] \in {2, 7}
      /\ pos = 1 => \A j \in 0..(SeqLen - 1) : j >= off => window[SeqLen - j] = 0
  BY <1>1 DEF EchoInv
<1> HIDE DEF bytes
<1> SUFFICES ASSUME window' = initialized_sequence PROVE FALSE
  OBVIOUS
<1>3. CASE o >= SeqLen
  <2>1. o - SeqLen \in 0..Len(bytes) /\ (o - SeqLen) + SeqLen <= Len(bytes)
    BY <1>1, <1>3, SequenceFacts
  <2>2. ASSUME NEW i \in 1..SeqLen PROVE bytes[(o - SeqLen) + i] = initialized_sequence[i]
    <3>1. /\ SeqLen - i \in 0..(SeqLen - 1) /\ SeqLen - i < o
          /\ SeqLen - (SeqLen - i) = i /\ o - (SeqLen - i) = (o - SeqLen) + i
          /\ (o - SeqLen) + i \in 1..Len(bytes)
      BY <1>1, <1>3, SequenceFacts
    <3>2. initialized_sequence[i] = FromTty(bytes[(o - SeqLen) + i])
      BY <1>1, <3>1
    <3>3. bytes[(o - SeqLen) + i] \in Byte
      BY <1>1, <3>1
    <3> QED
      BY <3>2, <3>3, TtySequence
  <2> QED
    BY <1>2, <2>1, <2>2 DEF HoldsSequence
<1>4. CASE o < SeqLen
  <2>1. CASE pos = 1
    <3>1. /\ o \in 1..(SeqLen - 1) /\ off \in 0..(SeqLen - 1)
          /\ (SeqLen - o) + 1 = SeqLen - off /\ SeqLen - o \in 1..SeqLen
      BY <1>1, <1>4, SequenceFacts
    <3>2. initialized_sequence[SeqLen - o] = 0
      BY <1>1, <1>2, <2>1, <3>1
    <3> QED
      BY <3>1, <3>2, SequenceFacts
  <2>2. CASE pos > 1
    <3>1. off \in 0..(SeqLen - 1) /\ off < o /\ o - off = 1 /\ SeqLen - off \in 1..SeqLen
      BY <1>1, <1>4, SequenceFacts
    <3>2. initialized_sequence[SeqLen - off] = FromTty(bytes[1])
      BY <1>1, <3>1
    <3>3. FromTty(bytes[1]) \in {2, 7}
      BY <1>2, <2>2 DEF FromTty
    <3> QED
      BY <3>1, <3>2, <3>3, SequenceFacts
  <2> QED
    BY <1>1, <2>1, <2>2
<1> QED
  BY <1>1, <1>3, <1>4, SequenceFacts

\* A new port is in step; one that was opened in the middle of a scan was opened
\* while the device was scanning.
LEMMA OpensQuietly ==
    ASSUME TypeOK, QuietInv, OnlyResetsHoldSequence, task = "none", initialized = "yes",
           Open, harm' \cap {"error", "reset", "cr"} = {}
    PROVE  log' = <<>> /\ harm' = {}
<1>1. CASE log' = <<>> /\ harm' = {}
  BY <1>1
<1>2. CASE devScan /\ harm' = harm \cup {"joined"}
  <2>1. harm \cap {"error", "reset", "cr"} = {}
    BY <1>2
  <2> QED
    BY <1>2, <2>1 DEF QuietInv
<1> QED
  BY <1>1, <1>2 DEF Open

\* A scan that ends in step has read SCAN_DONE.
LEMMA EndIsDone ==
    ASSUME TypeOK, InStepInv, task = "scan", fd = "open", harm = {},
           pos \in 1..Len(log), LastByte("cmd"), log[pos].bytes[off + 1] = SCAN_DONE
    PROVE  log[pos].msg.type = "SCAN_DONE"
<1>1. off = 0 \/ log[pos].msg.type = "INITIALIZED"
  BY DEF InStepInv, InStep, Scanning, LastByte
<1>2. Known(log[pos]) /\ log[pos].msg \in Messages
  <2>1. LineOK
    BY DEF TypeOK
  <2> QED
    BY <2>1, LogEntries DEF InStepInv, LineKnown
<1>3. log[pos].msg.type # "INITIALIZED"
  <2>1. off + 1 \in 1..Len(log[pos].bytes)
    BY DEF TypeOK, LineOK
  <2> QED
    BY <1>2, <2>1 DEF Known, SCAN_DONE
<1>4. off = 0 /\ log[pos].bytes = Bytes(log[pos].msg)
  BY <1>1, <1>2, <1>3 DEF Known
<1>5. Bytes(log[pos].msg)[1] = 6
  BY <1>4 DEF SCAN_DONE
<1> HIDE DEF Known
<1> QED
  BY <1>2, <1>3, <1>5, MessageKinds, MessageBytes, PacketBytes

\* A scan never reads for the sequence.
ScanFields == task = "scan" => at # "seq"
LEMMA ScanFieldsStep == ScanFields /\ [Next]_vars => ScanFields'
<1> SUFFICES ASSUME ScanFields, [Next]_vars PROVE ScanFields'
  OBVIOUS
<1>1. CASE UNCHANGED vars \/ Device
  BY <1>1 DEF ScanFields, vars, callVars, Device, DeviceReports, DeviceDone, PressReset, Unplug,
     Plug
<1>2. CASE Disconnected \/ ProcessDies \/ InitFails \/ ScanNoName \/ InitOpens \/ ReadFails
  BY <1>2 DEF ScanFields, callVars, Disconnected, ProcessDies, InitFails, ScanNoName, InitOpens,
     ReadFails, Dies
<1>3. CASE ScanOpens \/ StartLost \/ ScanOpenFails
  BY <1>3 DEF ScanFields, ScanOpens, StartLost, ScanOpenFails, BeginScan, Read
<1>4. CASE ReadByte
  BY <1>4 DEF ScanFields, ReadByte, InitByte, Collects, Throws, Command, Channel, Band, LQI, Time,
     Length, Data, Dies, ScanStays, Idle, Read, LastByte
<1> QED
  BY <1>1, <1>2, <1>3, <1>4 DEF Next, Phone

LEMMA QuietStep ==
    TypeOK /\ PortHeld /\ ScanFields /\ InStepInv /\ WindowInv /\ EchoInv /\ QuietInv
        /\ [Next]_vars => QuietInv'
<1> SUFFICES ASSUME TypeOK, PortHeld, ScanFields, InStepInv, WindowInv, EchoInv, QuietInv, [Next]_vars,
                    OnlyResetsHoldSequence, initialized' = "yes",
                    harm' \cap {"error", "reset", "cr"} = {}
             PROVE  /\ task' = "none" => ~devScan'
                    /\ task' = "scan" /\ fd' = "open" =>
                           /\ harm' = {}
                           /\ devScan' => \A i \in 1..Len(log') :
                                             log'[i].msg.type # "SCAN_DONE"
  BY DEF QuietInv, OnlyResetsHoldSequence
<1>0. OnlyResetsHoldSequence
  OBVIOUS
<1>1. CASE UNCHANGED vars \/ Plug
  BY <1>1 DEF QuietInv, Plug, vars, devVars, lineVars, histVars
<1>2. CASE DeviceReports
  <2>1. /\ UNCHANGED <<task, fd, harm, initialized>> /\ devScan' = devScan /\ devScan
        /\ \E m \in Messages : m.type # "SCAN_DONE" /\ log' \in {log, Append(log, Whole(m))}
    BY <1>2, ReportsAppend DEF DeviceReports, devVars, histVars
  <2>2. PICK m \in Messages : m.type # "SCAN_DONE" /\ log' \in {log, Append(log, Whole(m))}
    BY <2>1
  <2>3. log \in Seq(Entries) /\ Whole(m) \in Entries /\ Whole(m).msg = m
    BY WholeIsEntry DEF TypeOK, LineOK, Whole
  <2>4. \A i \in 1..Len(log') : log'[i] = Whole(m) \/ (i \in 1..Len(log) /\ log'[i] = log[i])
    <3>1. CASE log' = log
      BY <3>1
    <3>2. CASE log' = Append(log, Whole(m))
      BY <2>3, <3>2, Appended
    <3> QED
      BY <2>2, <3>1, <3>2
  <2> QED
    BY <2>1, <2>2, <2>3, <2>4 DEF QuietInv
<1>3. CASE DeviceDone \/ Unplug
  BY <1>3 DEF DeviceDone, Unplug, QuietInv, histVars
<1>4. CASE PressReset
  <2>1. ~devScan' /\ UNCHANGED <<task, fd, initialized>>
    BY <1>4 DEF PressReset
  <2>2. harm' = harm \/ harm' = harm \cup {"reset"}
    <3>1. CASE UNCHANGED harm
      BY <3>1
    <3>2. CASE \E n \in 1..(HeaderLen + 127) : CutShort(n)
      BY <3>2 DEF CutShort
    <3> QED
      BY <1>4, <3>1, <3>2 DEF PressReset
  <2>3. harm' = harm
    BY <2>2
  <2> QED
    BY <2>1, <2>3 DEF QuietInv
<1>5. CASE Disconnected \/ ProcessDies \/ InitFails \/ ScanNoName \/ InitOpens
  BY <1>5 DEF Disconnected, ProcessDies, InitFails, ScanNoName, InitOpens, Dies
<1>6. CASE ScanOpens \/ StartLost
  <2>1. task = "none" /\ initialized = "yes" /\ Open
    BY <1>6 DEF ScanOpens, StartLost, BeginScan
  <2>2. log' = <<>> /\ harm' = {}
    BY <2>1, OpensQuietly
  <2>3. task' = "scan" /\ 1..Len(log') = {}
    BY <1>6, <2>2 DEF ScanOpens, StartLost, BeginScan
  <2> QED
    BY <2>2, <2>3
<1>7. CASE ScanOpenFails
  BY <1>7 DEF ScanOpenFails, BeginScan, PortHeld
<1>8. CASE ReadByte
  <2>1. harm \cap {"error", "reset", "cr"} = {} /\ harm' = harm
    BY <1>8 DEF ReadByte
  <2>2. /\ fd = "open" /\ task # "none" /\ pos \in 1..Len(log)
        /\ devScan' = devScan /\ log' = log
    BY <1>8 DEF ReadByte, devVars, PortHeld, TypeOK, LineOK
  <2>3. CASE task = "init"
    <3>1. InitReads
      BY <2>1, <2>2, <2>3 DEF InitReads
    <3>2. IF window' = initialized_sequence
          THEN task' = "none"
          ELSE task' = task /\ initialized' = initialized
      BY <1>8, <3>1, InitReadsByte
    <3>4. CASE window' = initialized_sequence
      <4>1. ~devScan
        BY <1>0, <1>8, <3>1, <3>4, ScansAreNoReset
      <4> QED
        BY <2>2, <3>2, <3>4, <4>1
    <3>5. CASE window' # initialized_sequence
      BY <2>3, <3>2, <3>5
    <3> QED
      BY <3>4, <3>5
  <2>4. CASE task = "scan"
    <3> DEFINE b == FromTty(log[pos].bytes[off + 1])
    <3>1. TaskReads(b) /\ log[pos].bytes[off + 1] = b
      BY <1>8, <2>1 DEF ReadByte, TaskReads
    <3> HIDE DEF b
    <3>2. initialized = "yes"
      <4>1. initialized' = "yes" => initialized = "yes" \/ at = "seq"
        BY <3>1 DEF TaskReads, InitByte, Collects, Throws, Command, Channel, Band, LQI, Time,
           Length, Data, Dies, ScanStays
      <4> QED
        BY <2>4, <4>1 DEF ScanFields
    <3>3. harm = {} /\ (devScan => \A i \in 1..Len(log) : log[i].msg.type # "SCAN_DONE")
      BY <1>0, <2>1, <2>2, <2>4, <3>2 DEF QuietInv
    <3>4. /\ ~pending /\ left \in Nat
          /\ at \in {"cmd", "chan", "band", "lqi", "time", "len", "data"}
          /\ at \in {"cmd", "chan", "band", "lqi", "len"} => left = 1
      BY <2>2, <2>4, <3>3 DEF InStepInv, CallKnown, Scanning, TypeOK, CallOK
    <3>5. CASE at = "cmd" /\ b = SCAN_DONE
      <4>1. log[pos].msg.type = "SCAN_DONE"
        BY <2>2, <2>4, <3>1, <3>3, <3>4, <3>5, EndIsDone DEF LastByte
      <4>2. task' = "none"
        BY <3>1, <3>4, <3>5, WhoReads DEF Command
      <4> QED
        BY <2>2, <3>3, <4>1, <4>2
    <3>6. CASE ~(at = "cmd" /\ b = SCAN_DONE)
      <4>1. task' = "scan"
        <5>1. Command(b) => at = "cmd"
          BY DEF Command, LastByte
        <5> QED
          BY <2>4, <3>1, <3>4, <3>6, <5>1, WhoReads DEF Command, Collects, Channel, LQI, Time,
             Length, Data, ScanStays, Band, Dies
      <4> QED
        BY <2>1, <2>2, <3>3, <4>1
    <3> QED
      BY <3>5, <3>6
  <2> QED
    BY <2>2, <2>3, <2>4 DEF TypeOK, TaskOK
<1>9. CASE ReadFails
  BY <1>9 DEF ReadFails
<1> QED
  BY <1>1, <1>2, <1>3, <1>4, <1>5, <1>6, <1>7, <1>8, <1>9 DEF Next, Device, Phone

\* A scan that begins after an init task has seen the sequence begins at a message:
\* the device was quiet when the port was opened (ZigBeeInit.doInBackground before
\* ZigBeeScanner.doInBackground), if only resets hold the sequence and nothing
\* displaced an earlier scan.
THEOREM MakesQuiet == Spec => []InitMakesQuiet
<1>1. Init => PortHeld /\ ScanFields /\ WindowInv /\ EchoInv /\ QuietInv
  BY DEF Init, PortHeld, ScanFields, WindowInv, EchoInv, QuietInv, InitReads
<1>2. QuietInv => InitMakesQuiet
  BY DEF QuietInv, InitMakesQuiet
<1> QED
  BY <1>1, <1>2, TypeCorrect, InStepInvariant, MissesNothing, PortHeldStep, ScanFieldsStep,
     WindowStep, EchoStep, QuietStep, PTL DEF Spec

=============================================================================
