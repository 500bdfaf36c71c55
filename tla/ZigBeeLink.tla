----------------------------- MODULE ZigBeeLink -----------------------------
(***************************************************************************)
(* The serial line to the ZigBee device: the native reads and writes of    *)
(* awmon.c on a port that serial.c made non-blocking, and above them the   *)
(* two tasks that use the line, ZigBeeInit, which waits for the sequence   *)
(* the device sends after a reset, and ZigBeeScanner, which starts a scan  *)
(* and reads channel numbers and packets until the device says it is done. *)
(*                                                                         *)
(* Tasks run one at a time (the executor is serial) and the scanner never  *)
(* before an init task: see ScanPipeline.  A read of n bytes is n steps    *)
(* ReadByte, since the native functions loop over whatever pieces the tty  *)
(* returns; a read that times out with nothing changes nothing.            *)
(***************************************************************************)
EXTENDS Integers, Sequences

CONSTANTS
    Frames,      \* radio frames the device may hear
    Beacons,     \* byte strings in which wireshark finds zbee.beacon.protocol
    Channels,    \* channels it may report
    LQIs,        \* link qualities it may report
    MaxSends,    \* bound on what the device sends
    MaxFaults    \* bound on failing calls, unplugging and killed processes

Byte == 0..255

ASSUME FramesAssumption ==
    /\ Frames \subseteq Seq(Byte)
    /\ \A f \in Frames : Len(f) \in 1..127
    /\ Beacons \subseteq Seq(Byte)
ASSUME NumbersAssumption == Channels \subseteq 0..15 /\ LQIs \subseteq Byte
ASSUME BoundsAssumption == MaxSends \in Nat /\ MaxFaults \in Nat

\* The commands, of which the phone sends START_SCAN and receives the others.
RECEIVED_PACKET == 2
SCAN_DONE == 6
CHAN_IS == 7
initialized_sequence == <<103, 101, 111, 114, 103, 101, 110, 121, 99, 104, 105, 115>>
SeqLen == Len(initialized_sequence)

Messages ==
    [type : {"INITIALIZED", "SCAN_DONE"}]
      \cup [type : {"CHAN_IS"}, chan : Channels]
      \cup [type : {"RECEIVED_PACKET"}, band : Channels, lqi : LQIs, frame : Frames]

\* What each message looks like on the line; a packet carries a time of four
\* bytes that nobody looks at.
HeaderLen == 8
Bytes(m) ==
    CASE m.type = "INITIALIZED"     -> initialized_sequence
      [] m.type = "SCAN_DONE"       -> <<SCAN_DONE>>
      [] m.type = "CHAN_IS"         -> <<CHAN_IS, m.chan>>
      [] m.type = "RECEIVED_PACKET" ->
             <<RECEIVED_PACKET, m.band, m.lqi, 0, 0, 0, 0, Len(m.frame)>> \o m.frame

\* A message on the line, of which the port may have got only a part.
Entries == [msg : Messages, bytes : Seq(Byte)]
Whole(m) == [msg |-> m, bytes |-> Bytes(m)]
IsBeacon(m) == m.type = "RECEIVED_PACKET" /\ m.frame \in Beacons

VARIABLES
    plugged,      \* the device is on the bus
    devScan,      \* the device is scanning
    log,          \* history: what the open port has received, message by message
    pos, off,     \* the first off bytes of log[pos], and all before it, are read
    fd,           \* the port: "closed", "open", or "hung" up by unplugging
    task,         \* the running task: "none", "init" or "scan"
    at,           \* the field that is being read
    left,         \* bytes the native call in progress still has to read
    got,          \* bytes it has read
    pending,      \* an exception is pending in it
    window,       \* ZigBeeInit's readSeq
    cur,          \* the packet being read: band and LQI
    result,       \* ZigBeeScanner's scanResult, with the message each came from
    initialized,  \* an init task "no" (has not run yet), has "tried", or said "yes";
                  \* "gone": the device was unplugged since then
    harm,         \* history: what can have displaced the reader
    disturbed,    \* history: something interfered with the running task
    sends, faults

devVars  == <<plugged, devScan>>
lineVars == <<log, pos, off>>
callVars == <<at, left, got, pending>>
scanVars == <<cur, result>>
histVars == <<harm, disturbed>>
vars == <<devVars, lineVars, fd, task, callVars, window, scanVars, initialized,
          histVars, sends, faults>>

-----------------------------------------------------------------------------
(* The device and the user                                                 *)

\* Bytes that arrive while no port is open are lost.
Deliver(m) ==
    /\ sends < MaxSends
    /\ sends' = sends + 1
    /\ log' = IF fd = "open" THEN Append(log, Whole(m)) ELSE log
    /\ UNCHANGED <<pos, off>>

\* While it scans, the device reports the channels and what it hears on them.
DeviceReports ==
    /\ devScan
    /\ \/ \E c \in Channels : Deliver([type |-> "CHAN_IS", chan |-> c])
       \/ \E c \in Channels, q \in LQIs, f \in Frames :
              Deliver([type |-> "RECEIVED_PACKET", band |-> c, lqi |-> q, frame |-> f])
    /\ UNCHANGED <<devVars, fd, task, callVars, window, scanVars, initialized,
                   histVars, faults>>

DeviceDone ==
    /\ devScan
    /\ devScan' = FALSE
    /\ log' = IF fd = "open" THEN Append(log, Whole([type |-> "SCAN_DONE"])) ELSE log
    /\ UNCHANGED <<plugged, pos, off, fd, task, callVars, window, scanVars, initialized,
                   histVars, sends, faults>>

\* The device is reset while the last n bytes of a message are still to be sent.
CutShort(n) ==
    LET last == Len(log)
    IN  /\ last > 0 /\ pos <= last
        /\ n \in 1..(Len(log[last].bytes) - 1)
        /\ pos = last => n >= off
        /\ log' = Append([log EXCEPT ![last].bytes = SubSeq(@, 1, n)],
                         Whole([type |-> "INITIALIZED"]))
        /\ IF pos = last /\ n = off THEN pos' = pos + 1 /\ off' = 0
                                    ELSE UNCHANGED <<pos, off>>
        /\ harm' = IF log[last].msg.type = "INITIALIZED" THEN harm ELSE harm \cup {"reset"}
        /\ sends < MaxSends
        /\ sends' = sends + 1

\* The user presses the reset button: the device says that it is initialized and
\* forgets a scan.
PressReset ==
    /\ plugged
    /\ \/ Deliver([type |-> "INITIALIZED"]) /\ UNCHANGED harm
       \/ fd = "open" /\ \E n \in 1..(HeaderLen + 127) : CutShort(n)
    /\ devScan' = FALSE
    /\ disturbed' = (disturbed \/ devScan)
    /\ UNCHANGED <<plugged, fd, task, callVars, window, scanVars, initialized, faults>>

Fault == faults < MaxFaults /\ faults' = faults + 1

\* The driver hangs up a port that is open: it never reads anything again.
Unplug ==
    /\ plugged
    /\ Fault
    /\ plugged' = FALSE
    /\ devScan' = FALSE
    /\ fd' = IF fd = "open" THEN "hung" ELSE fd
    /\ disturbed' = TRUE
    /\ UNCHANGED <<lineVars, task, callVars, window, scanVars, initialized, harm, sends>>

Plug ==
    /\ ~plugged
    /\ plugged' = TRUE
    /\ UNCHANGED <<devScan, lineVars, fd, task, callVars, window, scanVars, initialized,
                   histVars, sends, faults>>

\* usbUpdate finds the device missing.  A device that is back before the next
\* poll was never gone.
Disconnected ==
    /\ ~plugged
    /\ initialized \in {"tried", "yes"}
    /\ task = "none"
    /\ initialized' = "gone"
    /\ UNCHANGED <<devVars, lineVars, fd, task, callVars, window, scanVars, histVars,
                   sends, faults>>

-----------------------------------------------------------------------------
(* openCommPort and the beginning of a native read                         *)

\* A port that is opened while the device sends begins in the middle.
Open ==
    /\ plugged
    /\ fd' = "open"
    /\ pos' = 1 /\ off' = 0
    /\ \/ log' = <<>> /\ harm' = {}
       \/ /\ devScan
          /\ \E m \in Messages : \E k \in 2..Len(Bytes(m)) :
                 log' = <<[msg |-> m, bytes |-> SubSeq(Bytes(m), k, Len(Bytes(m)))]>>
          /\ harm' = harm \cup {"joined"}

Read(field, n) == at' = field /\ left' = n /\ got' = <<>> /\ pending' = FALSE
Idle == Read("idle", 0)

\* Mutation: that the device was initialized is remembered.
DiesRemembering ==
    /\ task' = "none"
    /\ fd' = "closed"
    /\ Idle
    /\ UNCHANGED <<window, scanVars, initialized>>

\* The process ends with everything it has in memory; the service comes back.
Dies ==
    /\ task' = "none"
    /\ fd' = "closed"
    /\ initialized' = "no"
    /\ Idle
    /\ UNCHANGED <<window, scanVars>>

ProcessDies ==
    /\ Fault
    /\ Dies
    /\ disturbed' = TRUE
    /\ UNCHANGED <<devVars, lineVars, harm, sends>>

-----------------------------------------------------------------------------
(* ZigBeeInit                                                              *)

InitOpens ==
    /\ task = "none"
    /\ initialized \in {"no", "gone"}
    /\ Open
    /\ task' = "init"
    /\ Read("seq", 1)
    /\ window' = [i \in 1..SeqLen |-> 0]
    /\ disturbed' = FALSE
    /\ UNCHANGED <<devVars, scanVars, initialized, sends, faults>>

\* No name in dmesg, or no port: the task ends, and nobody looks at its result.
InitFails ==
    /\ task = "none"
    /\ initialized \in {"no", "gone"}
    /\ Fault
    /\ initialized' = "tried"
    /\ UNCHANGED <<devVars, lineVars, fd, task, callVars, window, scanVars, histVars, sends>>

\* Mutation: on a mismatch the window starts over.
WindowStartsOver(b) ==
    LET n == CHOOSE k \in 0..SeqLen :
                 /\ SubSeq(window, SeqLen - k + 1, SeqLen) = SubSeq(initialized_sequence, 1, k)
                 /\ \A j \in (k + 1)..SeqLen :
                        SubSeq(window, SeqLen - j + 1, SeqLen)
                            # SubSeq(initialized_sequence, 1, j)
    IN  IF n < SeqLen /\ b = initialized_sequence[n + 1]
        THEN Append(Tail(window), b) ELSE [i \in 1..SeqLen |-> 0]

\* checkInitSeq looks at the last bytes read.
Shift(b) == Append(Tail(window), b)

InitByte(b) ==
    /\ at = "seq"
    /\ LET c == IF pending THEN 102 ELSE b
       IN  /\ window' = Shift(c)
    /\ IF window' = initialized_sequence
       THEN /\ Idle
            /\ task' = "none"
            /\ fd' = "closed"
            /\ initialized' = "yes"
       ELSE Read("seq", 1) /\ UNCHANGED <<task, fd, initialized>>
    /\ UNCHANGED scanVars

-----------------------------------------------------------------------------
(* ZigBeeScanner                                                           *)

\* The scanner comes behind the init task, but for one that was queued when the
\* device was unplugged (ScanPipeline, InitBeforeScan).
BeginScan ==
    /\ task = "none"
    /\ initialized # "no"
    /\ task' = "scan"
    /\ initialized' = IF initialized = "gone" THEN "no" ELSE initialized
    /\ result' = <<>>
    /\ Read("cmd", 1)
    /\ UNCHANGED <<plugged, window, cur, sends>>

ScanOpens ==
    /\ BeginScan
    /\ Open
    /\ devScan' = TRUE
    /\ disturbed' = FALSE
    /\ UNCHANGED faults

\* writeBytes writes again, from one byte before the command, when a write fails,
\* and then throws; initializeScan returns false and the scan goes on.
StartLost ==
    /\ BeginScan
    /\ Open
    /\ Fault
    /\ devScan' \in BOOLEAN
    /\ disturbed' = TRUE

\* openPort fails: the lock stays held, initializeScan returns false and the scan
\* goes on to read from the descriptor -1.
ScanOpenFails ==
    /\ BeginScan
    /\ Fault
    /\ disturbed' = TRUE
    /\ UNCHANGED <<devScan, lineVars, fd, harm>>

\* dmesg does not name the port: _dev is null and the task throws.
ScanNoName ==
    /\ task = "none"
    /\ initialized # "no"
    /\ Fault
    /\ Dies
    /\ disturbed' = TRUE
    /\ UNCHANGED <<devVars, lineVars, harm, sends>>

ScanStays == UNCHANGED <<fd, task, initialized, window>>

\* getSocketData with more to read: blockReadBytes goes on.
Collects(b) ==
    /\ at \in {"cmd", "band", "lqi", "time", "data"}
    /\ left > 1
    /\ left' = left - 1
    /\ got' = Append(got, b)
    /\ UNCHANGED <<at, pending, scanVars>>
    /\ ScanStays

\* The last byte of a call with an exception pending: nobody catches it.
Throws ==
    /\ at \in {"cmd", "band", "lqi", "time", "data"}
    /\ left = 1
    /\ pending
    /\ Dies

LastByte(field) == at = field /\ left = 1 /\ ~pending

Command(b) ==
    /\ LastByte("cmd")
    /\ IF b = SCAN_DONE
       THEN Idle /\ task' = "none" /\ fd' = "closed"
       ELSE /\ CASE b = CHAN_IS         -> Read("chan", 1)
                 [] b = RECEIVED_PACKET -> Read("band", 1)
                 [] OTHER               -> Read("cmd", 1)
            /\ UNCHANGED <<task, fd>>
    /\ UNCHANGED <<scanVars, initialized, window>>

\* getByte does not throw: it gives an 'f' for the byte after a failed read.
Channel ==
    /\ at = "chan"
    /\ Read("cmd", 1)
    /\ UNCHANGED scanVars
    /\ ScanStays

\* ZigBee.frequencies has sixteen entries.
Band(b) ==
    /\ LastByte("band")
    /\ IF b <= 15
       THEN Read("lqi", 1) /\ cur' = [cur EXCEPT !.band = b] /\ UNCHANGED result /\ ScanStays
       ELSE Dies

\* Mutation: the time is three bytes long.
LQIShortTime(b) ==
    /\ LastByte("lqi")
    /\ Read("time", 3)
    /\ cur' = [cur EXCEPT !.lqi = b]
    /\ UNCHANGED result
    /\ ScanStays

LQI(b) ==
    /\ LastByte("lqi")
    /\ Read("time", 4)
    /\ cur' = [cur EXCEPT !.lqi = b]
    /\ UNCHANGED result
    /\ ScanStays

Time ==
    /\ LastByte("time")
    /\ Read("len", 1)
    /\ UNCHANGED scanVars
    /\ ScanStays

\* Mutation: every packet is kept.
AddAnyPacket(frame) ==
    result' = Append(result, [band |-> cur.band, lqi |-> cur.lqi, frame |-> frame, of |-> pos])

\* A packet is kept if wireshark finds a beacon in it.
AddPacket(frame) ==
    result' = IF frame \in Beacons
              THEN Append(result, [band |-> cur.band, lqi |-> cur.lqi, frame |-> frame,
                                   of |-> pos])
              ELSE result

\* Mutation: one byte too many is read.
LengthOffByOne(b) ==
    /\ at = "len"
    /\ Read("data", (IF pending THEN 102 ELSE b) + 1)
    /\ UNCHANGED scanVars
    /\ ScanStays

Length(b) ==
    /\ at = "len"
    /\ LET n == IF pending THEN 102 ELSE b
       IN  IF n > 0 THEN Read("data", n) /\ UNCHANGED result
                    ELSE Read("cmd", 1) /\ AddPacket(<<>>)
    /\ UNCHANGED cur
    /\ ScanStays

Data(b) ==
    /\ LastByte("data")
    /\ AddPacket(Append(got, b))
    /\ Read("cmd", 1)
    /\ UNCHANGED cur
    /\ ScanStays

-----------------------------------------------------------------------------
\* set_interface_attribs clears the input flags it names, which leaves the ICRNL a
\* port is opened with: the tty gives a line feed for a carriage return.
FromTty(b) == IF b = 13 THEN 10 ELSE b

\* The next byte on the line goes to whoever reads.
ReadByte ==
    /\ fd = "open"
    /\ pos <= Len(log)
    /\ LET bytes == log[pos].bytes
           byte == bytes[off + 1]
           b == FromTty(byte)
       IN  /\ IF off + 1 = Len(bytes) THEN pos' = pos + 1 /\ off' = 0
                                      ELSE pos' = pos /\ off' = off + 1
           /\ harm' = IF b = byte THEN harm ELSE harm \cup {"cr"}
           /\ \/ InitByte(b) \/ Collects(b) \/ Throws \/ Command(b) \/ Channel
              \/ Band(b) \/ LQI(b) \/ Time \/ Length(b) \/ Data(b)
    /\ UNCHANGED <<devVars, log, disturbed, sends, faults>>

\* read returns -1.  The loops throw and go on; blockReadBytes adds the -1 to what
\* it has read, so that it will read one byte more.
ReadFails ==
    /\ fd = "open"
    /\ task # "none"
    /\ Fault
    /\ pending' = TRUE
    /\ IF at \in {"seq", "chan", "len"}
       THEN UNCHANGED <<left, got>>
       ELSE /\ left' = left + 1
            /\ got' = SubSeq(got, 1, Len(got) - 1)
    /\ harm' = harm \cup {"error"}
    /\ disturbed' = TRUE
    /\ UNCHANGED <<devVars, lineVars, fd, task, at, window, scanVars, initialized, sends>>

Init ==
    /\ plugged \in BOOLEAN
    /\ devScan = FALSE
    /\ log = <<>> /\ pos = 1 /\ off = 0
    /\ fd = "closed"
    /\ task = "none"
    /\ at = "idle" /\ left = 0 /\ got = <<>> /\ pending = FALSE
    /\ window = [i \in 1..SeqLen |-> 0]
    /\ cur = [band |-> 0, lqi |-> 0] /\ result = <<>>
    /\ initialized = "no"
    /\ harm = {} /\ disturbed = FALSE
    /\ sends = 0 /\ faults = 0

Device == DeviceReports \/ DeviceDone \/ PressReset \/ Unplug \/ Plug
Phone ==
    \/ Disconnected \/ ProcessDies
    \/ InitOpens \/ InitFails
    \/ ScanOpens \/ StartLost \/ ScanOpenFails \/ ScanNoName
    \/ ReadByte \/ ReadFails

Next == Device \/ Phone
Spec == Init /\ [][Next]_vars

\* A device that scans comes to an end, and a task that can read reads.
FairSpec == Spec /\ WF_vars(DeviceDone) /\ WF_vars(ReadByte)

-----------------------------------------------------------------------------
(* Properties                                                              *)

Results == [band : Byte, lqi : Byte, frame : Seq(Byte), of : Nat \ {0}]

LineOK ==
    /\ log \in Seq(Entries)
    /\ pos \in 1..(Len(log) + 1)
    /\ off \in Nat
    /\ \A i \in 1..Len(log) : log[i].bytes # <<>>
    /\ IF pos <= Len(log) THEN off < Len(log[pos].bytes) ELSE off = 0

Fields == {"idle", "seq", "cmd", "chan", "band", "lqi", "time", "len", "data"}

CallOK ==
    /\ at \in Fields
    /\ left \in Nat
    /\ got \in Seq(Byte)
    /\ pending \in BOOLEAN

TaskOK ==
    /\ fd \in {"closed", "open", "hung"}
    /\ task \in {"none", "init", "scan"}
    /\ window \in Seq(Byte) /\ Len(window) = SeqLen
    /\ cur \in [band : Byte, lqi : Byte]
    /\ result \in Seq(Results)
    /\ initialized \in {"no", "tried", "yes", "gone"}

TypeOK ==
    /\ plugged \in BOOLEAN /\ devScan \in BOOLEAN
    /\ LineOK
    /\ CallOK
    /\ TaskOK
    /\ harm \subseteq {"joined", "reset", "error", "cr"}
    /\ disturbed \in BOOLEAN
    /\ sends \in 0..MaxSends /\ faults \in 0..MaxFaults

\* The scanner and the device agree where in a message they are: nothing but a
\* port opened in the middle of a scan, a reset in the middle of a message, a read
\* error or a carriage return can displace ZigBeeScanner.doInBackground, which
\* finds the messages by counting bytes.
Scanning == task = "scan" /\ fd = "open" /\ harm = {}
InPacket(n) ==
    /\ log[pos].msg.type = "RECEIVED_PACKET"
    /\ off = n + Len(got)
InStep ==
    Scanning =>
        /\ at # "cmd" => pos <= Len(log)
        /\ at = "cmd" => off = 0 \/ log[pos].msg.type = "INITIALIZED"
        /\ at = "chan" => log[pos].msg.type = "CHAN_IS" /\ off = 1
        /\ at = "band" => InPacket(1)
        /\ at = "lqi" => InPacket(2)
        /\ at = "time" => InPacket(3) /\ left + Len(got) = 4
        /\ at = "len" => InPacket(7)
        /\ at = "data" => /\ InPacket(8)
                          /\ left + Len(got) = Len(log[pos].msg.frame)
                          /\ \A k \in 1..Len(got) : got[k] = log[pos].msg.frame[k]

\* What the scanner hands to the result parser is what the device heard: every
\* beacon it has read, with its own channel and link quality, once, in order, and
\* nothing else.
IsResultOf(r, m) ==
    /\ IsBeacon(m)
    /\ r.band = m.band /\ r.lqi = m.lqi /\ r.frame = m.frame
KeptBeacons ==
    /\ \A k \in 1..Len(result) :
           result[k].of < pos /\ IsResultOf(result[k], log[result[k].of].msg)
    /\ \A j, k \in 1..Len(result) : j < k => result[j].of < result[k].of
    /\ \A i \in 1..(pos - 1) :
           IsBeacon(log[i].msg) => \E k \in 1..Len(result) : result[k].of = i
ResultsAreBeacons == Scanning => KeptBeacons

\* ZigBeeInit does not miss the sequence, whatever it follows: a scan that was
\* going on, or a part of the sequence itself.
InitMissesNothing ==
    task = "init" /\ "error" \notin harm =>
        \A i \in 1..(pos - 1) : log[i].bytes # initialized_sequence

\* Bytes in which the sequence is found, and messages that only a reset can be
\* mistaken for.
HoldsSequence(bytes) ==
    \E k \in 0..Len(bytes) :
        /\ k + SeqLen <= Len(bytes)
        /\ \A i \in 1..SeqLen : bytes[k + i] = initialized_sequence[i]
OnlyResetsHoldSequence ==
    \A m \in Messages : HoldsSequence(Bytes(m)) => m.type = "INITIALIZED"

\* Once an init task has seen the sequence, a scan begins at a message, unless a
\* scan before it was displaced and took some byte for the end.  A radio frame in
\* which the sequence stands is taken for a reset (ZigBee.java:113-118).
InitMakesQuiet ==
    /\ OnlyResetsHoldSequence
    /\ task = "scan" /\ fd = "open" /\ initialized = "yes"
    /\ harm \cap {"error", "reset", "cr"} = {}
    => "joined" \notin harm

\* A scan ends, unless a fault meets it or something displaces the reader: the
\* device says that it is done, and the scanner finds it.
ScanEnds ==
    (task = "scan" /\ harm = {}) ~> (task # "scan" \/ disturbed \/ harm # {})

\* An init task ends once the whole sequence lies before it.
SequenceAhead ==
    \E i \in pos..Len(log) :
        /\ log[i].bytes = initialized_sequence
        /\ i > pos \/ off = 0
InitEnds == (task = "init" /\ SequenceAhead) ~> (task # "init" \/ disturbed)

=============================================================================
