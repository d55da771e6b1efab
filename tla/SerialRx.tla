------------------------------ MODULE SerialRx ------------------------------
(***************************************************************************)
(* The receiving side of a motor bus: the thread of an io::IoNoKey         *)
(* (src/io/io.hpp) that calls Serial::read (src/io/serial.cc) and hands    *)
(* what it returns to UnitreeMotor::unpack (src/dev/unitree_motor.cc).     *)
(*                                                                         *)
(* A frame is two head bytes, the motor's id, two bytes for everything the *)
(* motor reports, which may look like a head, and one for the CRC, which   *)
(* is ideal: it equals what it sums up.  The buffer has the size of a frame, as the code opens it.     *)
(* The line and the driver are external: bytes may be damaged, lost or     *)
(* delayed by any time.  The time a ppoll waits and got_data, which picks  *)
(* between two timeouts, are left out: any wait may end.                   *)
(***************************************************************************)
EXTENDS Integers, Sequences, FiniteSetsExt, SequencesExt

CONSTANTS Ids,         \* motors on the bus
          Values,      \* what a motor may report
          HeadLike,    \* the report whose bytes are those of a head
          MaxFrames,   \* bound: frames the motors send
          MaxFaults    \* bound: bytes the line damages or loses

ASSUME RxAssumption == HeadLike \in Values /\ MaxFrames \in Nat /\ MaxFaults \in Nat

Frames == [id : Ids, val : Values]

(* Bytes are tagged, so that bytes of different meaning differ. *)
Zero == <<"zero", 0>>
Noise == <<"noise", 0>>
ResvHead == << <<"head", 1>>, <<"head", 2>> >>
Report(val) == IF val = HeadLike THEN ResvHead ELSE << <<"val", 1, val>>, <<"val", 2, val>> >>
Crc(id, val) == <<"crc", id, val>>
Bytes(f) == ResvHead \o << <<"id", f.id>> >> \o Report(f.val) \o << Crc(f.id, f.val) >>
BufferSize == 6
ByteSet == {Zero, Noise} \cup UNION {Range(Bytes(f)) : f \in Frames}

VARIABLES running,    \* Io::running
          pc,         \* where the io's thread is
          buffer,     \* Io::buffer
          readLen,    \* read_len of Serial::read
          wire,       \* bytes that have been sent and have not arrived
          kernel,     \* bytes the driver has received and read has not taken
          faults,     \* bytes damaged or lost so far
          sent,       \* history: frames the motors have sent
          delivered,  \* history: frames unpack has accepted, by motor and value
          fresh       \* history: the frame begun in silence that is still due, or 0

portVars == <<buffer, readLen, pc>>
lineVars == <<wire, kernel, faults, sent>>
vars == <<running, portVars, lineVars, delivered, fresh>>

Indices == 1 .. BufferSize
ZeroBuffer == [i \in Indices |-> Zero]

Init ==
    /\ running = TRUE
    /\ pc = "top" /\ buffer = ZeroBuffer /\ readLen = 0
    /\ wire = <<>> /\ kernel = <<>> /\ faults = 0
    /\ sent = <<>> /\ delivered = <<>> /\ fresh = 0

-----------------------------------------------------------------------------
(* The line. *)

Silent == wire = <<>> /\ kernel = <<>> /\ readLen = 0

(* A motor answers.  The frame is fresh when nothing is left of what came   *)
(* before it.                                                              *)
SendFrame(f) ==
    /\ Len(sent) < MaxFrames
    /\ wire' = wire \o Bytes(f)
    /\ sent' = Append(sent, f)
    /\ fresh' = IF Silent /\ pc # "dispatch" THEN Len(sent) + 1 ELSE fresh
    /\ UNCHANGED <<running, portVars, kernel, faults, delivered>>

Fault(i) ==
    /\ faults < MaxFaults
    /\ faults' = faults + 1
    /\ wire' \in {[wire EXCEPT ![i] = Noise], RemoveAt(wire, i)}
    /\ fresh' = 0
    /\ UNCHANGED <<running, portVars, kernel, sent, delivered>>

Arrive ==
    /\ wire # <<>>
    /\ kernel' = Append(kernel, wire[1])
    /\ wire' = Tail(wire)
    /\ UNCHANGED <<running, portVars, faults, sent, delivered, fresh>>

-----------------------------------------------------------------------------
(* Serial::read. *)

(* data + readLen after the system call has taken n bytes.                 *)
Appended(n) ==
    [i \in Indices |-> IF i \in readLen + 1 .. readLen + n THEN kernel[i - readLen] ELSE buffer[i]]

(* rx.find(head): offsets at which the head stands in the first len bytes.  *)
HeadsIn(data, len) ==
    {p \in 0 .. len - Len(ResvHead) : \A k \in DOMAIN ResvHead : data[p + k] = ResvHead[k]}

(* memmove(data, data + pos, len - pos): what is behind stays.             *)
Moved(data, pos, len) ==
    [i \in Indices |-> IF i + pos <= len THEN data[i + pos] ELSE data[i]]

(* Variant of Framed: a head cut in two is given up.                       *)
FramedSplit(data, len) ==
    IF HeadsIn(data, len) = {} THEN [data |-> data, len |-> 0]
    ELSE LET pos == Min(HeadsIn(data, len)) IN
         [data |-> Moved(data, pos, len), len |-> len - pos]

(* The loop over head_tails, which holds one head for all the motors.      *)
Framed(data, len) ==
    IF len < Len(ResvHead) THEN [data |-> data, len |-> len]
    ELSE IF HeadsIn(data, len) = {} THEN [data |-> data, len |-> 0]
    ELSE LET pos == Min(HeadsIn(data, len)) IN
         [data |-> Moved(data, pos, len), len |-> len - pos]

(* Variant of LoopTest: the loop goes on with a full buffer.               *)
LoopTestAgain(len) == IF len <= BufferSize THEN "read" ELSE "dispatch"

(* while (read_len < buffer_size): a full buffer is returned.              *)
LoopTest(len) == IF len < BufferSize THEN "read" ELSE "dispatch"

(* IoNoKey::thread_func ignores a read that returns nothing.               *)
Returned(len) == IF len > 0 THEN "dispatch" ELSE "top"

ReadChunk ==
    /\ pc = "read" /\ kernel # <<>>
    /\ LET n == Min({Len(kernel), BufferSize - readLen})
           framed == Framed(Appended(n), readLen + n)
       IN /\ kernel' = SubSeq(kernel, n + 1, Len(kernel))
          /\ buffer' = framed.data
          /\ readLen' = framed.len
    /\ pc' = LoopTest(readLen')
    /\ UNCHANGED <<running, wire, faults, sent, delivered, fresh>>

(* Variant of PollTimesOut: a timeout is only logged.                      *)
PollTimesOutAgain ==
    /\ pc = "read" /\ kernel = <<>>
    /\ UNCHANGED vars

(* ppoll ends without POLLIN: what was read so far is returned.            *)
PollTimesOut ==
    /\ pc = "read" /\ kernel = <<>>
    /\ pc' = Returned(readLen)
    /\ fresh' = IF readLen > 0 THEN 0 ELSE fresh
    /\ UNCHANGED <<running, buffer, readLen, lineVars, delivered>>

(* ::read fails: a negative length is returned, the bytes read are lost.    *)
ReadFails ==
    /\ pc = "read"
    /\ pc' = "top"
    /\ fresh' = IF readLen > 0 THEN 0 ELSE fresh
    /\ readLen' = 0
    /\ UNCHANGED <<running, buffer, lineVars, delivered>>

-----------------------------------------------------------------------------
(* IoNoKey::thread_func. *)

(* Variant of BeginRead: the buffer keeps what the last read left in it.   *)
BeginReadStale ==
    /\ pc = "top" /\ running
    /\ pc' = "read" /\ readLen' = 0
    /\ UNCHANGED <<running, buffer, lineVars, delivered, fresh>>

BeginRead ==
    /\ pc = "top" /\ running
    /\ buffer' = ZeroBuffer
    /\ pc' = "read" /\ readLen' = 0
    /\ UNCHANGED <<running, lineVars, delivered, fresh>>

LeaveLoop ==
    /\ pc = "top" /\ ~running
    /\ pc' = "done"
    /\ UNCHANGED <<running, buffer, readLen, lineVars, delivered, fresh>>

(* UnitreeMotor::unpack: the frame whose head, id and CRC the buffer has,   *)
(* whatever length was read.                                               *)
Accepted == {f \in Frames : buffer = Bytes(f)}

(* The unpackers in turn; at most one motor accepts, ids being distinct.    *)
Dispatch ==
    /\ pc = "dispatch"
    /\ \/ Accepted = {} /\ UNCHANGED delivered
       \/ \E f \in Accepted : delivered' = Append(delivered, f)
    /\ fresh' = IF fresh # 0 /\ delivered' = Append(delivered, sent[fresh]) THEN 0 ELSE fresh
    /\ pc' = "top" /\ readLen' = 0
    /\ UNCHANGED <<running, buffer, lineVars>>

(* Io::stop clears the flag; the thread sees it at its next test.          *)
Stop ==
    /\ running
    /\ running' = FALSE
    /\ UNCHANGED <<portVars, lineVars, delivered, fresh>>

-----------------------------------------------------------------------------
Thread == BeginRead \/ ReadChunk \/ PollTimesOut \/ Dispatch \/ LeaveLoop
Next ==
    \/ \E f \in Frames : SendFrame(f)
    \/ \E i \in DOMAIN wire : Fault(i)
    \/ Arrive \/ Stop \/ ReadFails \/ Thread

Spec == Init /\ [][Next]_vars
(* The driver hands bytes over and the thread runs, each in the end.       *)
Fairness == WF_vars(Thread) /\ WF_vars(Arrive)

-----------------------------------------------------------------------------
(* The buffer, the line and the histories hold what they are meant to hold, *)
(* and read never leaves more than a buffer in the buffer.                 *)
RxTypeOK ==
    /\ running \in BOOLEAN
    /\ pc \in {"top", "read", "dispatch", "done"}
    /\ buffer \in [Indices -> ByteSet]
    /\ readLen \in 0 .. BufferSize
    /\ pc = "read" => readLen < BufferSize
    /\ wire \in Seq(ByteSet) /\ kernel \in Seq(ByteSet)
    /\ faults \in 0 .. MaxFaults
    /\ sent \in Seq(Frames) /\ delivered \in Seq(Frames)
    /\ fresh \in 0 .. Len(sent)

(* What the motors are told to have reported is what they sent, each frame  *)
(* at most once, in order, at its own motor: a read that ends early, the    *)
(* bytes a move or a dropped chunk leaves in the buffer, and bytes damaged  *)
(* or lost never make a frame nobody sent, or one twice (the memset of      *)
(* IoNoKey::thread_func, the checks of unpack, which ignores the length).   *)
DeliveredInOrder ==
    \E place \in [DOMAIN delivered -> DOMAIN sent] :
        /\ \A i \in DOMAIN delivered : delivered[i] = sent[place[i]]
        /\ \A i, j \in DOMAIN delivered : i < j => place[i] < place[j]

(* A frame that begins when the line is silent is not lost, however its     *)
(* bytes are cut into chunks, unless a byte is damaged meanwhile or comes   *)
(* too late: whatever went wrong before, silence resynchronises the reader.     *)
SilenceResyncs ==
    wire = <<>> /\ kernel = <<>> /\ pc \in {"top", "done"} => fresh = 0

(* Once the io is told to stop, its thread ends, whatever is on the line,   *)
(* provided the line falls silent in the end.                              *)
ReaderStops == ~running ~> pc = "done"
=============================================================================
