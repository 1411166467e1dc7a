------------------------------ MODULE Transport ------------------------------
(***************************************************************************)
(* A transport (transport/*Transport.cpp) on its backend (transport/usb,   *)
(* serial, network), held by a TransportManager, used by one client thread *)
(* and cancelled by another.                                               *)
(*                                                                         *)
(* The bytes the device sends are numbered in the order it sends them.  A  *)
(* read is cut at every test of m_cancelled, every test of the clock and   *)
(* every call of the system; the system, the device and the clock are      *)
(* external.  Statistics, capabilities, log lines, flush() and sendZLP(),  *)
(* which change none of this, are left out.                                *)
(***************************************************************************)
EXTENDS Integers, Sequences

CONSTANTS
    Backends,    \* the backends the transport may have been made with
    Minima,      \* the minBytes clients ask for
    Rooms,       \* and the sizes of their buffers
    MaxSent,     \* bound on the bytes the device sends over one connection
    MaxCalls     \* bound on the calls of the client

\* What the backends do alike.
Streams   == {"PosixTcp", "WinSockTcp"}
Datagrams == {"PosixUdp", "WinSockUdp"}
Serials   == {"PosixSerial", "Win32Serial"}
Bulks     == {"LibUsb", "WinUsb"}

ASSUME TransportAssumption ==
    /\ Backends \subseteq Streams \cup Datagrams \cup Serials \cup Bulks
    /\ Minima \subseteq Nat /\ Rooms \subseteq Nat
    /\ MaxSent \in Nat /\ MaxCalls \in Nat

\* The <<minBytes, maxBytes>> of the reads.
Reads == {r \in Minima \X Rooms : r[1] <= r[2]}

VARIABLES
    kind,      \* the backend
    listed,    \* the manager holds the transport
    st,        \* m_state
    flag,      \* m_cancelled of the transport
    handle,    \* the descriptor of the backend: "none", "open" or "shut" (down by cancel())
    bflag,     \* m_cancelled of a serial backend
    pc, step,  \* where the client's call is; how far an open() is
    req,       \* the <<minBytes, maxBytes>> of a read
    mem,       \* the caller's buffer
    total,     \* totalRead of the transport
    sub,       \* totalRead of the backend
    late,      \* the deadline of the call has passed
    wire,      \* packets (of bytes) sent by the device and not yet received
    sent,      \* number of bytes the device has sent over this connection
    up,        \* the device has not closed the connection
    got,       \* history: the bytes successful reads returned over this connection
    clean,     \* history: no failed read and no cancel() over this connection
    canceller, \* the cancelling thread: "idle" or "backend"
    result,    \* of the last call
    calls

vars == <<kind, listed, st, flag, handle, bflag, pc, step, req, mem, total, sub, late, wire, sent,
          up, got, clean, canceller, result, calls>>

\* How the transports differ: whether read() loops until minBytes are there,
\* whether isOpen() asks the backend, and what cancel() does to the backend.
UsbTransport    == [loops |-> FALSE, asks |-> FALSE, cancel |-> "abort"]
SerialTransport == [loops |-> TRUE,  asks |-> TRUE,  cancel |-> "flag"]
TcpTransport    == [loops |-> TRUE,  asks |-> TRUE,  cancel |-> "shutdown"]
UdpTransport    == [loops |-> TRUE,  asks |-> TRUE,  cancel |-> "shutdown"]

This == CASE kind \in Bulks     -> UsbTransport
          [] kind \in Serials   -> SerialTransport
          [] kind \in Streams   -> TcpTransport
          [] kind \in Datagrams -> UdpTransport

\* What the open() of each backend does, in order; any of these may fail.
LibUsbOpen      == <<"init", "device", "claim">>
WinUsbOpen      == <<"load", "path", "device", "initialize">>
PosixSerialOpen == <<"device", "getattr", "setattr">>
Win32SerialOpen == <<"device", "getstate", "setstate", "timeouts">>
PosixTcpOpen    == <<"resolve", "device", "connect", "error">>
WinSockTcpOpen  == <<"runtime", "resolve", "device", "connect", "error">>
PosixUdpOpen    == <<"device", "bind", "resolve", "connect">>
WinSockUdpOpen  == <<"runtime", "device", "bind", "resolve", "connect">>

backendOpen ==
    CASE kind = "LibUsb"      -> LibUsbOpen
      [] kind = "WinUsb"      -> WinUsbOpen
      [] kind = "PosixSerial" -> PosixSerialOpen
      [] kind = "Win32Serial" -> Win32SerialOpen
      [] kind = "PosixTcp"    -> PosixTcpOpen
      [] kind = "WinSockTcp"  -> WinSockTcpOpen
      [] kind = "PosixUdp"    -> PosixUdpOpen
      [] kind = "WinSockUdp"  -> WinSockUdpOpen

isOpen == st = "Open" /\ (This.asks => handle # "none")

Init ==
    /\ kind \in Backends
    /\ listed = FALSE
    /\ st = "Closed" /\ flag = FALSE /\ handle = "none" /\ bflag = FALSE
    /\ pc = "idle" /\ step = 0 /\ req = <<0, 0>> /\ mem = <<>> /\ total = 0 /\ sub = 0 /\ late = FALSE
    /\ wire = <<>> /\ sent = 0 /\ up = TRUE
    /\ got = <<>> /\ clean = TRUE
    /\ canceller = "idle" /\ result = "none" /\ calls = 0

readvars == <<req, mem, total, sub>>
linkvars == <<wire, sent, up, got>>

Return(r) == pc' = "idle" /\ result' = r

Call == pc = "idle" /\ listed /\ calls < MaxCalls /\ calls' = calls + 1

------------------------------------------------------------------------------
(* open(), close(), reset() and reconnect()                                *)

openBegin ==
    /\ IF st = "Open" THEN Return("AlreadyOpen") /\ UNCHANGED <<st, step>>
       ELSE st' = "Opening" /\ step' = 1 /\ pc' = "opening" /\ UNCHANGED result

\* Mutant: the failure of a later step leaves the descriptor open.
failedOpenLeaks == IF step > 2 THEN handle ELSE "none"

failedOpen == "none"

openStep ==
    /\ pc = "opening"
    /\ \/ /\ handle' = failedOpen
          /\ st' = "Error" /\ Return("Error")
          /\ UNCHANGED <<step, linkvars, clean>>
       \/ /\ handle' = IF backendOpen[step] = "device" THEN "open" ELSE handle
          /\ IF step = Len(backendOpen)
             THEN /\ st' = "Open" /\ Return("Ok") /\ UNCHANGED step
                  /\ wire' = <<>> /\ sent' = 0 /\ up' = TRUE /\ got' = <<>> /\ clean' = TRUE
             ELSE step' = step + 1 /\ UNCHANGED <<st, pc, result, linkvars, clean>>
    /\ UNCHANGED <<kind, listed, flag, bflag, readvars, late, canceller, calls>>

\* close() of the transport: the backend's close(), then the state.
Closed == handle' = "none" /\ bflag' = FALSE /\ flag' = FALSE

openCall ==
    /\ Call /\ openBegin
    /\ UNCHANGED <<kind, listed, flag, handle, bflag, readvars, late, linkvars, clean, canceller>>

closeCall ==
    /\ Call /\ Closed
    /\ st' = "Closed" /\ Return("Ok")
    /\ UNCHANGED <<kind, listed, step, readvars, late, linkvars, clean, canceller>>

\* reset(), and reconnect() with a pause in between.
reconnectCall ==
    /\ Call /\ Closed
    /\ st' = "Opening" /\ step' = 1 /\ pc' = "opening"
    /\ UNCHANGED <<kind, listed, readvars, late, linkvars, clean, canceller, result>>

------------------------------------------------------------------------------
(* read()                                                                  *)

Fail(r) == Return(r) /\ clean' = FALSE /\ UNCHANGED <<got, readvars>>

readCall ==
    /\ Call
    /\ IF st # "Open" THEN Fail("NotOpen") /\ UNCHANGED <<late, req>>
       ELSE IF flag THEN Fail("Cancelled") /\ UNCHANGED <<late, req>>
       ELSE /\ req' \in Reads
            /\ mem' = [i \in 1..req'[2] |-> 0]
            /\ total' = 0 /\ sub' = 0 /\ late' = FALSE
            /\ pc' = IF This.loops THEN "loop" ELSE "recv"
            /\ UNCHANGED <<got, clean, result>>
    /\ UNCHANGED <<kind, listed, st, flag, handle, bflag, step, wire, sent, up, canceller>>

\* buffer.resize(n) and the return of n bytes.
Deliver(n) == Return("Ok") /\ got' = got \o SubSeq(mem, 1, n)

\* Mutant: a loop that only ends when the bytes are there.
deadlinePassedNever == FALSE

deadlinePassed == late

readLoop ==
    /\ pc = "loop"
    /\ IF total >= req[1] THEN Deliver(total) /\ UNCHANGED <<clean, readvars>>
       ELSE IF flag THEN Fail("Cancelled")
       ELSE IF deadlinePassed THEN Fail("Timeout")
       ELSE pc' = "recv" /\ sub' = 0 /\ UNCHANGED <<req, mem, total, got, clean, result>>
    /\ UNCHANGED <<kind, listed, st, flag, handle, bflag, step, late, wire, sent, up, canceller, calls>>

\* The backend hands n bytes to the loop.
Back(n) == pc' = "loop" /\ total' = total + n /\ UNCHANGED <<req, mem, sub, got, clean, result>>

\* Nothing came in time; the loop tries again.
TimedOut == pc' = "loop" /\ UNCHANGED <<readvars, got, clean, result>>

room == req[2] - total - sub

\* mem with bs stored at the place the backend was given.
stored(bs) == [i \in DOMAIN mem |-> IF i - total - sub \in DOMAIN bs THEN bs[i - total - sub] ELSE mem[i]]

Taken(bs, newSub) == mem' = stored(bs) /\ sub' = newSub /\ UNCHANGED <<req, total, got, clean, result>>

\* The first n bytes to arrive: a stream keeps no packets together.
FirstBytes(n) == [i \in 1..n |-> wire[i][1]]

\* The backend's read() of a stream: until size bytes are there, the time is
\* up, or the stream has ended.
streamRead ==
    \/ /\ handle = "none" /\ Fail("NotOpen") /\ UNCHANGED <<handle, wire>>
    \/ /\ handle # "none" /\ room = 0
       /\ Back(sub) /\ UNCHANGED <<handle, wire>>
    \/ /\ handle # "none" /\ room > 0
       /\ \/ (IF sub > 0 THEN Back(sub) ELSE TimedOut) /\ UNCHANGED <<handle, wire>>
          \/ Fail("ReadFailed") /\ UNCHANGED <<handle, wire>>
          \/ /\ ~late
             /\ \E n \in 1..room :
                   /\ n <= Len(wire)
                   /\ Taken(FirstBytes(n), sub + n)
                   /\ wire' = SubSeq(wire, n + 1, Len(wire))
             /\ UNCHANGED <<handle, pc>>
          \/ /\ handle = "shut" \/ (~up /\ wire = <<>>)
             /\ handle' = "none"
             /\ (IF sub > 0 THEN Back(sub) ELSE Fail("NotOpen"))
             /\ UNCHANGED wire

\* The same of a serial port, in two steps: the test of the backend's
\* m_cancelled, then the system call.  A call that yields no byte ends it.
\* Mutant: the count of the last call instead of the sum.
newCountLast(n) == n

newCount(n) == IF kind = "Win32Serial" THEN n ELSE sub + n

serialCheck ==
    \/ handle = "none" /\ Fail("NotOpen")
    \/ /\ handle # "none" /\ bflag
       /\ Fail("Cancelled")
    \/ /\ handle # "none" /\ ~bflag
       /\ IF room <= 0 \/ late THEN IF sub > 0 THEN Back(sub) ELSE TimedOut
          ELSE pc' = "call" /\ UNCHANGED <<readvars, got, clean, result>>

serialRead ==
    \/ (IF sub > 0 THEN Back(sub) ELSE TimedOut) /\ UNCHANGED wire
    \/ Fail("ReadFailed") /\ UNCHANGED wire
    \/ \E n \in 1..room :
          /\ n <= Len(wire)
          /\ Taken(FirstBytes(n), newCount(n)) /\ pc' = "recv"
          /\ wire' = SubSeq(wire, n + 1, Len(wire))

\* recv() of a datagram: what does not fit is dropped.
datagramRead ==
    \/ handle = "none" /\ Fail("NotOpen") /\ UNCHANGED wire
    \/ /\ handle # "none"
       /\ \/ TimedOut /\ UNCHANGED wire
          \/ Fail("ReadFailed") /\ UNCHANGED wire
          \/ handle = "shut" /\ Fail("NotOpen") /\ UNCHANGED wire
          \/ /\ wire # <<>> /\ handle = "open"
             /\ LET n == IF Len(Head(wire)) < room THEN Len(Head(wire)) ELSE room
                IN  /\ mem' = stored(SubSeq(Head(wire), 1, n))
                    /\ total' = total + n /\ pc' = "loop"
             /\ wire' = Tail(wire)
             /\ UNCHANGED <<req, sub, got, clean, result>>

\* What the failures of libusb come to.
libusbToErrorCode == {"Timeout", "Error", "DeviceNotFound", "AccessDenied", "Busy", "BufferFull"}

\* One bulk transfer, into which the next packet fits.
bulkRead(failures) ==
    \/ handle = "none" /\ Fail("NotOpen") /\ UNCHANGED wire
    \/ /\ handle # "none"
       /\ \/ \E r \in failures : Fail(r) /\ UNCHANGED wire
          \/ /\ wire # <<>> /\ Len(Head(wire)) <= room /\ ~late
             /\ Return("Ok")
             /\ mem' = stored(Head(wire)) /\ got' = got \o Head(wire)
             /\ wire' = Tail(wire)
             /\ UNCHANGED <<req, total, sub, clean>>

Crowded == handle # "none" /\ wire # <<>> /\ Len(Head(wire)) > room

\* A packet that does not fit is an overflow of libusb, and is lost.
LibUsbRead ==
    /\ kind = "LibUsb"
    /\ bulkRead(libusbToErrorCode) \/ (Crowded /\ Fail("BufferFull") /\ wire' = Tail(wire))

\* WinUSB fills the buffer and keeps the rest of the packet for the next transfer.
WinUsbRead ==
    /\ kind = "WinUsb"
    /\ \/ bulkRead({"Timeout", "ReadFailed", "Error"})
       \/ /\ Crowded /\ ~late
          /\ Return("Ok")
          /\ mem' = stored(SubSeq(Head(wire), 1, room)) /\ got' = got \o SubSeq(Head(wire), 1, room)
          /\ wire' = <<SubSeq(Head(wire), room + 1, Len(Head(wire)))>> \o Tail(wire)
          /\ UNCHANGED <<req, total, sub, clean>>

\* The reads of the other backends.
PosixTcpRead    == kind = "PosixTcp" /\ streamRead
WinSockTcpRead  == kind = "WinSockTcp" /\ streamRead
PosixUdpRead    == kind = "PosixUdp" /\ datagramRead
WinSockUdpRead  == kind = "WinSockUdp" /\ datagramRead

receive ==
    /\ \/ pc = "recv" /\ (PosixTcpRead \/ WinSockTcpRead)
       \/ pc = "recv" /\ kind \in Serials /\ serialCheck /\ UNCHANGED <<handle, wire>>
       \/ pc = "call" /\ serialRead /\ UNCHANGED handle
       \/ pc = "recv" /\ (PosixUdpRead \/ WinSockUdpRead) /\ UNCHANGED handle
       \/ pc = "recv" /\ (LibUsbRead \/ WinUsbRead) /\ UNCHANGED handle
    /\ UNCHANGED <<kind, listed, st, flag, bflag, step, late, sent, up, canceller, calls>>

------------------------------------------------------------------------------
(* write(): what the device has taken when a write fails is not known to    *)
(* the caller.                                                             *)

\* What the write() of a backend with an open descriptor may come to; "Ok" also
\* stands for part of the bytes when the time is up.  A datagram goes as a whole.
PosixTcpWrite    == IF handle = "shut" THEN {"WriteFailed", "Timeout"} ELSE {"Ok", "Timeout", "WriteFailed"}
WinSockTcpWrite  == PosixTcpWrite
PosixUdpWrite    == IF handle = "shut" THEN {"WriteFailed", "Timeout"} ELSE {"Ok", "Timeout", "WriteFailed"}
WinSockUdpWrite  == PosixUdpWrite
PosixSerialWrite == IF bflag THEN {"Cancelled"} ELSE {"Ok", "Timeout", "WriteFailed", "Cancelled"}
Win32SerialWrite == PosixSerialWrite
LibUsbWrite      == {"Ok"} \cup libusbToErrorCode
WinUsbWrite      == {"Ok", "Timeout", "WriteFailed", "Error"}

writeOutcomes ==
    CASE kind = "LibUsb"      -> LibUsbWrite
      [] kind = "WinUsb"      -> WinUsbWrite
      [] kind = "PosixSerial" -> PosixSerialWrite
      [] kind = "Win32Serial" -> Win32SerialWrite
      [] kind = "PosixTcp"    -> PosixTcpWrite
      [] kind = "WinSockTcp"  -> WinSockTcpWrite
      [] kind = "PosixUdp"    -> PosixUdpWrite
      [] kind = "WinSockUdp"  -> WinSockUdpWrite

writeCall ==
    /\ Call
    /\ IF st # "Open" THEN Return("NotOpen")
       ELSE IF flag THEN Return("Cancelled")
       ELSE IF handle = "none" THEN Return("NotOpen")
       ELSE \E r \in writeOutcomes : Return(r)
    /\ UNCHANGED <<kind, listed, st, flag, handle, bflag, step, readvars, late, linkvars, clean, canceller>>

------------------------------------------------------------------------------
(* cancel(), in another thread: the flag, then the backend.                *)

cancelFlag ==
    /\ canceller = "idle" /\ listed
    /\ flag' = TRUE /\ clean' = FALSE /\ canceller' = "backend"
    /\ UNCHANGED <<kind, listed, st, handle, bflag, pc, step, readvars, late, linkvars, result, calls>>

\* abortPipe() waits for the mutex a transfer holds.
cancelBackend ==
    /\ canceller = "backend"
    /\ CASE This.cancel = "abort"    -> pc \notin {"recv", "opening"} /\ UNCHANGED <<handle, bflag, wire>>
         [] This.cancel = "flag"     -> /\ bflag' = TRUE /\ UNCHANGED handle
                                        /\ wire' = IF handle = "open" THEN <<>> ELSE wire
         [] This.cancel = "shutdown" -> /\ handle' = IF handle = "open" THEN "shut" ELSE handle
                                        /\ UNCHANGED <<bflag, wire>>
    /\ canceller' = "idle"
    /\ UNCHANGED <<kind, listed, st, flag, pc, step, readvars, late, sent, up, got, clean, result, calls>>

------------------------------------------------------------------------------
(* TransportManager; open(), close() and reconnect() of an id are those of  *)
(* its transport.                                                          *)

\* add() or getOrCreate() of a new transport.
add ==
    /\ pc = "idle" /\ canceller = "idle" /\ ~listed /\ calls < MaxCalls /\ calls' = calls + 1
    /\ listed' = TRUE
    /\ kind' \in Backends
    /\ st' = "Closed" /\ flag' = FALSE /\ handle' = "none" /\ bflag' = FALSE /\ result' = "none"
    /\ wire' = <<>> /\ sent' = 0 /\ up' = TRUE /\ got' = <<>> /\ clean' = TRUE
    /\ UNCHANGED <<pc, step, readvars, late, canceller>>

remove ==
    /\ Call /\ canceller = "idle" /\ Closed
    /\ listed' = FALSE /\ st' = "Closed" /\ Return("Ok")
    /\ UNCHANGED <<kind, step, readvars, late, linkvars, clean, canceller>>

closeAllTransports ==
    /\ Call
    /\ IF isOpen THEN Closed /\ st' = "Closed" ELSE UNCHANGED <<st, flag, handle, bflag>>
    /\ Return("Ok")
    /\ UNCHANGED <<kind, listed, step, readvars, late, linkvars, clean, canceller>>

------------------------------------------------------------------------------
(* The device and the clock                                                *)

\* A byte, or a packet of one or two bytes.
deviceSends ==
    /\ handle = "open" /\ st = "Open" /\ up
    /\ \E n \in 1..(IF kind \in Datagrams \cup Bulks THEN 2 ELSE 1) :
          /\ sent + n <= MaxSent
          /\ wire' = Append(wire, [i \in 1..n |-> sent + i])
          /\ sent' = sent + n
    /\ UNCHANGED <<kind, listed, st, flag, handle, bflag, pc, step, readvars, late, up, got, clean,
                   canceller, result, calls>>

deviceCloses ==
    /\ up /\ kind \in Streams /\ st = "Open"
    /\ up' = FALSE
    /\ UNCHANGED <<kind, listed, st, flag, handle, bflag, pc, step, readvars, late, wire, sent, got, clean,
                   canceller, result, calls>>

timePasses ==
    /\ ~late /\ pc \notin {"idle", "opening"}
    /\ late' = TRUE
    /\ UNCHANGED <<kind, listed, st, flag, handle, bflag, pc, step, readvars, linkvars, clean, canceller,
                   result, calls>>

Client == openCall \/ closeCall \/ reconnectCall \/ readCall \/ writeCall \/ add \/ remove \/ closeAllTransports
Work   == openStep \/ readLoop \/ receive
Next   == Client \/ Work \/ cancelFlag \/ cancelBackend \/ deviceSends \/ deviceCloses \/ timePasses

Spec == Init /\ [][Next]_vars

\* A thread in a call goes on, and time does.
FairSpec == Spec /\ WF_vars(Work) /\ WF_vars(cancelBackend) /\ WF_vars(timePasses)

------------------------------------------------------------------------------
(* Properties.                                                             *)

\* What successful reads returned since the open(), as long as none failed and
\* nobody cancelled, is what the device sent: from the first byte, each one
\* once and in order (reads until minBytes, whose partial reads the backend and
\* the transport both add up; a datagram may have been cut off).
DeliveredIntact ==
    clean => IF kind \in Datagrams THEN \A i, j \in DOMAIN got : i < j => got[i] < got[j]
             ELSE \A i \in DOMAIN got : got[i] = i

\* Whatever step of an open() failed, no descriptor outlives it, and none is
\* held by a closed transport: a later open() never finds a half-open backend.
NoHandleLeak == (pc = "idle" /\ handle # "none") => st = "Open"

\* Bytes arrive as they were sent, and a transport that is closed holds nothing.
TransportIsSound == DeliveredIntact /\ NoHandleLeak

\* Every read and open comes to an end: the deadline is met even when the
\* device trickles, and a cancel() waits for no longer than that.
CallsReturn == (pc # "idle" ~> pc = "idle") /\ (canceller = "backend" ~> canceller = "idle")

\* TransportManager.hpp:52, "Closes all managed transports": after closeAll()
\* the transport can be opened again.
CloseAllReopens == [][closeAllTransports => st' # "Open"]_vars
==============================================================================
