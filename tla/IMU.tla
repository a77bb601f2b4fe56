--------------------------------- MODULE IMU ---------------------------------
(***************************************************************************)
(* The accelerometer and the gyroscope behind one I2C bus.  A thread for   *)
(* each waits for its interrupt line to rise, reads the sample over the    *)
(* bus and stores it in m_frame, which clients copy with GetFrame().       *)
(*                                                                         *)
(* The interrupt stays high until the sample is read.  Whether poll()      *)
(* reports an edge again that was not followed by a read of the pin, and   *)
(* whether it reports one on a fresh descriptor, is left to the kernel.    *)
(* The fields of a sample are two, all the others being like them.         *)
(***************************************************************************)
EXTENDS Naturals

CONSTANTS
    MaxOpens,  \* bound: calls of Open()
    MaxFails   \* bound: how many reads of a sample fail

Device == {"ACC", "GYRO"}
Threads == Device \cup {"owner", "client"}

VARIABLES
    m_bRunning,
    open,           \* m_i2c is open, and with it the interrupt pins
    pc,             \* where each thread is
    slave,          \* the device the bus addresses
    i2cMutex, frameMutex,  \* who holds each, or "none"
    read,           \* what each thread has read and not stored: acc_read, gyro_read
    m_frame, copy,  \* by device, two fields; the first ones, while GetFrame() copies
    int, event,     \* each interrupt line, and whether poll() reports an edge
    crashed,        \* an exception left a thread: std::terminate()
    opens, fails

mutexes == <<i2cMutex, frameMutex>>
frames == <<m_frame, copy>>
lines == <<int, event>>
vars == <<m_bRunning, open, pc, slave, mutexes, read, frames, lines, crashed, opens, fails>>

Sample == {0, 1}
None == [from |-> "none", sample |-> 0]

Goto(t, label) == pc' = [pc EXCEPT ![t] = label]
-----------------------------------------------------------------------------
(* Open() and Close(), called by one owner *)

\* All is found and initialised, the gyroscope last, and the threads run.  Both
\* devices have then been addressed with success.
OpenSucceeds ==
    /\ pc["owner"] = "idle"
    /\ ~open /\ opens < MaxOpens
    /\ open' = TRUE
    /\ slave' = "GYRO"
    /\ m_bRunning' = TRUE
    /\ pc' = [t \in Threads |-> IF t \in Device THEN "check" ELSE pc[t]]
    /\ event' \in [Device -> BOOLEAN]
    /\ opens' = opens + 1
    /\ UNCHANGED <<mutexes, read, frames, int, crashed, fails>>

\* InitAcc() or InitGyro() throws: what has been opened stays open.
OpenThrows ==
    /\ pc["owner"] = "idle"
    /\ ~open /\ opens < MaxOpens
    /\ open' = TRUE
    /\ slave' \in Device
    /\ opens' = opens + 1
    /\ UNCHANGED <<m_bRunning, pc, mutexes, read, frames, lines, crashed, fails>>

\* Close(), also called by Open() when a device is missing.  (A slip: the
\* bus is closed first.)
CloseStop_BusFirst ==
    /\ pc["owner"] = "idle"
    /\ m_bRunning' = FALSE
    /\ open' = FALSE
    /\ Goto("owner", "join acc")
    /\ UNCHANGED <<slave, mutexes, read, frames, lines, crashed, opens, fails>>
CloseStop ==
    /\ pc["owner"] = "idle"
    /\ m_bRunning' = FALSE
    /\ Goto("owner", "join acc")
    /\ UNCHANGED <<open, slave, mutexes, read, frames, lines, crashed, opens, fails>>

CloseJoinAcc ==
    /\ pc["owner"] = "join acc"
    /\ pc["ACC"] = "done"
    /\ Goto("owner", "join gyro")
    /\ UNCHANGED <<m_bRunning, open, slave, mutexes, read, frames, lines, crashed, opens, fails>>

CloseJoinGyro ==
    /\ pc["owner"] = "join gyro"
    /\ pc["GYRO"] = "done"
    /\ open' = FALSE
    /\ Goto("owner", "idle")
    /\ UNCHANGED <<m_bRunning, slave, mutexes, read, frames, lines, crashed, opens, fails>>
-----------------------------------------------------------------------------
(* AccRun() and GyroRun() *)

Check(d) ==
    /\ pc[d] = "check"
    /\ Goto(d, IF m_bRunning THEN "poll" ELSE "done")
    /\ UNCHANGED <<m_bRunning, open, slave, mutexes, read, frames, lines, crashed, opens, fails>>

\* Poll() returns true: an edge is reported.  The pin is not read.
PollWakes(d) ==
    /\ pc[d] = "poll"
    /\ event[d]
    /\ event' \in {event, [event EXCEPT ![d] = FALSE]}
    /\ Goto(d, "lock bus")
    /\ UNCHANGED <<m_bRunning, open, slave, mutexes, read, frames, int, crashed, opens, fails>>

\* It returns false after twice the period.  (A slip: it waits for ever.)
PollTimesOut_Never(d) == FALSE
PollTimesOut(d) ==
    /\ pc[d] = "poll"
    /\ ~event[d]
    /\ Goto(d, "timed out")
    /\ UNCHANGED <<m_bRunning, open, slave, mutexes, read, frames, lines, crashed, opens, fails>>

\* "or a timeout if already risen": the pin is read.  (A slip: it is not.)
TimedOut_Again(d) ==
    /\ pc[d] = "timed out"
    /\ Goto(d, "check")
    /\ UNCHANGED <<m_bRunning, open, slave, mutexes, read, frames, lines, crashed, opens, fails>>
TimedOut(d) ==
    /\ pc[d] = "timed out"
    /\ event' = [event EXCEPT ![d] = FALSE]
    /\ Goto(d, IF int[d] = 1 THEN "lock bus" ELSE "check")
    /\ UNCHANGED <<m_bRunning, open, slave, mutexes, read, frames, int, crashed, opens, fails>>

\* GPIO calls throw, and nothing catches it.
Throws(d) ==
    /\ pc[d] \in {"poll", "timed out"}
    /\ crashed' = TRUE
    /\ UNCHANGED <<m_bRunning, open, pc, slave, mutexes, read, frames, lines, opens, fails>>

\* (A slip: m_i2cMutex is not taken.)
LockBus_Not(d) ==
    /\ pc[d] = "lock bus"
    /\ Goto(d, "select")
    /\ UNCHANGED <<m_bRunning, open, slave, mutexes, read, frames, lines, crashed, opens, fails>>
LockBus(d) ==
    /\ pc[d] = "lock bus"
    /\ i2cMutex = "none"
    /\ i2cMutex' = d
    /\ Goto(d, "select")
    /\ UNCHANGED <<m_bRunning, open, slave, frameMutex, read, frames, lines, crashed, opens, fails>>

\* It is not checked whether ioctl() succeeds; it fails for addresses that a
\* driver of the kernel has, and those DetectDevices() would not have found.
Select(d) ==
    /\ pc[d] = "select"
    /\ slave' = d
    /\ Goto(d, "read")
    /\ UNCHANGED <<m_bRunning, open, mutexes, read, frames, lines, crashed, opens, fails>>

\* The device that is addressed gives its sample, and lowers its interrupt.
Read(d) ==
    /\ pc[d] = "read"
    /\ \E s \in Sample : read' = [read EXCEPT ![d] = [from |-> slave, sample |-> s]]
    /\ int' = [int EXCEPT ![slave] = 0]
    /\ i2cMutex' = "none"
    /\ Goto(d, "lock frame")
    /\ UNCHANGED <<m_bRunning, open, slave, frameMutex, frames, event, crashed, opens, fails>>

ReadFails(d) ==
    /\ pc[d] = "read"
    /\ fails < MaxFails
    /\ fails' = fails + 1
    /\ i2cMutex' = "none"
    /\ Goto(d, "check")
    /\ UNCHANGED <<m_bRunning, open, slave, frameMutex, read, frames, lines, crashed, opens>>

LockFrame(d) ==
    /\ pc[d] = "lock frame"
    /\ frameMutex = "none"
    /\ frameMutex' = d
    /\ Goto(d, "first field")
    /\ UNCHANGED <<m_bRunning, open, slave, i2cMutex, read, frames, lines, crashed, opens, fails>>

FirstField(d) ==
    /\ pc[d] = "first field"
    /\ m_frame' = [m_frame EXCEPT ![d].first = read[d]]
    /\ Goto(d, "second field")
    /\ UNCHANGED <<m_bRunning, open, slave, mutexes, read, copy, lines, crashed, opens, fails>>

SecondField(d) ==
    /\ pc[d] = "second field"
    /\ m_frame' = [m_frame EXCEPT ![d].second = read[d]]
    /\ read' = [read EXCEPT ![d] = None]
    /\ frameMutex' = "none"
    /\ Goto(d, "check")
    /\ UNCHANGED <<m_bRunning, open, slave, i2cMutex, copy, lines, crashed, opens, fails>>

Lock(d) == LockBus(d) \/ LockFrame(d)

Run(d) ==
    \/ Check(d) \/ PollWakes(d) \/ PollTimesOut(d) \/ TimedOut(d)
    \/ Select(d) \/ Read(d) \/ FirstField(d) \/ SecondField(d)
-----------------------------------------------------------------------------
(* GetFrame(), one field after the other *)

GetFrame ==
    /\ pc["client"] = "idle"
    /\ frameMutex = "none"
    /\ frameMutex' = "client"
    /\ copy' = [d \in Device |-> m_frame[d].first]
    /\ Goto("client", "copy")
    /\ UNCHANGED <<m_bRunning, open, slave, i2cMutex, read, m_frame, lines, crashed, opens, fails>>

GotFrame ==
    /\ pc["client"] = "copy"
    /\ copy' = [d \in Device |-> None]
    /\ frameMutex' = "none"
    /\ Goto("client", "idle")
    /\ UNCHANGED <<m_bRunning, open, slave, i2cMutex, read, m_frame, lines, crashed, opens, fails>>
-----------------------------------------------------------------------------
(* The sensors *)

NewSample(d) ==
    /\ int' = [int EXCEPT ![d] = 1]
    /\ event' = [event EXCEPT ![d] = @ \/ int[d] = 0]
    /\ UNCHANGED <<m_bRunning, open, pc, slave, mutexes, read, frames, crashed, opens, fails>>

Init ==
    /\ m_bRunning = FALSE /\ open = FALSE
    /\ pc = [t \in Threads |-> IF t \in Device THEN "done" ELSE "idle"]
    /\ slave \in Device
    /\ i2cMutex = "none" /\ frameMutex = "none"
    /\ int = [d \in Device |-> 0]
    /\ event = [d \in Device |-> FALSE]
    /\ read = [d \in Device |-> None] /\ copy = [d \in Device |-> None]
    /\ m_frame = [d \in Device |-> [first |-> [from |-> d, sample |-> 0],
                                    second |-> [from |-> d, sample |-> 0]]]
    /\ crashed = FALSE
    /\ opens = 0 /\ fails = 0

Owner == CloseJoinAcc \/ CloseJoinGyro
Client == GetFrame \/ GotFrame

Next ==
    /\ ~crashed
    /\ \/ OpenSucceeds \/ OpenThrows \/ CloseStop \/ Owner
       \/ \E d \in Device : Run(d) \/ Lock(d) \/ ReadFails(d) \/ Throws(d) \/ NewSample(d)
       \/ Client

Spec == Init /\ [][Next]_vars

\* Threads run, and one that waits for a mutex which others release over and
\* over gets it at last.  Nothing has to fail; nobody has to call.
FairSpec ==
    /\ Spec
    /\ WF_vars(~crashed /\ Owner) /\ WF_vars(~crashed /\ GotFrame)
    /\ \A d \in Device : /\ WF_vars(~crashed /\ Run(d))
                         /\ SF_vars(~crashed /\ LockBus(d))
                         /\ SF_vars(~crashed /\ LockFrame(d))
-----------------------------------------------------------------------------
(* Properties *)

\* What GetFrame() returns was measured by the right device, all of it at the
\* same time: the two threads share the bus, whose address is state of the
\* descriptor, and the frame (IMU.cpp:160-173, 189-202, 208).
FramesAreWhole ==
    [][GotFrame => \A d \in Device : copy[d] = m_frame[d].second /\ copy[d].from = d]_vars

\* No thread uses the bus after Close() has closed it (IMU.cpp:77-82).
ReadsOnOpenBus == \A d \in Device : pc[d] \in {"lock bus", "select", "read"} => open

\* A sample is read also if its interrupt rose before Poll() was called, when
\* there is no edge to wait for ("or a timeout if already risen", IMU.cpp:156).
DataIsRead ==
    \A d \in Device : int[d] = 1 /\ m_bRunning ~> int[d] = 0 \/ ~m_bRunning \/ crashed

\* Close() returns, whether or not the sensors go on.
CloseReturns == pc["owner"] # "idle" ~> pc["owner"] = "idle" \/ crashed
=============================================================================
