----------------------------- MODULE IMU_proofs ------------------------------
(***************************************************************************)
(* What GetFrame() returns is whole, and the bus is closed last.  A thread *)
(* reads while it holds the bus, which addresses its device then and not   *)
(* only before; it stores while it holds the frame, whose fields differ    *)
(* only then; and it does both only while Close() has not joined it.       *)
(***************************************************************************)
EXTENDS IMU, TLAPS

Labels == {"idle", "join acc", "join gyro", "done", "check", "poll", "timed out",
           "lock bus", "select", "read", "lock frame", "first field", "second field",
           "copy"}
Samples == [from : Device \cup {"none"}, sample : Sample]

Functions ==
    /\ pc \in [Threads -> Labels]
    /\ slave \in Device
    /\ read \in [Device -> Samples]
    /\ copy \in [Device -> Samples]
    /\ m_frame \in [Device -> [first : Samples, second : Samples]]

\* Threads run on an open bus, and Close() joins them one after the other.
Joined ==
    /\ \A d \in Device : pc[d] # "done" => open
    /\ pc["owner"] = "join gyro" => pc["ACC"] = "done"

\* Who holds the bus addresses it.
BusHeld ==
    \A d \in Device :
        /\ pc[d] \in {"select", "read"} <=> i2cMutex = d
        /\ pc[d] = "read" => slave = d

\* Who holds the frame writes or copies it.
FrameHeld ==
    /\ \A d \in Device : pc[d] \in {"first field", "second field"} <=> frameMutex = d
    /\ pc["client"] = "copy" <=> frameMutex = "client"

\* What has been read comes from the thread's device, and what is stored, too.
OwnSamples ==
    \A d \in Device :
        /\ pc[d] \in {"lock frame", "first field", "second field"} => read[d].from = d
        /\ m_frame[d].first.from = d

\* The fields differ only while one is stored and the other is not.
Whole ==
    /\ \A d \in Device :
          m_frame[d].first = IF pc[d] = "second field" THEN read[d] ELSE m_frame[d].second
    /\ pc["client"] = "copy" => \A d \in Device : copy[d] = m_frame[d].first

IMUInv == Functions /\ Joined /\ BusHeld /\ FrameHeld /\ OwnSamples /\ Whole

\* Failing, and a new sample, change nothing the invariant speaks of.
LEMMA NothingMoved ==
    IMUInv /\ UNCHANGED <<open, pc, slave, mutexes, read, frames>> => IMUInv'
<1> SUFFICES ASSUME IMUInv, UNCHANGED <<open, pc, slave, mutexes, read, frames>>
             PROVE  IMUInv'
    OBVIOUS
<1> USE DEF mutexes, frames
<1>1. Functions'
      BY DEF IMUInv, Functions
<1>2. Joined'
      BY Zenon DEF IMUInv, Joined
<1>3. BusHeld' /\ FrameHeld'
      BY Zenon DEF IMUInv, BusHeld, FrameHeld
<1>4. OwnSamples' /\ Whole'
      BY DEF IMUInv, OwnSamples, Whole
<1> QED BY <1>1, <1>2, <1>3, <1>4 DEF IMUInv

\* What is read comes from the device the bus addresses: the thread's own.
LEMMA ReadKeepsInv == ASSUME NEW d \in Device, IMUInv, Read(d) PROVE IMUInv'
<1>1. PICK s \in Sample : read' = [read EXCEPT ![d] = [from |-> slave, sample |-> s]]
      BY DEF Read
<1>2. /\ pc[d] = "read" /\ pc' = [pc EXCEPT ![d] = "lock frame"]
      /\ i2cMutex' = "none"
      /\ UNCHANGED <<open, slave, frameMutex, copy, m_frame>>
      BY DEF Read, Goto, frames
<1>3. slave = d
      BY <1>2 DEF IMUInv, BusHeld
<1>4. [from |-> slave, sample |-> s] \in Samples
      BY DEF IMUInv, Functions, Samples
<1>5. Functions'
      BY <1>1, <1>2, <1>4 DEF IMUInv, Functions, Labels
<1>6. read'[d].from = d /\ \A e \in Device \ {d} : read'[e] = read[e]
  <2>1. read'[d] = [from |-> d, sample |-> s]
        BY <1>1, <1>3 DEF IMUInv, Functions
  <2> QED BY <1>1, <2>1 DEF IMUInv, Functions
<1>7. pc'[d] = "lock frame" /\ \A e \in Device \ {d} : pc'[e] = pc[e]
      BY <1>2 DEF IMUInv, Functions, Threads
<1>8. Joined'
      BY <1>2 DEF IMUInv, Functions, Joined, Threads, Device
<1>9. BusHeld'
      BY <1>2 DEF IMUInv, Functions, BusHeld, Threads, Device
<1>10. FrameHeld'
       BY <1>2 DEF IMUInv, Functions, FrameHeld, Threads, Device
<1>11. OwnSamples'
  <2> SUFFICES ASSUME NEW e \in Device
               PROVE  /\ pc'[e] \in {"lock frame", "first field", "second field"}
                            => read'[e].from = e
                      /\ m_frame'[e].first.from = e
      BY DEF OwnSamples
  <2>1. CASE e = d
        BY <2>1, <1>2, <1>6 DEF IMUInv, OwnSamples
  <2>2. CASE e # d
        BY <2>2, <1>2, <1>6, <1>7 DEF IMUInv, OwnSamples
  <2> QED BY <2>1, <2>2
<1>12. Whole'
  <2>1. pc'["client"] = pc["client"]
        BY <1>2 DEF IMUInv, Functions, Threads, Device
  <2>2. ASSUME NEW e \in Device
        PROVE  m_frame'[e].first =
                 IF pc'[e] = "second field" THEN read'[e] ELSE m_frame'[e].second
    <3>1. CASE e = d
          BY <3>1, <1>2, <1>7 DEF IMUInv, Whole
    <3>2. CASE e # d
          BY <3>2, <1>2, <1>6, <1>7 DEF IMUInv, Whole
    <3> QED BY <3>1, <3>2
  <2> QED BY <1>2, <2>1, <2>2 DEF IMUInv, Whole
<1> QED BY <1>5, <1>8, <1>9, <1>10, <1>11, <1>12 DEF IMUInv

\* While one field is stored and the other is not, the frame is held.
LEMMA FirstFieldKeepsInv == ASSUME NEW d \in Device, IMUInv, FirstField(d) PROVE IMUInv'
<1>1. /\ pc[d] = "first field" /\ pc' = [pc EXCEPT ![d] = "second field"]
      /\ m_frame' = [m_frame EXCEPT ![d].first = read[d]]
      /\ UNCHANGED <<open, slave, i2cMutex, frameMutex, read, copy>>
      BY DEF FirstField, Goto, mutexes
<1>2. Functions'
      BY <1>1 DEF IMUInv, Functions, Labels
<1>3. /\ m_frame'[d] = [first |-> read[d], second |-> m_frame[d].second]
      /\ \A e \in Device \ {d} : m_frame'[e] = m_frame[e]
      BY <1>1 DEF IMUInv, Functions
<1>4. m_frame'[d].first = read[d] /\ m_frame'[d].second = m_frame[d].second
      BY <1>3
<1>5. pc'[d] = "second field" /\ \A e \in Device \ {d} : pc'[e] = pc[e]
      BY <1>1 DEF IMUInv, Functions, Threads
<1>6. Joined'
      BY <1>1 DEF IMUInv, Functions, Joined, Threads, Device
<1>7. BusHeld'
      BY <1>1 DEF IMUInv, Functions, BusHeld, Threads, Device
<1>8. FrameHeld'
      BY <1>1 DEF IMUInv, Functions, FrameHeld, Threads, Device
<1>9. read[d].from = d
      BY <1>1 DEF IMUInv, OwnSamples
<1>10. OwnSamples'
  <2> SUFFICES ASSUME NEW e \in Device
               PROVE  /\ pc'[e] \in {"lock frame", "first field", "second field"}
                            => read'[e].from = e
                      /\ m_frame'[e].first.from = e
      BY DEF OwnSamples
  <2>1. CASE e = d
    <3>1. m_frame'[d].first.from = d
          BY <1>4, <1>9
    <3>2. read'[d].from = d
          BY <1>1, <1>9
    <3> QED BY <2>1, <3>1, <3>2
  <2>2. CASE e # d
    <3>1. pc'[e] = pc[e] /\ m_frame'[e] = m_frame[e] /\ read'[e] = read[e]
          BY <2>2, <1>1, <1>3, <1>5
    <3>2. /\ pc[e] \in {"lock frame", "first field", "second field"} => read[e].from = e
          /\ m_frame[e].first.from = e
          BY DEF IMUInv, OwnSamples
    <3> QED BY <3>1, <3>2
  <2> QED BY <2>1, <2>2
<1>11. pc'["client"] # "copy"
  <2>1. frameMutex = d
        BY <1>1 DEF IMUInv, FrameHeld
  <2>2. pc["client"] # "copy"
        BY <2>1 DEF IMUInv, FrameHeld, Device
  <2> QED BY <2>2, <1>1 DEF IMUInv, Functions, Threads, Device
<1>12. Whole'
  <2> SUFFICES ASSUME NEW e \in Device
               PROVE  m_frame'[e].first =
                        IF pc'[e] = "second field" THEN read'[e] ELSE m_frame'[e].second
      BY <1>11 DEF Whole
  <2>1. CASE e = d
        BY <2>1, <1>1, <1>4, <1>5
  <2>2. CASE e # d
    <3>1. pc'[e] = pc[e] /\ m_frame'[e] = m_frame[e] /\ read'[e] = read[e]
          BY <2>2, <1>1, <1>3, <1>5
    <3> QED BY <3>1 DEF IMUInv, Whole
  <2> QED BY <2>1, <2>2
<1> QED BY <1>2, <1>6, <1>7, <1>8, <1>10, <1>12 DEF IMUInv

\* When both are stored, they are the same sample.
LEMMA SecondFieldKeepsInv == ASSUME NEW d \in Device, IMUInv, SecondField(d) PROVE IMUInv'
<1>1. /\ pc[d] = "second field" /\ pc' = [pc EXCEPT ![d] = "check"]
      /\ m_frame' = [m_frame EXCEPT ![d].second = read[d]]
      /\ read' = [read EXCEPT ![d] = None]
      /\ frameMutex' = "none"
      /\ UNCHANGED <<open, slave, i2cMutex, copy>>
      BY DEF SecondField, Goto
<1>2. Functions'
  <2>1. None \in Samples
        BY DEF None, Samples, Sample
  <2>2. read' \in [Device -> Samples] /\ pc' \in [Threads -> Labels]
        BY <1>1, <2>1 DEF IMUInv, Functions, Labels
  <2>3. m_frame' \in [Device -> [first : Samples, second : Samples]]
        BY <1>1 DEF IMUInv, Functions
  <2> QED BY <1>1, <2>2, <2>3 DEF IMUInv, Functions
<1>3. /\ m_frame'[d] = [first |-> m_frame[d].first, second |-> read[d]]
      /\ \A e \in Device \ {d} : m_frame'[e] = m_frame[e] /\ read'[e] = read[e]
      BY <1>1 DEF IMUInv, Functions
<1>4. m_frame'[d].second = read[d] /\ m_frame'[d].first = m_frame[d].first
      BY <1>3
<1>5. pc'[d] = "check" /\ \A e \in Device \ {d} : pc'[e] = pc[e]
      BY <1>1 DEF IMUInv, Functions, Threads
<1>6. Joined'
      BY <1>1 DEF IMUInv, Functions, Joined, Threads, Device
<1>7. BusHeld'
      BY <1>1 DEF IMUInv, Functions, BusHeld, Threads, Device
<1>8. FrameHeld'
      BY <1>1 DEF IMUInv, Functions, FrameHeld, Threads, Device
<1>9. OwnSamples'
  <2> SUFFICES ASSUME NEW e \in Device
               PROVE  /\ pc'[e] \in {"lock frame", "first field", "second field"}
                            => read'[e].from = e
                      /\ m_frame'[e].first.from = e
      BY DEF OwnSamples
  <2>1. /\ pc[e] \in {"lock frame", "first field", "second field"} => read[e].from = e
        /\ m_frame[e].first.from = e
        BY DEF IMUInv, OwnSamples
  <2>2. CASE e = d
        BY <2>1, <2>2, <1>4, <1>5
  <2>3. CASE e # d
    <3>1. pc'[e] = pc[e] /\ m_frame'[e] = m_frame[e] /\ read'[e] = read[e]
          BY <2>3, <1>3, <1>5
    <3> QED BY <2>1, <3>1
  <2> QED BY <2>2, <2>3
<1>10. pc'["client"] # "copy"
  <2>1. frameMutex = d
        BY <1>1 DEF IMUInv, FrameHeld
  <2>2. pc["client"] # "copy"
        BY <2>1 DEF IMUInv, FrameHeld, Device
  <2> QED BY <2>2, <1>1 DEF IMUInv, Functions, Threads, Device
<1>11. Whole'
  <2> SUFFICES ASSUME NEW e \in Device
               PROVE  m_frame'[e].first =
                        IF pc'[e] = "second field" THEN read'[e] ELSE m_frame'[e].second
      BY <1>10 DEF Whole
  <2>1. m_frame[e].first = IF pc[e] = "second field" THEN read[e] ELSE m_frame[e].second
        BY DEF IMUInv, Whole
  <2>2. CASE e = d
        BY <2>1, <2>2, <1>1, <1>4, <1>5
  <2>3. CASE e # d
    <3>1. pc'[e] = pc[e] /\ m_frame'[e] = m_frame[e] /\ read'[e] = read[e]
          BY <2>3, <1>3, <1>5
    <3> QED BY <2>1, <3>1
  <2> QED BY <2>2, <2>3
<1> QED BY <1>2, <1>6, <1>7, <1>8, <1>9, <1>11 DEF IMUInv

LEMMA OwnerKeepsInv ==
    IMUInv /\ (OpenSucceeds \/ OpenThrows \/ CloseStop \/ Owner) => IMUInv'
<1> SUFFICES ASSUME IMUInv, OpenSucceeds \/ OpenThrows \/ CloseStop \/ Owner
             PROVE  IMUInv'
    OBVIOUS
<1> USE DEF Threads, Device, Goto, mutexes, frames
<1>1. CASE OpenSucceeds
  <2>1. Functions' /\ Joined'
        BY <1>1 DEF OpenSucceeds, IMUInv, Functions, Joined, Labels, Samples
  <2>2. BusHeld' /\ FrameHeld'
        BY <1>1 DEF OpenSucceeds, IMUInv, Functions, Joined, BusHeld, FrameHeld
  <2>3. OwnSamples' /\ Whole'
        BY <1>1 DEF OpenSucceeds, IMUInv, Functions, Joined, FrameHeld, OwnSamples, Whole
  <2> QED BY <2>1, <2>2, <2>3 DEF IMUInv
<1>2. CASE OpenThrows
  <2>1. Functions' /\ Joined'
        BY <1>2 DEF OpenThrows, IMUInv, Functions, Joined, Labels, Samples
  <2>2. BusHeld' /\ FrameHeld'
        BY <1>2 DEF OpenThrows, IMUInv, Functions, Joined, BusHeld, FrameHeld
  <2>3. OwnSamples' /\ Whole'
        BY <1>2 DEF OpenThrows, IMUInv, Functions, FrameHeld, OwnSamples, Whole
  <2> QED BY <2>1, <2>2, <2>3 DEF IMUInv
<1>3. CASE CloseStop
  <2>1. Functions' /\ Joined'
        BY <1>3 DEF CloseStop, IMUInv, Functions, Joined, Labels, Samples
  <2>2. BusHeld' /\ FrameHeld'
        BY <1>3 DEF CloseStop, IMUInv, Functions, Joined, BusHeld, FrameHeld
  <2>3. OwnSamples' /\ Whole'
        BY <1>3 DEF CloseStop, IMUInv, Functions, FrameHeld, OwnSamples, Whole
  <2> QED BY <2>1, <2>2, <2>3 DEF IMUInv
<1>4. CASE CloseJoinAcc
  <2>1. Functions' /\ Joined'
        BY <1>4 DEF CloseJoinAcc, IMUInv, Functions, Joined, Labels, Samples
  <2>2. BusHeld' /\ FrameHeld'
        BY <1>4 DEF CloseJoinAcc, IMUInv, Functions, Joined, BusHeld, FrameHeld
  <2>3. OwnSamples' /\ Whole'
        BY <1>4 DEF CloseJoinAcc, IMUInv, Functions, FrameHeld, OwnSamples, Whole
  <2> QED BY <2>1, <2>2, <2>3 DEF IMUInv
<1>5. CASE CloseJoinGyro
  <2>1. Functions' /\ Joined'
        BY <1>5 DEF CloseJoinGyro, IMUInv, Functions, Joined, Labels, Samples
  <2>2. BusHeld' /\ FrameHeld'
        BY <1>5 DEF CloseJoinGyro, IMUInv, Functions, Joined, BusHeld, FrameHeld
  <2>3. OwnSamples' /\ Whole'
        BY <1>5 DEF CloseJoinGyro, IMUInv, Functions, FrameHeld, OwnSamples, Whole
  <2> QED BY <2>1, <2>2, <2>3 DEF IMUInv
<1> QED BY <1>1, <1>2, <1>3, <1>4, <1>5 DEF Owner

LEMMA ClientKeepsInv == IMUInv /\ Client => IMUInv'
<1> SUFFICES ASSUME IMUInv, Client PROVE IMUInv'
    OBVIOUS
<1> USE DEF Threads, Device, Goto, mutexes, None, Sample
<1>1. CASE GetFrame
  <2>1. Functions' /\ Joined'
        BY <1>1 DEF GetFrame, IMUInv, Functions, Joined, Labels, Samples
  <2>2. BusHeld' /\ FrameHeld'
        BY <1>1 DEF GetFrame, IMUInv, Functions, Joined, BusHeld, FrameHeld
  <2>3. OwnSamples' /\ Whole'
        BY <1>1 DEF GetFrame, IMUInv, Functions, FrameHeld, OwnSamples, Whole
  <2> QED BY <2>1, <2>2, <2>3 DEF IMUInv
<1>2. CASE GotFrame
  <2>1. Functions' /\ Joined'
        BY <1>2 DEF GotFrame, IMUInv, Functions, Joined, Labels, Samples
  <2>2. BusHeld' /\ FrameHeld'
        BY <1>2 DEF GotFrame, IMUInv, Functions, Joined, BusHeld, FrameHeld
  <2>3. OwnSamples' /\ Whole'
        BY <1>2 DEF GotFrame, IMUInv, Functions, FrameHeld, OwnSamples, Whole
  <2> QED BY <2>1, <2>2, <2>3 DEF IMUInv
<1> QED BY <1>1, <1>2 DEF Client

\* A thread that holds nothing goes on and still holds nothing.
Free == {"check", "poll", "timed out", "lock bus"}

LEMMA FreeKeepsInv ==
    ASSUME NEW d \in Device, NEW label \in Free \cup {"done"}, IMUInv,
           pc[d] \in Free, pc' = [pc EXCEPT ![d] = label],
           UNCHANGED <<open, slave, mutexes, read, frames>>
    PROVE  IMUInv'
<1> USE DEF Threads, Device, Free, mutexes, frames
<1>1. Functions' /\ Joined'
      BY DEF IMUInv, Functions, Joined, Labels
<1>2. BusHeld' /\ FrameHeld'
      BY DEF IMUInv, Functions, BusHeld, FrameHeld
<1>3. OwnSamples' /\ Whole'
      BY DEF IMUInv, Functions, OwnSamples, Whole
<1> QED BY <1>1, <1>2, <1>3 DEF IMUInv

LEMMA PollKeepsInv ==
    ASSUME NEW d \in Device, IMUInv,
           Check(d) \/ PollWakes(d) \/ PollTimesOut(d) \/ TimedOut(d)
    PROVE  IMUInv'
<1>1. CASE Check(d)
      BY <1>1, FreeKeepsInv DEF Check, Goto, Free, mutexes, frames
<1>2. CASE PollWakes(d)
      BY <1>2, FreeKeepsInv DEF PollWakes, Goto, Free, mutexes, frames
<1>3. CASE PollTimesOut(d)
      BY <1>3, FreeKeepsInv DEF PollTimesOut, Goto, Free, mutexes, frames
<1>4. CASE TimedOut(d)
      BY <1>4, FreeKeepsInv DEF TimedOut, Goto, Free, mutexes, frames
<1> QED BY <1>1, <1>2, <1>3, <1>4

LEMMA BusKeepsInv ==
    ASSUME NEW d \in Device, IMUInv,
           LockBus(d) \/ Select(d) \/ ReadFails(d) \/ LockFrame(d)
    PROVE  IMUInv'
<1> USE DEF Threads, Device, Goto, mutexes, frames
<1>1. CASE LockBus(d)
  <2>1. Functions' /\ Joined'
        BY <1>1 DEF LockBus, IMUInv, Functions, Joined, Labels, Samples
  <2>2. BusHeld' /\ FrameHeld'
        BY <1>1 DEF LockBus, IMUInv, Functions, Joined, BusHeld, FrameHeld
  <2>3. OwnSamples' /\ Whole'
        BY <1>1 DEF LockBus, IMUInv, Functions, FrameHeld, OwnSamples, Whole
  <2> QED BY <2>1, <2>2, <2>3 DEF IMUInv
<1>2. CASE Select(d)
  <2>1. Functions' /\ Joined'
        BY <1>2 DEF Select, IMUInv, Functions, Joined, Labels, Samples
  <2>2. BusHeld' /\ FrameHeld'
        BY <1>2 DEF Select, IMUInv, Functions, Joined, BusHeld, FrameHeld
  <2>3. OwnSamples' /\ Whole'
        BY <1>2 DEF Select, IMUInv, Functions, FrameHeld, OwnSamples, Whole
  <2> QED BY <2>1, <2>2, <2>3 DEF IMUInv
<1>3. CASE ReadFails(d)
  <2>1. Functions' /\ Joined'
        BY <1>3 DEF ReadFails, IMUInv, Functions, Joined, Labels, Samples
  <2>2. BusHeld' /\ FrameHeld'
        BY <1>3 DEF ReadFails, IMUInv, Functions, Joined, BusHeld, FrameHeld
  <2>3. OwnSamples' /\ Whole'
        BY <1>3 DEF ReadFails, IMUInv, Functions, FrameHeld, OwnSamples, Whole
  <2> QED BY <2>1, <2>2, <2>3 DEF IMUInv
<1>4. CASE LockFrame(d)
  <2>1. Functions' /\ Joined'
        BY <1>4 DEF LockFrame, IMUInv, Functions, Joined, Labels, Samples
  <2>2. BusHeld' /\ FrameHeld'
        BY <1>4 DEF LockFrame, IMUInv, Functions, Joined, BusHeld, FrameHeld
  <2>3. OwnSamples' /\ Whole'
        BY <1>4 DEF LockFrame, IMUInv, Functions, FrameHeld, OwnSamples, Whole
  <2> QED BY <2>1, <2>2, <2>3 DEF IMUInv
<1> QED BY <1>1, <1>2, <1>3, <1>4

LEMMA StepKeepsInv == IMUInv /\ [Next]_vars => IMUInv'
<1> SUFFICES ASSUME IMUInv, [Next]_vars PROVE IMUInv'
    OBVIOUS
<1>1. CASE OpenSucceeds \/ OpenThrows \/ CloseStop \/ Owner
      BY <1>1, OwnerKeepsInv
<1>2. CASE Client
      BY <1>2, ClientKeepsInv
<1>3. ASSUME NEW d \in Device, Run(d) \/ Lock(d) \/ ReadFails(d) PROVE IMUInv'
      BY <1>3, PollKeepsInv, BusKeepsInv, ReadKeepsInv, FirstFieldKeepsInv,
         SecondFieldKeepsInv DEF Run, Lock
<1>4. ASSUME NEW d \in Device, Throws(d) \/ NewSample(d) PROVE IMUInv'
      BY <1>4, NothingMoved DEF Throws, NewSample
<1>5. CASE UNCHANGED vars
      BY <1>5, NothingMoved DEF vars
<1> QED BY <1>1, <1>2, <1>3, <1>4, <1>5 DEF Next

LEMMA InvHolds == Spec => []IMUInv
<1>1. Init => IMUInv
      BY DEF Init, IMUInv, Functions, Joined, BusHeld, FrameHeld, OwnSamples, Whole,
             Labels, Samples, Sample, Threads, Device, None
<1> QED BY <1>1, StepKeepsInv, PTL DEF Spec

\* No thread uses the bus when Close() has closed it (IMU.cpp:77-82), however often
\* it is opened and closed.
THEOREM BusStaysOpen == Spec => []ReadsOnOpenBus
<1>1. IMUInv => ReadsOnOpenBus
      BY DEF IMUInv, Joined, ReadsOnOpenBus
<1> QED BY <1>1, InvHolds, PTL

\* GetFrame() returns of each device a sample that is whole and the device's own
\* (IMU.cpp:160-173, 189-202, 208), whatever reads fail in between.
THEOREM WholeFrames == Spec => FramesAreWhole
<1>1. IMUInv /\ [Next]_vars =>
          [GotFrame => \A d \in Device : copy[d] = m_frame[d].second /\ copy[d].from = d]_vars
  <2> SUFFICES ASSUME IMUInv, GotFrame, NEW d \in Device
               PROVE  copy[d] = m_frame[d].second /\ copy[d].from = d
      OBVIOUS
  <2>1. pc["client"] = "copy"
        BY DEF GotFrame
  <2>2. frameMutex # d
        BY <2>1 DEF IMUInv, FrameHeld, Device
  <2>3. pc[d] # "second field"
        BY <2>2 DEF IMUInv, FrameHeld
  <2> QED BY <2>1, <2>3 DEF IMUInv, OwnSamples, Whole
<1> QED BY <1>1, InvHolds, PTL DEF Spec, FramesAreWhole
=============================================================================
