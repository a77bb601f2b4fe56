---------------------------- MODULE SentryMonitor ----------------------------
(***************************************************************************)
(* The program SentryMonitor, which loads a Sentry and writes what it      *)
(* publishes to a file for each sweep, and the board it talks to.          *)
(* Whichever of the two programs runs, this one or the one of HostSession, *)
(* it has the line for itself.                                             *)
(*                                                                         *)
(* Sentry says how samples become messages; here a message is a batch, the *)
(* n-th of a sweep, and it is valid, so that the two checks of its length  *)
(* never end the loop.  A tick of the clock is the time a full batch takes *)
(* (64 ms); the program's own code between two calls of Receive() takes    *)
(* less than one, and so does a message on its way to the board.           *)
(***************************************************************************)
EXTENDS HostSession

CONSTANTS
    BATCHES,    \* full batches in a sweep: 23 steps of 50 ms, 64 ms each
    PAUSE,      \* ticks the servo is given to get back: 1000 ms
    RECEIVE,    \* ticks until Receive() gives up: 128 ms
    LeftFsms,   \* what others have loaded when the monitor starts
    PATIENCE    \* the loop ends after more timeouts than this: 5000 / 128

ASSUME MonitorAssumption ==
    /\ {BATCHES, PAUSE, RECEIVE, PATIENCE} \subseteq Nat \ {0}
    /\ [id |-> "FSM_SENTRY", pin |-> NULL, rate |-> NULL] \in Loadable
    /\ LeftFsms \in Seq(Loadable)

VARIABLES
    program,   \* which program runs
    at,        \* SentryMonitor: where it is
    wait,      \* ticks left until Receive() gives up
    timeout,   \* how often it has given up since the last batch
    samples,   \* the batches of the set that is being gathered
    files,     \* what was written, set by set; <<>> when writing failed
    sentry     \* the Sentry's sweep, and its batches to come

monitor == <<program, at, wait, timeout, samples, files>>
vars == <<session, monitor, sentry>>

SentryFp == [id |-> "FSM_SENTRY", pin |-> NULL, rate |-> NULL]

\* No Sentry, or one that has finished; resting before a sweep for rest ticks;
\* or sweeping, with so many full batches to come.
Idle == [phase |-> "idle", sweep |-> 0, rest |-> 0]
Sentries == [phase : {"idle", "resting", "sweeping"}, sweep : 0 .. 2, rest : Nat]
-----------------------------------------------------------------------------
(* SentryMonitor::Main() *)

\* The pin to the board goes low and the port is opened; a second later it goes
\* high and the Sentry is uploaded.
Connect ==
    /\ at = "start"
    /\ at' = "connected"
    /\ bridge' = FALSE
    /\ UNCHANGED <<loaded, lit, driving, enable, host, rx, line, sentry>>
    /\ UNCHANGED <<program, wait, timeout, samples, files>>

Upload ==
    /\ at = "connected"
    /\ at' = "loop"
    /\ bridge' = TRUE
    /\ Send([kind |-> "CREATE", fp |-> SentryFp])
    /\ UNCHANGED <<loaded, lit, driving, enable, host, line, sentry>>
    /\ UNCHANGED <<program, wait, timeout, samples, files>>

CallReceive ==
    /\ at = "loop" /\ timeout <= PATIENCE
    /\ at' = "receive"
    /\ wait' = RECEIVE
    /\ UNCHANGED <<session, sentry, program, timeout, samples, files>>

\* Process(): a set of samples gets a file of its own, unless that cannot be opened.
Process(set) == \E written \in {set, <<>>} : files' = Append(files, written)

\* Receive() returned false: what has been gathered is a set of its own.  (Slips:
\* the samples are kept; silence is only counted while something is gathered.)
Silence_Keeps ==
    /\ at = "silence"
    /\ at' = "loop"
    /\ IF samples # <<>> THEN Process(samples) ELSE UNCHANGED files
    /\ timeout' = timeout + 1
    /\ UNCHANGED <<session, sentry, program, wait, samples>>
Silence_Patient ==
    /\ at = "silence"
    /\ at' = "loop"
    /\ IF samples # <<>> THEN Process(samples) ELSE UNCHANGED files
    /\ samples' = <<>>
    /\ timeout' = (IF samples # <<>> THEN timeout + 1 ELSE timeout)
    /\ UNCHANGED <<session, sentry, program, wait>>
Silence ==
    /\ at = "silence"
    /\ at' = "loop"
    /\ IF samples # <<>> THEN Process(samples) ELSE UNCHANGED files
    /\ samples' = <<>>
    /\ timeout' = timeout + 1
    /\ UNCHANGED <<session, sentry, program, wait>>

\* The DESTROY is queued, the pin goes low and Main() returns ...
Finish ==
    /\ at = "loop" /\ timeout > PATIENCE
    /\ at' = "closing"
    /\ bridge' = FALSE
    /\ UNCHANGED <<loaded, lit, driving, enable, host, rx, line, sentry>>
    /\ UNCHANGED <<program, wait, timeout, samples, files>>

\* ... so that ~AVRController() closes the link: the write thread has taken the
\* message before m_bRunning is cleared, and writes it to the end,
DestroyWritten ==
    /\ at = "closing"
    /\ at' = "done"
    /\ Send([kind |-> "DESTROY", fp |-> SentryFp])
    /\ UNCHANGED <<loaded, lit, driving, enable, bridge, host, line, sentry>>
    /\ UNCHANGED <<program, wait, timeout, samples, files>>

\* or it has not, and clears its queue.
DestroyDiscarded ==
    /\ at = "closing"
    /\ at' = "discarded"
    /\ UNCHANGED <<session, sentry, program, wait, timeout, samples, files>>

\* A batch reaches the host: Receive() returns it and it is added to the
\* samples; if nobody waits the message is dropped.
Published(batch) ==
    IF at = "receive"
    THEN at' = "loop" /\ samples' = Append(samples, batch) /\ timeout' = 0
    ELSE UNCHANGED <<at, samples, timeout>>
-----------------------------------------------------------------------------
(* The Sentry, and time *)

\* A tick passes without a message.
Wait ==
    IF at = "receive"
    THEN wait' = wait - 1 /\ at' = IF wait = 1 THEN "silence" ELSE at
    ELSE UNCHANGED <<wait, at>>

Rest ==
    /\ sentry.phase # "sweeping"
    /\ sentry' = CASE sentry.phase = "idle" -> sentry
                   [] sentry.rest > 1 -> [sentry EXCEPT !.rest = @ - 1]
                   [] OTHER -> [phase |-> "sweeping", sweep |-> sentry.sweep + 1,
                                rest |-> BATCHES]
    /\ Wait
    /\ UNCHANGED <<timeout, samples>>

\* Update() fills a batch and publishes it.
Fill ==
    /\ sentry.phase = "sweeping" /\ sentry.rest > 0
    /\ sentry' = [sentry EXCEPT !.rest = @ - 1]
    /\ Published(<<sentry.sweep, BATCHES - sentry.rest + 1>>)
    /\ UNCHANGED wait

\* A tick is longer than what the program does between two calls of Receive()
\* and than what a message to the board takes.
Tick ==
    /\ at = "receive" /\ rx = <<>>
    /\ Rest \/ Fill
    /\ UNCHANGED <<session, program, files>>

\* Sentry::Step() at the end of a sweep: Disable() publishes what is left, if
\* anything is, at any moment before the next batch would be full.
Return ==
    /\ sentry.phase = "sweeping" /\ sentry.rest = 0
    /\ sentry' = IF sentry.sweep = 2 THEN Idle
                 ELSE [sentry EXCEPT !.phase = "resting", !.rest = PAUSE]
    /\ \/ Published(<<sentry.sweep, BATCHES + 1>>)
       \/ UNCHANGED <<at, samples, timeout>>
    /\ UNCHANGED <<session, program, wait, files>>

\* The Sentry is created, centers its servo and rests before its first sweep;
\* or it is destroyed.
SentryHandled(m) ==
    CASE m = [kind |-> "CREATE", fp |-> SentryFp] ->
           [phase |-> "resting", sweep |-> 0, rest |-> PAUSE]
      [] m = [kind |-> "DESTROY", fp |-> SentryFp] -> Idle
      [] OTHER -> sentry
-----------------------------------------------------------------------------
MonitorInit ==
    /\ \/ program = "console" /\ Booted(BootFsms)
       \/ program = "monitor" /\ Booted(LeftFsms)
    /\ at = "start"
    /\ wait = 0 /\ timeout = 0
    /\ samples = <<>> /\ files = <<>>
    /\ sentry = Idle

Monitor ==
    \/ Connect \/ Upload \/ CallReceive \/ Silence
    \/ Finish \/ DestroyWritten \/ DestroyDiscarded

BoardSteps ==
    \/ SerialCallback /\ sentry' = SentryHandled(Head(rx)) /\ UNCHANGED monitor
    \/ Step /\ UNCHANGED <<monitor, sentry>>

MonitorNext ==
    \/ BoardSteps
    \/ program = "console" /\ Console /\ UNCHANGED <<monitor, sentry>>
    \/ program = "monitor" /\ (Monitor \/ Return \/ Tick)

MonitorSpec == MonitorInit /\ [][MonitorNext]_vars

\* The program and its clock go on, and so does the board's serial loop
\* (MecanumMaster, MessagesHandled).  The write thread either takes what is queued
\* or ends (AVRController, QueueDrains), so what Finish has queued does not stay.
MonitorFairSpec ==
    /\ MonitorSpec
    /\ WF_vars(program = "monitor" /\ (Monitor \/ Return \/ Tick))
    /\ WF_vars(SerialCallback /\ sentry' = SentryHandled(Head(rx)) /\ UNCHANGED monitor)
-----------------------------------------------------------------------------
(* Properties *)

\* A sweep's batches from the first on, all but possibly the last, which may
\* come when nobody waits for it (AVRController.cpp:176).
SweepOf(s, n) == [k \in 1 .. n |-> <<s, k>>]

\* The loop has ended.
Ended == {"closing", "done", "discarded"}

\* Every sweep is written to a file of its own, and nothing of it is missing
\* but what was published at its very end; the program does not give up between
\* two sweeps (SentryMonitor.cpp:64-109).
OnlyTheLastIsMissed ==
    /\ \A j \in DOMAIN files :
         files[j] \in {<<>>, SweepOf(j, BATCHES), SweepOf(j, BATCHES + 1)}
    /\ at \in Ended => Len(files) = 2

\* The program comes to its end, and no Sentry is left on the board unless its
\* DESTROY was discarded at the very end (SentryMonitor.cpp:111).
MonitorEnds ==
    program = "monitor" ~>
        \/ at = "discarded"
        \/ at = "done" /\ \A k \in DOMAIN loaded : ~Is(k, "FSM_SENTRY")
=============================================================================
