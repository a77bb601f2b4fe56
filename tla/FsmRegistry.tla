----------------------------- MODULE FsmRegistry -----------------------------
(***************************************************************************)
(* What MecanumMaster promises its host about the FSMs that are loaded: a  *)
(* list of fingerprints, duplicates allowed, in which creation appends and *)
(* destruction removes the first FSM with the given fingerprint, leaving   *)
(* the order of the others alone (the comments of FSMVector.h).            *)
(***************************************************************************)
EXTENDS Naturals, Sequences

CONSTANTS Fingerprints, BootFsms

VARIABLE fsms

Init == fsms = BootFsms

Create(fp) == fsms' = Append(fsms, fp)

\* k is where fp is found first; what stood behind it moves up by one.
Destroy(fp) ==
    \E k \in 1 .. Len(fsms) :
        /\ fsms[k] = fp
        /\ \A j \in 1 .. k - 1 : fsms[j] # fp
        /\ fsms' = [j \in 1 .. Len(fsms) - 1 |-> IF j < k THEN fsms[j] ELSE fsms[j + 1]]

Next == \E fp \in Fingerprints : Create(fp) \/ Destroy(fp)

Spec == Init /\ [][Next]_fsms
=============================================================================
