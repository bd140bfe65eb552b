---------------------------- MODULE StreamLock ------------------------------
(***************************************************************************)
(* The lock between the ALSA substreams of a card and a user-space driver  *)
(* that wants to stream by itself.  Each of the drivers fireworks, bebob,  *)
(* dice, oxfw and digi00x has the same code: snd_*_stream_lock_try() and   *)
(* snd_*_stream_lock_release(), called when a PCM or MIDI substream is     *)
(* opened and closed, and the ioctls and the release of the hwdep device.  *)
(* The lines quoted are those of sound/firewire/fireworks.                 *)
(*                                                                         *)
(* Every operation runs under the spinlock of the card and is one step.    *)
(***************************************************************************)
EXTENDS Integers, FiniteSets

CONSTANTS Substreams   \* the PCM and MIDI substreams of the card

ASSUME StreamLockAssumption == IsFiniteSet(Substreams)

VARIABLES
  devLockCount,    \* dev_lock_count: -1 user space, else open substreams
  devLockChanged,  \* dev_lock_changed: hwdep_read() has something to report
  opened,          \* history: the substreams that got the lock
  reported,        \* history: the lock status hwdep_read() last returned
  faulted          \* history: it has failed to return the last one it took

lockVars == <<devLockCount, devLockChanged, opened, reported, faulted>>

LockTypeOK ==
  /\ devLockCount \in Int
  /\ devLockChanged \in BOOLEAN
  /\ opened \subseteq Substreams
  /\ reported \in BOOLEAN
  /\ faulted \in BOOLEAN

LockInit ==
  /\ devLockCount = 0
  /\ devLockChanged = FALSE
  /\ opened = {}
  /\ reported = FALSE
  /\ faulted = FALSE

\* Mutant: the test of line 343 left out.
StreamLockTryAlways(s) ==
  /\ s \notin opened
  /\ devLockCount' = devLockCount + 1
  /\ devLockChanged' = (devLockChanged \/ devLockCount = 0)
  /\ opened' = opened \cup {s}
  /\ UNCHANGED <<reported, faulted>>

\* Mutant: the post-increment of line 349 written as a pre-increment.
StreamLockTryPreIncrement(s) ==
  /\ s \notin opened
  /\ devLockCount >= 0
  /\ devLockCount' = devLockCount + 1
  /\ devLockChanged' = (devLockChanged \/ devLockCount + 1 = 0)
  /\ opened' = opened \cup {s}
  /\ UNCHANGED <<reported, faulted>>

\* snd_efw_stream_lock_try(), lines 337-356; otherwise -EBUSY.
StreamLockTry(s) ==
  /\ s \notin opened
  /\ devLockCount >= 0
  /\ devLockCount' = devLockCount + 1
  /\ devLockChanged' = (devLockChanged \/ devLockCount = 0)
  /\ opened' = opened \cup {s}
  /\ UNCHANGED <<reported, faulted>>

\* snd_efw_stream_lock_release(), lines 358-368
StreamLockRelease(s) ==
  /\ s \in opened
  /\ opened' = opened \ {s}
  /\ IF devLockCount > 0
       THEN /\ devLockCount' = devLockCount - 1
            /\ devLockChanged' = (devLockChanged \/ devLockCount = 1)
       ELSE UNCHANGED <<devLockCount, devLockChanged>>
  /\ UNCHANGED <<reported, faulted>>

\* hwdep_lock(), lines 192-209; otherwise -EBUSY.
HwdepLock ==
  /\ devLockCount = 0
  /\ devLockCount' = -1
  /\ UNCHANGED <<devLockChanged, opened, reported, faulted>>

\* hwdep_unlock(), lines 211-228 (otherwise -EBADFD), and hwdep_release(),
\* lines 230-241, which does the same when the device is closed.
HwdepUnlock ==
  /\ devLockCount = -1
  /\ devLockCount' = 0
  /\ UNCHANGED <<devLockChanged, opened, reported, faulted>>

\* hwdep_read_locked(), lines 75-93.  dev_lock_changed is cleared although
\* copy_to_user() may fail: then the event is lost.
ReadLocked ==
  /\ \/ reported' = (devLockCount > 0) /\ faulted' = FALSE
     \/ faulted' = TRUE /\ UNCHANGED reported
  /\ devLockChanged' = FALSE
  /\ UNCHANGED <<devLockCount, opened>>

----------------------------------------------------------------------------
(* Properties *)

\* The count stands for the substreams that are open, and no substream is
\* open while user space holds the lock: the warning of line 362 is never
\* given and no release is lost.
LockExclusive ==
  devLockCount = IF opened = {} /\ devLockCount < 0 THEN -1
                 ELSE Cardinality(opened)

\* A user-space program that has read every event knows whether the kernel
\* streams: what changed and was not yet reported has changed back.  (But for
\* an event that was lost in a fault of the program's own buffer.)
StatusReported ==
  ~devLockChanged /\ ~faulted => (reported <=> devLockCount > 0)
=============================================================================
