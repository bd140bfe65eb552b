------------------------------ MODULE EfwHwdep -------------------------------
(***************************************************************************)
(* The hwdep character device of a Fireworks unit: the ring buffer through *)
(* which efw_response() hands the responses to user-space commands to      *)
(* hwdep_read() (fireworks_transaction.c:118-164, fireworks_hwdep.c:22-122)*)
(* and the stream lock, whose changes the same read() reports first.       *)
(*                                                                         *)
(* The ring holds quadlets.  A response is a run of quadlets whose first   *)
(* one is its length; a quadlet is modelled as the response it is from,    *)
(* its place in it, and what it reads as when it is taken for a length.    *)
(* Readers, the response handler and the lock are serialised by efw->lock. *)
(***************************************************************************)
EXTENDS StreamLock, Sequences

CONSTANTS
  Readers,       \* threads that read() the device
  RingSize,      \* snd_efw_resp_buf_size, in quadlets
  HeaderLen,     \* sizeof(struct snd_efw_transaction), in quadlets
  ResponseLens,  \* lengths of the responses that arrive
  ReadSizes,     \* sizes of the buffers given to read(), less the type field
  PayloadLen,    \* what a quadlet of a payload reads as a length
  Ids,           \* responses are numbered modulo Ids, to tell them apart
  MaxQueues      \* bound: responses in the ring, once it has been overrun

ASSUME EfwHwdepAssumption ==
  /\ RingSize \in Nat \ {0} /\ HeaderLen \in Nat \ {0}
  /\ ResponseLens \subseteq Nat /\ \A l \in ResponseLens : HeaderLen <= l
  /\ ReadSizes \subseteq Nat
  /\ PayloadLen \in Nat \ {0}
  /\ Ids \in Nat \ {0} /\ MaxQueues \in Nat

VARIABLES
  ring,        \* efw->resp_buf
  pushPtr,     \* efw->push_ptr
  pullPtr,     \* efw->pull_ptr
  respQueues,  \* efw->resp_queues
  reader,      \* where each reader is in hwdep_read()
  unread,      \* history: the responses in the ring, oldest first
  nextId,      \* history: number of the next response
  desync       \* history: a response was overwritten, truncated or torn

ringVars == <<ring, pushPtr, pullPtr, respQueues>>
ghostVars == <<unread, nextId, desync>>
hwdepVars == <<lockVars, ringVars, reader, ghostVars>>

Index == 0 .. RingSize - 1

\* The quadlets of response number id that states the length len; the model's
\* header is its first quadlet.
Quadlet(id, k, len) == [id |-> id, k |-> k, len |-> IF k = 1 THEN len ELSE PayloadLen]
Blank == [id |-> Ids, k |-> 1, len |-> 0]

HwdepTypeOK ==
  /\ LockTypeOK
  /\ pushPtr \in Index /\ pullPtr \in Index
  /\ respQueues \in 0 .. MaxQueues
  /\ \A i \in Index :
       /\ ring[i].id \in 0 .. Ids
       /\ ring[i].len \in ResponseLens \cup {0, PayloadLen}
  /\ reader \in [Readers -> {"out", "asleep", "woken"}]
  /\ desync \in BOOLEAN

HwdepInit ==
  /\ LockInit
  /\ ring = [i \in Index |-> Blank]
  /\ pushPtr = 0 /\ pullPtr = 0 /\ respQueues = 0
  /\ reader = [r \in Readers |-> "out"]
  /\ unread = <<>> /\ nextId = 0 /\ desync = FALSE

----------------------------------------------------------------------------
(* Pointers into the ring *)

Advance(p, n) == (p + n) % RingSize

\* Lines 128-132: the room left for a response.
Capacity == IF pushPtr < pullPtr THEN pullPtr - pushPtr
            ELSE RingSize - (pushPtr - pullPtr)

WakeAll == [r \in Readers |-> IF reader[r] = "asleep" THEN "woken" ELSE reader[r]]

----------------------------------------------------------------------------
(* efw_response() for a user-space command, in tasklet context *)

\* The quadlets 1 .. n of a response overwrite the ring from push_ptr on.
Written(id, claim, n) ==
  [i \in Index |->
     LET k == ((i - pushPtr) % RingSize) + 1
     IN  IF k <= n THEN Quadlet(id, k, claim) ELSE ring[i]]

\* Mutant: an unread response is not taken into account.
PushResponseUnchecked(claim, got) ==
  LET n == IF claim < got THEN claim ELSE got
  IN  /\ n <= RingSize /\ respQueues < MaxQueues
      /\ ring' = Written(nextId, claim, n)
      /\ pushPtr' = Advance(pushPtr, n)
      /\ respQueues' = respQueues + 1
      /\ reader' = WakeAll
      /\ unread' = Append(unread, [id |-> nextId, len |-> claim, stored |-> n])
      /\ nextId' = (nextId + 1) % Ids
      /\ desync' = (desync \/ n < claim \/ (respQueues > 0 /\ pushPtr = pullPtr))
      /\ UNCHANGED <<lockVars, pullPtr>>

\* Mutant: the reader is not woken (line 159).
PushResponseSilently(claim, got) ==
  LET n == IF claim < got THEN claim ELSE got
  IN  /\ n <= Capacity /\ respQueues < MaxQueues
      /\ ring' = Written(nextId, claim, n)
      /\ pushPtr' = Advance(pushPtr, n)
      /\ respQueues' = respQueues + 1
      /\ unread' = Append(unread, [id |-> nextId, len |-> claim, stored |-> n])
      /\ nextId' = (nextId + 1) % Ids
      /\ desync' = (desync \/ n < claim \/ (respQueues > 0 /\ pushPtr = pullPtr))
      /\ UNCHANGED <<lockVars, pullPtr, reader>>

\* copy_resp_to_buf(), lines 118-164: got quadlets have arrived, the first of
\* them states the length claim.
PushResponse(claim, got) ==
  LET n == IF claim < got THEN claim ELSE got
  IN  /\ n <= Capacity /\ respQueues < MaxQueues
      /\ ring' = Written(nextId, claim, n)
      /\ pushPtr' = Advance(pushPtr, n)
      /\ respQueues' = respQueues + 1
      /\ reader' = WakeAll
      /\ unread' = Append(unread, [id |-> nextId, len |-> claim, stored |-> n])
      /\ nextId' = (nextId + 1) % Ids
      /\ desync' = (desync \/ n < claim \/ (respQueues > 0 /\ pushPtr = pullPtr))
      /\ UNCHANGED <<lockVars, pullPtr>>

----------------------------------------------------------------------------
(* hwdep_read(), lines 95-122 *)

\* Lines 39-69: after[n] is how far a read of size quadlets has got after n
\* responses; each states its length in the ring, and the first that does not
\* fit ends the read.
DrainSteps(size) ==
  LET after[n \in 0 .. respQueues] ==
        IF n = 0 THEN [pull |-> pullPtr, room |-> size, n |-> 0, full |-> FALSE]
        ELSE LET s   == after[n - 1]
                 len == ring[s.pull].len
             IN  IF s.full \/ s.room < len THEN [s EXCEPT !.full = TRUE]
                 ELSE [pull |-> Advance(s.pull, len), room |-> s.room - len,
                       n |-> n, full |-> FALSE]
  IN  after

Drained(size) == DrainSteps(size)[respQueues]

\* n responses leave the ring, which is then read from p.
Consume(n, p) ==
  /\ pullPtr' = p
  /\ respQueues' = respQueues - n
  /\ unread' = SubSeq(unread, n + 1, Len(unread))
  /\ UNCHANGED <<ring, pushPtr, nextId>>

\* hwdep_read_resp_buf(), lines 22-73.  A buffer that is too small for a
\* header gets -ENOSPC and consumes nothing.
ReadResponses(size) ==
  /\ IF size < HeaderLen THEN Consume(0, pullPtr)
     ELSE Consume(Drained(size).n, Drained(size).pull)
  /\ UNCHANGED desync

\* Line 56: copy_to_user() fails.  The responses copied before are gone all
\* the same; when the one being copied wraps around the end of the ring, its
\* first part may be gone as well, and resp_queues still counts it.
ReadFaults(size) ==
  /\ size >= HeaderLen
  /\ \E n \in 0 .. Drained(size).n - 1 :
       LET s == DrainSteps(size)[n]
       IN  \/ Consume(n, s.pull) /\ UNCHANGED desync
           \/ /\ s.pull + ring[s.pull].len > RingSize
              /\ Consume(n, 0)
              /\ desync' = TRUE

Readable == devLockChanged \/ respQueues > 0

\* The part of the loop under the spinlock, lines 101-119, for a reader that
\* enters or has been woken: take an event, or prepare to sleep.
ReadEvent(r) ==
  /\ reader[r] # "asleep"
  /\ Readable
  /\ reader' = [reader EXCEPT ![r] = "out"]
  /\ IF devLockChanged
       THEN ReadLocked /\ UNCHANGED <<ringVars, ghostVars>>
       ELSE /\ \E size \in ReadSizes : ReadResponses(size) \/ ReadFaults(size)
            /\ UNCHANGED lockVars

ReadSleeps(r) ==
  /\ reader[r] # "asleep"
  /\ ~Readable
  /\ reader' = [reader EXCEPT ![r] = "asleep"]
  /\ UNCHANGED <<lockVars, ringVars, ghostVars>>

\* Lines 107-108: a signal ends the wait.
ReadInterrupted(r) ==
  /\ reader[r] \in {"asleep", "woken"}
  /\ reader' = [reader EXCEPT ![r] = "out"]
  /\ UNCHANGED <<lockVars, ringVars, ghostVars>>

----------------------------------------------------------------------------

\* snd_efw_stream_lock_changed(), lines 331-335, wakes the readers.
LockStep ==
  /\ \/ \E s \in Substreams : StreamLockTry(s) \/ StreamLockRelease(s)
     \/ HwdepLock \/ HwdepUnlock
  /\ reader' = IF devLockChanged' /\ ~devLockChanged THEN WakeAll ELSE reader
  /\ UNCHANGED <<ringVars, ghostVars>>

HwdepNext ==
  \/ \E claim, got \in ResponseLens : PushResponse(claim, got)
  \/ \E r \in Readers : ReadEvent(r) \/ ReadSleeps(r) \/ ReadInterrupted(r)
  \/ LockStep

HwdepSpec == HwdepInit /\ [][HwdepNext]_hwdepVars

----------------------------------------------------------------------------
(* Properties *)

\* Where response j of unread begins, counted from pull_ptr.
Offset(j) ==
  LET start[i \in 1 .. j] == IF i = 1 THEN 0 ELSE start[i - 1] + unread[i - 1].stored
  IN  start[j]

\* The ring is the queue it stands for, across every wrap of both pointers:
\* from pull_ptr to push_ptr it holds the unread responses, whole and in the
\* order in which they came, and resp_queues counts them.  (Unless one has
\* been overwritten, truncated or torn: see PushResponse and ReadFaults.)
RingHoldsUnread ==
  ~desync =>
    /\ respQueues = Len(unread)
    /\ pushPtr = Advance(pullPtr, Offset(Len(unread) + 1))
    /\ \A j \in 1 .. Len(unread) : \A k \in 1 .. unread[j].len :
         ring[Advance(pullPtr, Offset(j) + k - 1)]
           = Quadlet(unread[j].id, k, unread[j].len)

\* A thread only sleeps in read() while there is nothing to read: neither a
\* response nor a lock change that arrives at the wrong moment is missed.
NoMissedWakeup == \A r \in Readers : reader[r] = "asleep" => ~Readable
=============================================================================
