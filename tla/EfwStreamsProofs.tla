--------------------------- MODULE EfwStreamsProofs ---------------------------
(***************************************************************************)
(* Proofs about EfwStreams, for any counters, errors and bus resets.       *)
(*                                                                         *)
(* What the holder of efw->mutex has still to do, todo, is always one of a *)
(* few dozen plans: Plan.  Now, its first step, tells how far the          *)
(* operation has come, and the other parts of the invariant say what holds *)
(* there: of context and connection (Matching), of the streams the update  *)
(* handler gives up (GiveUp), of the counters and of the streams without a *)
(* user (Used), of the streams a start has left running (Began) and of the *)
(* PCM substreams of dead streams (Died).                                  *)
(***************************************************************************)
EXTENDS EfwStreams, SequenceTheorems, TLAPS

Steps == {"abort", "destroy", "clear", "break", "establish", "queue", "go", "wait", "enter",
          "errors", "rate", "master", "slave", "stop"} \X {"tx", "rx", "both"}

Push(x, K) == <<x>> \o K

Slave == Push(<<"slave", "rx">>, <<>>)
Master == Push(<<"master", "tx">>, Slave)
Rate == Push(<<"rate", "both">>, Master)
ErrorsTx == Push(<<"errors", "tx">>, Rate)
ErrorsRx == Push(<<"errors", "rx">>, ErrorsTx)
Begin == Push(<<"enter", "both">>, ErrorsRx)
StopTx == Push(<<"stop", "tx">>, <<>>)
StopRx == Push(<<"stop", "rx">>, <<>>)

Breaking(s, K) == Push(<<"break", s>>, K)
Clearing(s, K) == Push(<<"clear", s>>, Breaking(s, K))
Destroying(s, K) == Push(<<"destroy", s>>, Breaking(s, K))
Aborting(s, K) == Push(<<"abort", s>>, Destroying(s, K))
Waiting(s, K) == Push(<<"wait", s>>, K)
Going(s, K) == Push(<<"go", s>>, Waiting(s, K))
Queueing(s, K) == Push(<<"queue", s>>, Going(s, K))
Connecting(s, K) == Push(<<"establish", s>>, Queueing(s, K))

Is(q, step, s, rest) ==
  q \in Seq(Steps) /\ q # <<>> /\ Head(q) = <<step, s>> /\ Tail(q) = rest

\* A sequence with a step in front of it
LEMMA PushIs ==
  ASSUME NEW x \in Steps, NEW K \in Seq(Steps)
  PROVE  /\ Push(x, K) \in Seq(Steps) /\ Push(x, K) # <<>>
         /\ Head(Push(x, K)) = x /\ Tail(Push(x, K)) = K
<1>1. <<x>> \in Seq(Steps) /\ Len(<<x>>) = 1 /\ <<x>>[1] = x
  OBVIOUS
<1>2. Push(x, K) \in Seq(Steps)
  BY <1>1, ConcatProperties DEF Push
<1>3. Len(Push(x, K)) = 1 + Len(K)
  BY <1>1, ConcatProperties DEF Push
<1>4. \A i \in 1 .. 1 + Len(K) : Push(x, K)[i] = IF i <= 1 THEN <<x>>[i] ELSE K[i - 1]
  BY <1>1, ConcatProperties DEF Push
<1>5. Len(K) \in Nat
  OBVIOUS
<1>6. Push(x, K) # <<>>
  BY <1>2, <1>3, <1>5
<1>7. Head(Push(x, K)) = x
  BY <1>1, <1>2, <1>3, <1>4, <1>5
<1>8. Tail(Push(x, K)) \in Seq(Steps) /\ Len(Tail(Push(x, K))) = Len(K)
      /\ \A i \in 1 .. Len(K) : Tail(Push(x, K))[i] = Push(x, K)[i + 1]
  BY <1>2, <1>3, <1>5, <1>6, HeadTailProperties
<1>9. Tail(Push(x, K)) = K
  <2>1. \A i \in 1 .. Len(K) : Tail(Push(x, K))[i] = K[i]
    BY <1>4, <1>5, <1>8
  <2> QED
    BY <2>1, <1>8, SeqEqual
<1> QED BY <1>2, <1>6, <1>7, <1>9
\* Appending goes on behind the first step.
LEMMA PushMore ==
  ASSUME NEW x \in Steps, NEW K \in Seq(Steps), NEW M \in Seq(Steps)
  PROVE  Push(x, K) \o M = Push(x, K \o M) /\ K \o M \in Seq(Steps)
<1>1. <<x>> \in Seq(Steps)
  OBVIOUS
<1> QED BY <1>1, ConcatAssociative, ConcatProperties DEF Push

\* A sequence that is not empty is its first step in front of the rest.
LEMMA PushOf ==
  ASSUME NEW q \in Seq(Steps), q # <<>>
  PROVE  Head(q) \in Steps /\ Tail(q) \in Seq(Steps) /\ q = Push(Head(q), Tail(q))
<1>1. /\ Head(q) \in Steps /\ Tail(q) \in Seq(Steps)
      /\ Len(Tail(q)) = Len(q) - 1 /\ Len(q) \in Nat \ {0}
      /\ \A i \in 1 .. Len(Tail(q)) : Tail(q)[i] = q[i + 1]
  BY HeadTailProperties, EmptySeq
<1>2. <<Head(q)>> \in Seq(Steps) /\ Len(<<Head(q)>>) = 1 /\ <<Head(q)>>[1] = q[1]
  BY <1>1
<1>3. /\ Push(Head(q), Tail(q)) \in Seq(Steps)
      /\ Len(Push(Head(q), Tail(q))) = 1 + Len(Tail(q))
      /\ \A i \in 1 .. 1 + Len(Tail(q)) :
           Push(Head(q), Tail(q))[i] = IF i <= 1 THEN q[1] ELSE Tail(q)[i - 1]
  BY <1>1, <1>2, ConcatProperties DEF Push
<1>4. \A i \in 1 .. Len(q) : Push(Head(q), Tail(q))[i] = q[i]
  BY <1>1, <1>3
<1> QED BY <1>1, <1>3, <1>4, SeqEqual

\* Literal sequences, step by step
LEMMA PushTwo ==
  ASSUME NEW x \in Steps, NEW y \in Steps, NEW K \in Seq(Steps)
  PROVE  <<x, y>> \o K = Push(x, Push(y, K))
<1>1. <<x, y>> \in Seq(Steps) /\ <<x, y>> # <<>>
  OBVIOUS
<1>2. Head(<<x, y>>) = x /\ Tail(<<x, y>>) = <<y>>
  OBVIOUS
<1>3. <<x, y>> = Push(x, <<y>>) /\ <<y>> \in Seq(Steps)
  BY <1>1, <1>2, PushOf
<1>4. <<y>> \o K = Push(y, K)
  BY DEF Push
<1>5. Push(x, <<y>>) \o K = Push(x, <<y>> \o K)
  BY <1>3, PushMore
<1> QED BY <1>3, <1>4, <1>5

LEMMA PushThree ==
  ASSUME NEW x \in Steps, NEW y \in Steps, NEW z \in Steps, NEW K \in Seq(Steps)
  PROVE  <<x, y, z>> \o K = Push(x, Push(y, Push(z, K)))
<1>1. <<x, y, z>> \in Seq(Steps) /\ <<x, y, z>> # <<>>
  OBVIOUS
<1>2. Head(<<x, y, z>>) = x /\ Tail(<<x, y, z>>) = <<y, z>>
  OBVIOUS
<1>3. <<x, y, z>> = Push(x, <<y, z>>) /\ <<y, z>> \in Seq(Steps)
  BY <1>1, <1>2, PushOf
<1>4. Push(x, <<y, z>>) \o K = Push(x, <<y, z>> \o K)
  BY <1>3, PushMore
<1> QED BY <1>3, <1>4, PushTwo

LEMMA PushFour ==
  ASSUME NEW x \in Steps, NEW y \in Steps, NEW z \in Steps, NEW w \in Steps, NEW K \in Seq(Steps)
  PROVE  <<x, y, z, w>> \o K = Push(x, Push(y, Push(z, Push(w, K))))
<1>1. <<x, y, z, w>> \in Seq(Steps) /\ <<x, y, z, w>> # <<>>
  OBVIOUS
<1>2. Head(<<x, y, z, w>>) = x /\ Tail(<<x, y, z, w>>) = <<y, z, w>>
  OBVIOUS
<1>3. <<x, y, z, w>> = Push(x, <<y, z, w>>) /\ <<y, z, w>> \in Seq(Steps)
  BY <1>1, <1>2, PushOf
<1>4. Push(x, <<y, z, w>>) \o K = Push(x, <<y, z, w>> \o K)
  BY <1>3, PushMore
<1>5. <<y, z, w>> \o K = Push(y, Push(z, Push(w, K)))
  BY PushThree
<1> QED BY <1>3, <1>4, <1>5

\* The calls of the model, prepended to a sequence, are the named plans.
LEMMA Calls ==
  ASSUME NEW s \in Streams, NEW K \in Seq(Steps)
  PROVE  /\ StopStream(s) \o K = Aborting(s, K)
         /\ StartStream(s) \o K = Connecting(s, K)
         /\ <<<<"clear", s>>>> \o Breaking(s, K) = Clearing(s, K)
<1>1. /\ <<"abort", s>> \in Steps /\ <<"destroy", s>> \in Steps /\ <<"break", s>> \in Steps
      /\ <<"establish", s>> \in Steps /\ <<"queue", s>> \in Steps
      /\ <<"go", s>> \in Steps /\ <<"wait", s>> \in Steps
  BY DEF Steps, Streams
<1>2. StopStream(s) \o K = Aborting(s, K)
  <2>1. PICK a \in Steps, d \in Steps, b \in Steps :
          a = <<"abort", s>> /\ d = <<"destroy", s>> /\ b = <<"break", s>>
    BY <1>1
  <2>2. <<a, d, b>> \o K = Push(a, Push(d, Push(b, K)))
    BY PushThree
  <2>3. StopStream(s) = <<a, d, b>>
    BY <2>1 DEF StopStream
  <2> QED
    BY <2>1, <2>2, <2>3 DEF Aborting, Destroying, Breaking
<1>3. StartStream(s) \o K = Connecting(s, K)
  <2>1. PICK e \in Steps, q \in Steps, g \in Steps, w \in Steps :
          /\ e = <<"establish", s>> /\ q = <<"queue", s>>
          /\ g = <<"go", s>> /\ w = <<"wait", s>>
    BY <1>1
  <2>2. <<e, q, g, w>> \o K = Push(e, Push(q, Push(g, Push(w, K))))
    BY PushFour
  <2>3. StartStream(s) = <<e, q, g, w>>
    BY <2>1 DEF StartStream
  <2> QED
    BY <2>1, <2>2, <2>3 DEF Connecting, Queueing, Going, Waiting
<1> QED BY <1>2, <1>3 DEF Clearing, Push

Stopping(s, K) == {Aborting(s, K), Destroying(s, K), Clearing(s, K), Breaking(s, K)}
Starting(s, K) == {Connecting(s, K), Queueing(s, K), Going(s, K), Waiting(s, K)}

BothStop(K) == Stopping("rx", Aborting("tx", K)) \cup Stopping("tx", K)

StartPlans ==
  {<<>>, Begin, ErrorsRx, ErrorsTx, Rate, Master, Slave}
    \cup Stopping("rx", ErrorsTx) \cup Stopping("tx", Rate) \cup BothStop(Master)
    \cup Starting("tx", Slave) \cup Starting("rx", <<>>)
FailPlans == {<<>>} \cup BothStop(<<>>)
StopPlans ==
  {<<>>, StopRx, StopTx} \cup Stopping("rx", StopTx) \cup Stopping("tx", <<>>)

Plans(op, fails) ==
  IF op = "stop" THEN StopPlans
  ELSE IF op = "start" /\ ~fails THEN StartPlans ELSE FailPlans

Plan ==
  /\ holder = Nobody => todo = <<>>
  /\ holder # Nobody => want[holder] \in {"start", "stop", "giveup"}
                        /\ todo \in Plans(want[holder], failed)

First(q) == IF q = <<>> THEN <<"none", "both">> ELSE Head(q)
Now == First(todo)

Conts == {<<>>, Slave, Master, Rate, ErrorsTx, StopTx, Aborting("tx", <<>>), Aborting("tx", Master)}

\* Where the plans of start_duplex() and stop_duplex() begin
LEMMA Heads ==
  /\ Is(Slave, "slave", "rx", <<>>)
  /\ Is(Master, "master", "tx", Slave)
  /\ Is(Rate, "rate", "both", Master)
  /\ Is(ErrorsTx, "errors", "tx", Rate)
  /\ Is(ErrorsRx, "errors", "rx", ErrorsTx)
  /\ Is(Begin, "enter", "both", ErrorsRx)
  /\ Is(StopTx, "stop", "tx", <<>>)
  /\ Is(StopRx, "stop", "rx", <<>>)
<1>1. <<>> \in Seq(Steps)
  OBVIOUS
<1>2. Is(Slave, "slave", "rx", <<>>)
  BY <1>1, PushIs DEF Is, Slave, Steps
<1>3. Is(Master, "master", "tx", Slave)
  BY <1>2, PushIs DEF Is, Master, Steps
<1>4. Is(Rate, "rate", "both", Master)
  BY <1>3, PushIs DEF Is, Rate, Steps
<1>5. Is(ErrorsTx, "errors", "tx", Rate)
  BY <1>4, PushIs DEF Is, ErrorsTx, Steps
<1>6. Is(ErrorsRx, "errors", "rx", ErrorsTx)
  BY <1>5, PushIs DEF Is, ErrorsRx, Steps
<1>7. Is(Begin, "enter", "both", ErrorsRx)
  BY <1>6, PushIs DEF Is, Begin, Steps
<1>8. Is(StopTx, "stop", "tx", <<>>) /\ Is(StopRx, "stop", "rx", <<>>)
  BY <1>1, PushIs DEF Is, StopTx, StopRx, Steps
<1>9. QED
  BY <1>2, <1>3, <1>4, <1>5, <1>6, <1>7, <1>8

\* Where the plans inside start_stream() and stop_stream() begin
LEMMA CallHeads ==
  ASSUME NEW s \in Streams, NEW K \in Seq(Steps)
  PROVE  /\ Is(Aborting(s, K), "abort", s, Destroying(s, K))
         /\ Is(Destroying(s, K), "destroy", s, Breaking(s, K))
         /\ Is(Clearing(s, K), "clear", s, Breaking(s, K))
         /\ Is(Breaking(s, K), "break", s, K)
         /\ Is(Connecting(s, K), "establish", s, Queueing(s, K))
         /\ Is(Queueing(s, K), "queue", s, Going(s, K))
         /\ Is(Going(s, K), "go", s, Waiting(s, K))
         /\ Is(Waiting(s, K), "wait", s, K)
<1>1. \A p \in {"abort", "destroy", "clear", "break", "establish", "queue", "go", "wait"} :
         <<p, s>> \in Steps
  BY DEF Steps, Streams
<1>2. \A p \in {"abort", "destroy", "clear", "break", "establish", "queue", "go", "wait"}, M \in Seq(Steps) :
         Is(Push(<<p, s>>, M), p, s, M)
  BY <1>1, PushIs DEF Is
<1>3. Is(Breaking(s, K), "break", s, K) /\ Breaking(s, K) \in Seq(Steps)
  BY <1>2 DEF Is, Breaking
<1>4. /\ Is(Clearing(s, K), "clear", s, Breaking(s, K))
      /\ Is(Destroying(s, K), "destroy", s, Breaking(s, K)) /\ Destroying(s, K) \in Seq(Steps)
  BY <1>2, <1>3 DEF Is, Clearing, Destroying
<1>5. Is(Aborting(s, K), "abort", s, Destroying(s, K))
  BY <1>2, <1>4 DEF Is, Aborting
<1>6. Is(Waiting(s, K), "wait", s, K) /\ Waiting(s, K) \in Seq(Steps)
  BY <1>2 DEF Is, Waiting
<1>7. Is(Going(s, K), "go", s, Waiting(s, K)) /\ Going(s, K) \in Seq(Steps)
  BY <1>2, <1>6 DEF Is, Going
<1>8. Is(Queueing(s, K), "queue", s, Going(s, K)) /\ Queueing(s, K) \in Seq(Steps)
  BY <1>2, <1>7 DEF Is, Queueing
<1>9. Is(Connecting(s, K), "establish", s, Queueing(s, K))
  BY <1>2, <1>8 DEF Is, Connecting
<1> QED BY <1>3, <1>4, <1>5, <1>6, <1>7, <1>8, <1>9

\* What may follow a call is a sequence of steps.
LEMMA ContsAre == \A K \in Conts : K \in Seq(Steps)
<1>1. <<>> \in Seq(Steps)
  OBVIOUS
<1>2. Master \in Seq(Steps)
  BY Heads DEF Is
<1>3. Aborting("tx", <<>>) \in Seq(Steps) /\ Aborting("tx", Master) \in Seq(Steps)
  BY <1>1, <1>2, CallHeads DEF Is, Streams
<1> QED BY <1>1, <1>3, Heads DEF Is, Conts

\* Inside stop_stream() the first step tells which plan it is.
LEMMA StopHeads ==
  ASSUME NEW s \in Streams, NEW K \in Seq(Steps), NEW q \in Stopping(s, K)
  PROVE  /\ q # <<>> /\ Head(q)[1] \in {"abort", "destroy", "clear", "break"} /\ Head(q)[2] = s
         /\ Head(q) = <<"abort", s>> => q = Aborting(s, K) /\ Tail(q) = Destroying(s, K)
         /\ Head(q) = <<"destroy", s>> => q = Destroying(s, K) /\ Tail(q) = Breaking(s, K)
         /\ Head(q) = <<"clear", s>> => q = Clearing(s, K) /\ Tail(q) = Breaking(s, K)
         /\ Head(q) = <<"break", s>> => q = Breaking(s, K) /\ Tail(q) = K
<1>1. \/ q = Aborting(s, K) \/ q = Destroying(s, K) \/ q = Clearing(s, K) \/ q = Breaking(s, K)
  BY DEF Stopping
<1>2. /\ Is(Aborting(s, K), "abort", s, Destroying(s, K))
      /\ Is(Destroying(s, K), "destroy", s, Breaking(s, K))
      /\ Is(Clearing(s, K), "clear", s, Breaking(s, K)) /\ Is(Breaking(s, K), "break", s, K)
  BY CallHeads
<1>3. Head(q) \in {<<"abort", s>>, <<"destroy", s>>, <<"clear", s>>, <<"break", s>>} /\ q # <<>>
  BY <1>1, <1>2 DEF Is
<1>4. Head(q)[1] \in {"abort", "destroy", "clear", "break"} /\ Head(q)[2] = s
  BY <1>3
<1>5. CASE q = Aborting(s, K)
  BY <1>2, <1>3, <1>4, <1>5 DEF Is
<1>6. CASE q = Destroying(s, K)
  BY <1>2, <1>3, <1>4, <1>6 DEF Is
<1>7. CASE q = Clearing(s, K)
  BY <1>2, <1>3, <1>4, <1>7 DEF Is
<1>8. CASE q = Breaking(s, K)
  BY <1>2, <1>3, <1>4, <1>8 DEF Is
<1> QED BY <1>1, <1>5, <1>6, <1>7, <1>8

\* The same inside start_stream()
LEMMA StartHeads ==
  ASSUME NEW s \in Streams, NEW K \in Seq(Steps), NEW q \in Starting(s, K)
  PROVE  /\ q # <<>> /\ Head(q)[1] \in {"establish", "queue", "go", "wait"} /\ Head(q)[2] = s
         /\ Head(q) = <<"establish", s>> => q = Connecting(s, K) /\ Tail(q) = Queueing(s, K)
         /\ Head(q) = <<"queue", s>> => q = Queueing(s, K) /\ Tail(q) = Going(s, K)
         /\ Head(q) = <<"go", s>> => q = Going(s, K) /\ Tail(q) = Waiting(s, K)
         /\ Head(q) = <<"wait", s>> => q = Waiting(s, K) /\ Tail(q) = K
<1>1. \/ q = Connecting(s, K) \/ q = Queueing(s, K) \/ q = Going(s, K) \/ q = Waiting(s, K)
  BY DEF Starting
<1>2. /\ Is(Connecting(s, K), "establish", s, Queueing(s, K))
      /\ Is(Queueing(s, K), "queue", s, Going(s, K))
      /\ Is(Going(s, K), "go", s, Waiting(s, K)) /\ Is(Waiting(s, K), "wait", s, K)
  BY CallHeads
<1>3. Head(q) \in {<<"establish", s>>, <<"queue", s>>, <<"go", s>>, <<"wait", s>>} /\ q # <<>>
  BY <1>1, <1>2 DEF Is
<1>4. Head(q)[1] \in {"establish", "queue", "go", "wait"} /\ Head(q)[2] = s
  BY <1>3
<1>5. CASE q = Connecting(s, K)
  BY <1>2, <1>3, <1>4, <1>5 DEF Is
<1>6. CASE q = Queueing(s, K)
  BY <1>2, <1>3, <1>4, <1>6 DEF Is
<1>7. CASE q = Going(s, K)
  BY <1>2, <1>3, <1>4, <1>7 DEF Is
<1>8. CASE q = Waiting(s, K)
  BY <1>2, <1>3, <1>4, <1>8 DEF Is
<1> QED BY <1>1, <1>5, <1>6, <1>7, <1>8

\* What follows when stop_stream() returns
After(s, op, fails) ==
  IF op = "start" /\ ~fails
  THEN IF s = "tx" THEN {<<"rate", "both">>, <<"master", "tx">>}
       ELSE {<<"errors", "tx">>, <<"abort", "tx">>}
  ELSE IF s = "tx" THEN {<<"none", "both">>}
  ELSE IF op = "stop" THEN {<<"stop", "tx">>} ELSE {<<"abort", "tx">>}

\* The first step of what may follow
LEMMA ContFirst ==
  /\ First(<<>>) = <<"none", "both">> /\ First(Slave) = <<"slave", "rx">>
  /\ First(Master) = <<"master", "tx">> /\ First(Rate) = <<"rate", "both">>
  /\ First(ErrorsTx) = <<"errors", "tx">> /\ First(StopTx) = <<"stop", "tx">>
  /\ First(ErrorsRx) = <<"errors", "rx">> /\ First(StopRx) = <<"stop", "rx">>
  /\ First(Begin) = <<"enter", "both">>
  /\ \A K \in {<<>>, Master} :
       First(Aborting("tx", K)) = <<"abort", "tx">> /\ Aborting("tx", K) \in Stopping("tx", K)
<1>1. \A K \in {<<>>, Master} : K \in Seq(Steps)
  BY ContsAre DEF Conts
<1>2. \A K \in {<<>>, Master} : First(Aborting("tx", K)) = <<"abort", "tx">>
  BY <1>1, CallHeads DEF First, Is, Streams
<1> QED BY <1>2, Heads DEF First, Is, Stopping

\* What follows a call of stop_stream() is a plan of the same operation.
LEMMA PlanStop ==
  ASSUME NEW op, NEW fails, NEW q \in Plans(op, fails), NEW s \in Streams,
         q # <<>>, Head(q)[1] \in {"abort", "destroy", "clear", "break"}, Head(q)[2] = s
  PROVE  \E K \in Conts :
           /\ q \in Stopping(s, K) /\ Stopping(s, K) \subseteq Plans(op, fails)
           /\ K \in Plans(op, fails) /\ First(K) \in After(s, op, fails)
<1> DEFINE Ok(t, K) == q \in Stopping(t, K) /\ t = s =>
           /\ Stopping(s, K) \subseteq Plans(op, fails)
           /\ K \in Plans(op, fails) /\ First(K) \in After(s, op, fails)
<1>1. CASE op = "start" /\ ~fails
  <2>1. Plans(op, fails) = StartPlans
    BY <1>1 DEF Plans
  <2>2. q \in {<<>>, Begin, ErrorsRx, ErrorsTx, Rate, Master, Slave} \cup Starting("tx", Slave) \cup Starting("rx", <<>>)
        \/ q \in Stopping("rx", ErrorsTx) \/ q \in Stopping("tx", Rate)
        \/ q \in Stopping("rx", Aborting("tx", Master)) \/ q \in Stopping("tx", Master)
    BY <2>1 DEF StartPlans, BothStop
  <2>3. q \notin {<<>>, Begin, ErrorsRx, ErrorsTx, Rate, Master, Slave}
    BY Heads DEF Is
  <2>4. q \notin Starting("tx", Slave) \cup Starting("rx", <<>>)
    BY StartHeads, ContsAre DEF Conts, Streams
  <2>5. \/ s = "rx" /\ (q \in Stopping("rx", ErrorsTx) \/ q \in Stopping("rx", Aborting("tx", Master)))
        \/ s = "tx" /\ (q \in Stopping("tx", Rate) \/ q \in Stopping("tx", Master))
    BY <2>2, <2>3, <2>4, StopHeads, ContsAre DEF Conts, Streams
  <2>6. /\ Stopping("rx", ErrorsTx) \subseteq StartPlans
        /\ Stopping("tx", Rate) \subseteq StartPlans
        /\ Stopping("rx", Aborting("tx", Master)) \subseteq StartPlans
        /\ Stopping("tx", Master) \subseteq StartPlans
        /\ ErrorsTx \in StartPlans /\ Rate \in StartPlans /\ Master \in StartPlans
        /\ Aborting("tx", Master) \in StartPlans
    BY DEF StartPlans, BothStop, Stopping
  <2> QED
    BY <1>1, <2>1, <2>5, <2>6, ContFirst DEF After, Conts
<1>2. CASE op = "stop"
  <2>1. Plans(op, fails) = StopPlans
    BY <1>2 DEF Plans
  <2>2. q \notin {<<>>, StopRx, StopTx}
    BY Heads DEF Is
  <2>3. q \in Stopping("rx", StopTx) \/ q \in Stopping("tx", <<>>)
    BY <2>1, <2>2 DEF StopPlans
  <2>4. \/ s = "rx" /\ q \in Stopping("rx", StopTx)
        \/ s = "tx" /\ q \in Stopping("tx", <<>>)
    <3>1. <<>> \in Seq(Steps) /\ StopTx \in Seq(Steps)
      BY ContsAre DEF Conts
    <3>2. CASE q \in Stopping("rx", StopTx)
      BY <3>1, <3>2, StopHeads DEF Streams
    <3>3. CASE q \in Stopping("tx", <<>>)
      BY <3>1, <3>3, StopHeads DEF Streams
    <3> QED BY <2>3, <3>2, <3>3
  <2> QED
    BY <1>2, <2>1, <2>4, ContFirst DEF After, Conts, StopPlans
<1>3. CASE op # "stop" /\ ~(op = "start" /\ ~fails)
  <2>1. Plans(op, fails) = FailPlans
    BY <1>3 DEF Plans
  <2>3. q \in Stopping("rx", Aborting("tx", <<>>)) \/ q \in Stopping("tx", <<>>)
    BY <2>1 DEF FailPlans, BothStop
  <2>0. <<>> \in Seq(Steps) /\ Aborting("tx", <<>>) \in Seq(Steps)
    BY ContsAre DEF Conts
  <2>4. \/ s = "rx" /\ q \in Stopping("rx", Aborting("tx", <<>>))
        \/ s = "tx" /\ q \in Stopping("tx", <<>>)
    BY <2>0, <2>3, StopHeads DEF Streams
  <2>5. Aborting("tx", <<>>) \in FailPlans
    BY DEF FailPlans, BothStop, Stopping
  <2> QED
    BY <1>3, <2>1, <2>4, <2>5, ContFirst DEF After, Conts, FailPlans, BothStop
<1> QED BY <1>1, <1>2, <1>3

\* start_stream() is only called by an operation that has not failed.
LEMMA PlanStart ==
  ASSUME NEW op, NEW fails, NEW q \in Plans(op, fails), NEW s \in Streams,
         q # <<>>, Head(q)[1] \in {"establish", "queue", "go", "wait"}, Head(q)[2] = s
  PROVE  /\ op = "start" /\ ~fails
         /\ \E K \in Conts :
              /\ q \in Starting(s, K) /\ Starting(s, K) \subseteq StartPlans /\ K \in StartPlans
              /\ First(K) = IF s = "tx" THEN <<"slave", "rx">> ELSE <<"none", "both">>
<1>1. q \notin Stopping("rx", ErrorsTx) \cup Stopping("tx", Rate) \cup Stopping("tx", Master)
        \cup Stopping("rx", Aborting("tx", Master)) \cup Stopping("rx", StopTx) \cup Stopping("tx", <<>>)
        \cup Stopping("rx", Aborting("tx", <<>>))
  BY StopHeads, ContsAre DEF Conts, Streams
<1>2. q \notin {<<>>, Begin, ErrorsRx, ErrorsTx, Rate, Master, Slave, StopRx, StopTx}
  BY Heads DEF Is
<1>3. q \in StartPlans /\ op = "start" /\ ~fails
  BY <1>1, <1>2 DEF Plans, FailPlans, StopPlans, BothStop
<1>4. q \in Starting("tx", Slave) \/ q \in Starting("rx", <<>>)
  BY <1>1, <1>2, <1>3 DEF StartPlans, BothStop
<1>0. <<>> \in Seq(Steps) /\ Slave \in Seq(Steps)
  BY ContsAre DEF Conts
<1>5. \/ s = "tx" /\ q \in Starting("tx", Slave)
      \/ s = "rx" /\ q \in Starting("rx", <<>>)
  <2>1. CASE q \in Starting("tx", Slave)
    BY <1>0, <2>1, StartHeads DEF Streams
  <2>2. CASE q \in Starting("rx", <<>>)
    BY <1>0, <2>2, StartHeads DEF Streams
  <2> QED BY <1>4, <2>1, <2>2
<1> QED BY <1>3, <1>5, ContFirst DEF Conts, StartPlans

\* Outside of both calls the first step tells the operation and the plan.
LEMMA PlanTop ==
  ASSUME NEW op, NEW fails, NEW q \in Plans(op, fails), q # <<>>,
         Head(q)[1] \in {"enter", "errors", "rate", "master", "slave", "stop"}
  PROVE  \/ /\ op = "stop"
            /\ \/ Head(q) = <<"stop", "rx">> /\ q = StopRx /\ Tail(q) = <<>>
               \/ Head(q) = <<"stop", "tx">> /\ q = StopTx /\ Tail(q) = <<>>
         \/ /\ op = "start" /\ ~fails
            /\ \/ Head(q) = <<"enter", "both">> /\ q = Begin /\ Tail(q) = ErrorsRx
               \/ Head(q) = <<"errors", "rx">> /\ q = ErrorsRx /\ Tail(q) = ErrorsTx
               \/ Head(q) = <<"errors", "tx">> /\ q = ErrorsTx /\ Tail(q) = Rate
               \/ Head(q) = <<"rate", "both">> /\ q = Rate /\ Tail(q) = Master
               \/ Head(q) = <<"master", "tx">> /\ q = Master /\ Tail(q) = Slave
               \/ Head(q) = <<"slave", "rx">> /\ q = Slave /\ Tail(q) = <<>>
<1>1. q \notin Stopping("rx", ErrorsTx) \cup Stopping("tx", Rate) \cup Stopping("tx", Master)
        \cup Stopping("rx", Aborting("tx", Master)) \cup Stopping("rx", StopTx) \cup Stopping("tx", <<>>)
        \cup Stopping("rx", Aborting("tx", <<>>))
  BY StopHeads, ContsAre DEF Conts, Streams
<1>2. q \notin Starting("tx", Slave) \cup Starting("rx", <<>>)
  BY StartHeads, ContsAre DEF Conts, Streams
<1>3. \/ op = "stop" /\ q \in {StopRx, StopTx}
      \/ op = "start" /\ ~fails /\ q \in {Begin, ErrorsRx, ErrorsTx, Rate, Master, Slave}
  BY <1>1, <1>2 DEF Plans, FailPlans, StopPlans, StartPlans, BothStop
<1> QED BY <1>3, Heads DEF Is

----------------------------------------------------------------------------
(* What each step of the holder leaves to do *)

Goes(steps) == Plan' /\ Now' \in steps

\* A new plan of the operation under way
LEMMA PlanKept ==
  ASSUME Plan, holder # Nobody, holder' = holder, want' = want, NEW q \in Plans(want[holder], failed'),
         todo' = q
  PROVE  Plan' /\ Now' = First(q)
BY DEF Plan, Now

\* The steps of stop_stream()
LEMMA StopCallMoves ==
  ASSUME Plan, NEW s \in Streams, UNCHANGED want
  PROVE  /\ At("abort", s) /\ Continue(<<>>) => Goes({<<"destroy", s>>}) /\ UNCHANGED failed
         /\ At("destroy", s) /\ Continue(<<>>) => Goes({<<"break", s>>}) /\ UNCHANGED failed
         /\ At("destroy", s) /\ Continue(<<<<"clear", s>>>>) => Goes({<<"clear", s>>}) /\ UNCHANGED failed
         /\ At("clear", s) /\ Continue(<<>>) => Goes({<<"break", s>>}) /\ UNCHANGED failed
         /\ At("break", s) /\ Continue(<<>>) => Goes(After(s, want[holder], failed)) /\ UNCHANGED failed
<1> SUFFICES ASSUME holder # Nobody, todo # <<>>, UNCHANGED <<holder, failed>>,
                    Head(todo)[1] \in {"abort", "destroy", "clear", "break"}, Head(todo)[2] = s
             PROVE  /\ Head(todo) = <<"abort", s>> /\ todo' = <<>> \o Tail(todo) => Goes({<<"destroy", s>>})
                    /\ Head(todo) = <<"destroy", s>> /\ todo' = <<>> \o Tail(todo) => Goes({<<"break", s>>})
                    /\ Head(todo) = <<"destroy", s>> /\ todo' = <<<<"clear", s>>>> \o Tail(todo) => Goes({<<"clear", s>>})
                    /\ Head(todo) = <<"clear", s>> /\ todo' = <<>> \o Tail(todo) => Goes({<<"break", s>>})
                    /\ Head(todo) = <<"break", s>> /\ todo' = <<>> \o Tail(todo) => Goes(After(s, want[holder], failed))
  BY DEF At, Continue
<1>1. PICK K \in Conts :
        /\ todo \in Stopping(s, K) /\ Stopping(s, K) \subseteq Plans(want[holder], failed)
        /\ K \in Plans(want[holder], failed) /\ First(K) \in After(s, want[holder], failed)
  BY PlanStop DEF Plan
<1>2. K \in Seq(Steps)
  BY ContsAre
<1>3. /\ Head(todo) = <<"abort", s>> => Tail(todo) = Destroying(s, K)
      /\ Head(todo) = <<"destroy", s>> => Tail(todo) = Breaking(s, K)
      /\ Head(todo) = <<"clear", s>> => Tail(todo) = Breaking(s, K)
      /\ Head(todo) = <<"break", s>> => Tail(todo) = K
  BY <1>1, <1>2, StopHeads
<1>4. /\ Is(Destroying(s, K), "destroy", s, Breaking(s, K))
      /\ Is(Clearing(s, K), "clear", s, Breaking(s, K)) /\ Is(Breaking(s, K), "break", s, K)
  BY <1>2, CallHeads
<1>5. /\ <<>> \o Destroying(s, K) = Destroying(s, K) /\ <<>> \o Breaking(s, K) = Breaking(s, K)
      /\ <<>> \o K = K
  BY <1>2, <1>4, ConcatEmptySeq DEF Is
<1>6. <<<<"clear", s>>>> \o Breaking(s, K) = Clearing(s, K)
  BY <1>2, Calls
<1>7. /\ First(Destroying(s, K)) = <<"destroy", s>> /\ First(Breaking(s, K)) = <<"break", s>>
      /\ First(Clearing(s, K)) = <<"clear", s>>
  BY <1>4 DEF First, Is
<1>8. {Destroying(s, K), Breaking(s, K), Clearing(s, K), K} \subseteq Plans(want[holder], failed)
  BY <1>1 DEF Stopping
<1> QED BY <1>3, <1>5, <1>6, <1>7, <1>8, <1>1, PlanKept DEF Goes

\* A call of stop_stream() with nothing behind it
LEMMA StopStreamIs ==
  ASSUME NEW s \in Streams
  PROVE  StopStream(s) = Aborting(s, <<>>) /\ StopStream(s) \in Seq(Steps)
<1>1. <<"abort", s>> \in Steps /\ <<"destroy", s>> \in Steps /\ <<"break", s>> \in Steps
  BY DEF Steps, Streams
<1>2. StopStream(s) \in Seq(Steps)
  BY <1>1 DEF StopStream
<1>3. <<>> \in Seq(Steps)
  OBVIOUS
<1> QED BY <1>2, <1>3, Calls, ConcatEmptySeq

\* Two calls of stop_stream(), of the slave and of the master
LEMMA StopBoth ==
  ASSUME NEW K \in Seq(Steps)
  PROVE  (StopStream("rx") \o StopStream("tx")) \o K = Aborting("rx", Aborting("tx", K))
<1>1. StopStream("rx") \in Seq(Steps) /\ StopStream("tx") \in Seq(Steps)
  BY StopStreamIs DEF Streams
<1>2. StopStream("tx") \o K = Aborting("tx", K) /\ Aborting("tx", K) \in Seq(Steps)
  BY Calls, CallHeads DEF Streams, Is
<1>3. StopStream("rx") \o Aborting("tx", K) = Aborting("rx", Aborting("tx", K))
  BY <1>2, Calls DEF Streams
<1>4. (StopStream("rx") \o StopStream("tx")) \o K = StopStream("rx") \o (StopStream("tx") \o K)
  BY <1>1, ConcatAssociative
<1> QED BY <1>2, <1>3, <1>4

\* start_stream() fails: what there is to undo
LEMMA FailMoves ==
  ASSUME Plan, holder # Nobody, want[holder] = "start", UNCHANGED want, NEW s \in Streams
  PROVE  /\ FailStart(s, StopStream(s)) => Goes({<<"abort", s>>}) /\ failed' = TRUE /\ UNCHANGED holder
         /\ FailStart(s, <<>>) => /\ Goes({IF s = "tx" THEN <<"none", "both">> ELSE <<"abort", "tx">>})
                                  /\ failed' = TRUE /\ UNCHANGED holder
         /\ Fail(<<>>) => Goes({<<"none", "both">>}) /\ failed' = TRUE /\ UNCHANGED holder
<1>1. Plans("start", TRUE) = FailPlans
  BY DEF Plans
<1>2. <<>> \in Seq(Steps)
  OBVIOUS
<1>3. /\ StopStream("tx") \o <<>> = Aborting("tx", <<>>)
      /\ <<>> \o StopStream("tx") = Aborting("tx", <<>>)
  BY <1>2, Calls, StopStreamIs, ConcatEmptySeq DEF Streams
<1>4. StopStream("rx") \o StopStream("tx") = Aborting("rx", Aborting("tx", <<>>))
  <2>1. StopStream("rx") \o Aborting("tx", <<>>) = Aborting("rx", Aborting("tx", <<>>))
    BY StopStreamIs, Calls DEF Streams
  <2> QED BY <2>1, StopStreamIs DEF Streams
<1>5. <<>> \o <<>> = <<>>
  BY <1>2, ConcatEmptySeq
<1>6. /\ Aborting("tx", <<>>) \in FailPlans /\ <<>> \in FailPlans
      /\ Aborting("rx", Aborting("tx", <<>>)) \in FailPlans
  BY DEF FailPlans, BothStop, Stopping
<1>7. /\ First(<<>>) = <<"none", "both">> /\ First(Aborting("tx", <<>>)) = <<"abort", "tx">>
      /\ First(Aborting("rx", Aborting("tx", <<>>))) = <<"abort", "rx">>
  <2>1. Aborting("tx", <<>>) \in Seq(Steps)
    BY StopStreamIs DEF Streams
  <2> QED BY <2>1, <1>2, CallHeads DEF First, Is, Streams
<1>8. ASSUME NEW undo, Fail(undo), undo \in FailPlans
      PROVE  Goes({First(undo)}) /\ failed' = TRUE /\ UNCHANGED holder
  BY <1>1, <1>8, PlanKept DEF Fail, Goes
<1> QED BY <1>3, <1>4, <1>5, <1>6, <1>7, <1>8 DEF FailStart, Streams

\* The steps of start_stream() that do not fail
LEMMA StartCallMoves ==
  ASSUME Plan, NEW s \in Streams, UNCHANGED want,
         Now[1] \in {"establish", "queue", "go", "wait"}, Now[2] = s, holder # Nobody
  PROVE  /\ want[holder] = "start" /\ ~failed
         /\ At("establish", s) /\ Continue(<<>>) => Goes({<<"queue", s>>}) /\ UNCHANGED failed
         /\ At("queue", s) /\ Continue(<<>>) => Goes({<<"go", s>>}) /\ UNCHANGED failed
         /\ At("go", s) /\ Continue(<<>>) => Goes({<<"wait", s>>}) /\ UNCHANGED failed
         /\ At("wait", s) /\ Continue(<<>>) =>
              /\ Goes({IF s = "tx" THEN <<"slave", "rx">> ELSE <<"none", "both">>})
              /\ UNCHANGED failed
<1>0. todo # <<>> /\ Head(todo)[1] \in {"establish", "queue", "go", "wait"} /\ Head(todo)[2] = s
  BY DEF Now, First
<1>1. want[holder] = "start" /\ ~failed
  BY <1>0, PlanStart DEF Plan
<1>2. PICK K \in Conts :
        /\ todo \in Starting(s, K) /\ Starting(s, K) \subseteq StartPlans /\ K \in StartPlans
        /\ First(K) = IF s = "tx" THEN <<"slave", "rx">> ELSE <<"none", "both">>
  BY <1>0, PlanStart DEF Plan
<1>3. K \in Seq(Steps)
  BY ContsAre
<1>4. /\ Head(todo) = <<"establish", s>> => Tail(todo) = Queueing(s, K)
      /\ Head(todo) = <<"queue", s>> => Tail(todo) = Going(s, K)
      /\ Head(todo) = <<"go", s>> => Tail(todo) = Waiting(s, K)
      /\ Head(todo) = <<"wait", s>> => Tail(todo) = K
  BY <1>2, <1>3, StartHeads
<1>5. /\ Is(Queueing(s, K), "queue", s, Going(s, K))
      /\ Is(Going(s, K), "go", s, Waiting(s, K)) /\ Is(Waiting(s, K), "wait", s, K)
  BY <1>3, CallHeads
<1>6. /\ <<>> \o Queueing(s, K) = Queueing(s, K) /\ <<>> \o Going(s, K) = Going(s, K)
      /\ <<>> \o Waiting(s, K) = Waiting(s, K) /\ <<>> \o K = K
  BY <1>3, <1>5, ConcatEmptySeq DEF Is
<1>7. /\ First(Queueing(s, K)) = <<"queue", s>> /\ First(Going(s, K)) = <<"go", s>>
      /\ First(Waiting(s, K)) = <<"wait", s>>
  BY <1>5 DEF First, Is
<1>8. {Queueing(s, K), Going(s, K), Waiting(s, K), K} \subseteq Plans(want[holder], failed)
  BY <1>1, <1>2 DEF Starting, Plans
<1>9. ASSUME NEW q \in {Queueing(s, K), Going(s, K), Waiting(s, K), K}, todo' = <<>> \o q,
             UNCHANGED <<holder, failed>>
      PROVE  Goes({First(q)})
  BY <1>6, <1>8, <1>9, PlanKept DEF Goes
<1> QED BY <1>1, <1>2, <1>4, <1>7, <1>9 DEF Continue, At

\* The steps of start_duplex() and stop_duplex() between those calls
LEMMA TopMoves ==
  ASSUME Plan, UNCHANGED want, holder # Nobody, todo # <<>>
  PROVE  /\ At("enter", "both") =>
              /\ want[holder] = "start" /\ ~failed
              /\ Continue(<<>>) => Goes({<<"errors", "rx">>})
              /\ todo' = <<>> /\ UNCHANGED <<holder, failed>> => Goes({<<"none", "both">>})
         /\ At("errors", "rx") =>
              /\ want[holder] = "start" /\ ~failed
              /\ Continue(<<>>) => Goes({<<"errors", "tx">>})
              /\ Continue(StopStream("rx")) => Goes({<<"abort", "rx">>})
         /\ At("errors", "tx") =>
              /\ want[holder] = "start" /\ ~failed
              /\ Continue(<<>>) => Goes({<<"rate", "both">>})
              /\ Continue(StopStream("tx")) => Goes({<<"abort", "tx">>})
         /\ At("rate", "both") =>
              /\ want[holder] = "start" /\ ~failed
              /\ Continue(<<>>) => Goes({<<"master", "tx">>})
              /\ Continue(StopStream("rx") \o StopStream("tx")) => Goes({<<"abort", "rx">>})
         /\ At("master", "tx") =>
              /\ want[holder] = "start" /\ ~failed
              /\ Continue(<<>>) => Goes({<<"slave", "rx">>})
              /\ Continue(StartStream("tx")) => Goes({<<"establish", "tx">>})
         /\ At("slave", "rx") =>
              /\ want[holder] = "start" /\ ~failed
              /\ Continue(<<>>) => Goes({<<"none", "both">>})
              /\ Continue(StartStream("rx")) => Goes({<<"establish", "rx">>})
         /\ At("stop", "rx") =>
              /\ want[holder] = "stop"
              /\ Continue(<<>>) => Goes({<<"none", "both">>})
              /\ Continue(StopStream("rx") \o <<<<"stop", "tx">>>>) => Goes({<<"abort", "rx">>})
         /\ At("stop", "tx") =>
              /\ want[holder] = "stop"
              /\ Continue(<<>>) => Goes({<<"none", "both">>})
              /\ Continue(StopStream("tx")) => Goes({<<"abort", "tx">>})
<1>1. ASSUME NEW q \in Plans(want[holder], failed), todo' = q, UNCHANGED <<holder, failed>>
      PROVE  Goes({First(q)})
  BY <1>1, PlanKept DEF Goes
<1>2. todo \in Plans(want[holder], failed)
  BY DEF Plan
<1>3. \A K \in Conts : <<>> \o K = K /\ K \in Seq(Steps)
  BY ContsAre, ConcatEmptySeq
<1>4. /\ <<>> \o ErrorsRx = ErrorsRx /\ <<>> \o ErrorsTx = ErrorsTx /\ <<>> \o Rate = Rate
      /\ <<>> \o Master = Master /\ <<>> \o Slave = Slave /\ <<>> \o <<>> = <<>>
  BY <1>3, Heads, ConcatEmptySeq DEF Is, Conts
<1>5. /\ StopStream("rx") \o ErrorsTx = Aborting("rx", ErrorsTx)
      /\ StopStream("tx") \o Rate = Aborting("tx", Rate)
      /\ StopStream("tx") \o <<>> = Aborting("tx", <<>>)
      /\ StartStream("tx") \o Slave = Connecting("tx", Slave)
      /\ StartStream("rx") \o <<>> = Connecting("rx", <<>>)
  BY <1>3, Calls DEF Conts, Streams
<1>6. (StopStream("rx") \o StopStream("tx")) \o Master = Aborting("rx", Aborting("tx", Master))
  BY <1>3, StopBoth DEF Conts
<1>7. (StopStream("rx") \o <<<<"stop", "tx">>>>) \o <<>> = Aborting("rx", StopTx)
  <2>1. <<"stop", "tx">> \in Steps
    BY DEF Steps
  <2>2. <<<<"stop", "tx">>>> \in Seq(Steps) /\ <<>> \in Seq(Steps)
    BY <2>1
  <2>3. StopTx = <<<<"stop", "tx">>>>
    BY <2>2, ConcatEmptySeq DEF StopTx, Push
  <2>4. StopStream("rx") \o StopTx = Aborting("rx", StopTx) /\ Aborting("rx", StopTx) \in Seq(Steps)
    BY <2>2, <2>3, Calls, CallHeads DEF Streams, Is
  <2> QED BY <2>3, <2>4, ConcatEmptySeq
<1>8. /\ First(Aborting("rx", ErrorsTx)) = <<"abort", "rx">>
      /\ First(Aborting("tx", Rate)) = <<"abort", "tx">>
      /\ First(Aborting("tx", <<>>)) = <<"abort", "tx">>
      /\ First(Connecting("tx", Slave)) = <<"establish", "tx">>
      /\ First(Connecting("rx", <<>>)) = <<"establish", "rx">>
      /\ First(Aborting("rx", Aborting("tx", Master))) = <<"abort", "rx">>
      /\ First(Aborting("rx", StopTx)) = <<"abort", "rx">>
  <2>1. \A K \in Conts : /\ First(Aborting("rx", K)) = <<"abort", "rx">>
                         /\ First(Aborting("tx", K)) = <<"abort", "tx">>
                         /\ First(Connecting("rx", K)) = <<"establish", "rx">>
                         /\ First(Connecting("tx", K)) = <<"establish", "tx">>
    BY <1>3, CallHeads DEF First, Is, Streams
  <2> QED BY <2>1 DEF Conts
<1>9. /\ {<<>>, ErrorsRx, ErrorsTx, Rate, Master, Slave, Aborting("rx", ErrorsTx), Aborting("tx", Rate),
          Connecting("tx", Slave), Connecting("rx", <<>>),
          Aborting("rx", Aborting("tx", Master))} \subseteq StartPlans
      /\ {<<>>, Aborting("rx", StopTx), Aborting("tx", <<>>)} \subseteq StopPlans
  BY DEF StartPlans, StopPlans, Stopping, Starting, BothStop
<1>10. ASSUME Head(todo)[1] \in {"enter", "errors", "rate", "master", "slave"}
       PROVE  /\ want[holder] = "start" /\ ~failed /\ Plans(want[holder], failed) = StartPlans
              /\ \/ Head(todo) = <<"enter", "both">> /\ Tail(todo) = ErrorsRx
                 \/ Head(todo) = <<"errors", "rx">> /\ Tail(todo) = ErrorsTx
                 \/ Head(todo) = <<"errors", "tx">> /\ Tail(todo) = Rate
                 \/ Head(todo) = <<"rate", "both">> /\ Tail(todo) = Master
                 \/ Head(todo) = <<"master", "tx">> /\ Tail(todo) = Slave
                 \/ Head(todo) = <<"slave", "rx">> /\ Tail(todo) = <<>>
  <2>1. ~(Head(todo)[1] = "stop")
    BY <1>10
  <2>2. /\ want[holder] = "start" /\ ~failed
        /\ \/ Head(todo) = <<"enter", "both">> /\ Tail(todo) = ErrorsRx
           \/ Head(todo) = <<"errors", "rx">> /\ Tail(todo) = ErrorsTx
           \/ Head(todo) = <<"errors", "tx">> /\ Tail(todo) = Rate
           \/ Head(todo) = <<"rate", "both">> /\ Tail(todo) = Master
           \/ Head(todo) = <<"master", "tx">> /\ Tail(todo) = Slave
           \/ Head(todo) = <<"slave", "rx">> /\ Tail(todo) = <<>>
    BY <1>2, <1>10, <2>1, PlanTop
  <2> QED BY <2>2 DEF Plans
<1>11. ASSUME Head(todo)[1] = "stop"
       PROVE  want[holder] = "stop" /\ Tail(todo) = <<>> /\ Plans(want[holder], failed) = StopPlans
  <2>1. want[holder] = "stop" /\ Tail(todo) = <<>>
    BY <1>2, <1>11, PlanTop
  <2> QED BY <2>1 DEF Plans
<1>0. ASSUME NEW calls, NEW q, calls \o Tail(todo) = q, q \in Plans(want[holder], failed), Continue(calls)
      PROVE  Goes({First(q)})
  BY <1>0, <1>1 DEF Continue
<1>12. ASSUME At("enter", "both")
       PROVE  /\ want[holder] = "start" /\ ~failed
              /\ Continue(<<>>) => Goes({<<"errors", "rx">>})
              /\ todo' = <<>> /\ UNCHANGED <<holder, failed>> => Goes({<<"none", "both">>})
  <2>1. Head(todo) = <<"enter", "both">> /\ Head(todo)[1] = "enter" /\ Head(todo)[2] = "both"
    BY <1>12 DEF At
  <2>2. /\ want[holder] = "start" /\ ~failed /\ Tail(todo) = ErrorsRx
        /\ Plans(want[holder], failed) = StartPlans
    BY <1>10, <2>1
  <2>3. Continue(<<>>) => Goes({<<"errors", "rx">>})
    <3>1. <<>> \o Tail(todo) = ErrorsRx /\ ErrorsRx \in Plans(want[holder], failed)
      BY <1>9, <2>2, <1>4
    <3>2. First(ErrorsRx) = <<"errors", "rx">>
      BY <1>8, ContFirst
    <3> QED BY <1>0, <3>1, <3>2
  <2>4. todo' = <<>> /\ UNCHANGED <<holder, failed>> => Goes({<<"none", "both">>})
    BY <1>1, <1>9, <2>2, ContFirst
  <2> QED BY <2>2, <2>3, <2>4
<1>13. ASSUME At("errors", "rx")
       PROVE  /\ want[holder] = "start" /\ ~failed
              /\ Continue(<<>>) => Goes({<<"errors", "tx">>})
              /\ Continue(StopStream("rx")) => Goes({<<"abort", "rx">>})
  <2>1. Head(todo) = <<"errors", "rx">> /\ Head(todo)[1] = "errors" /\ Head(todo)[2] = "rx"
    BY <1>13 DEF At
  <2>2. /\ want[holder] = "start" /\ ~failed /\ Tail(todo) = ErrorsTx
        /\ Plans(want[holder], failed) = StartPlans
    BY <1>10, <2>1
  <2>3. Continue(<<>>) => Goes({<<"errors", "tx">>})
    <3>1. <<>> \o Tail(todo) = ErrorsTx /\ ErrorsTx \in Plans(want[holder], failed)
      BY <1>9, <2>2, <1>4
    <3>2. First(ErrorsTx) = <<"errors", "tx">>
      BY <1>8, ContFirst
    <3> QED BY <1>0, <3>1, <3>2
  <2>4. Continue(StopStream("rx")) => Goes({<<"abort", "rx">>})
    <3>1. /\ StopStream("rx") \o Tail(todo) = Aborting("rx", ErrorsTx)
          /\ Aborting("rx", ErrorsTx) \in Plans(want[holder], failed)
      BY <1>9, <2>2, <1>5
    <3>2. First(Aborting("rx", ErrorsTx)) = <<"abort", "rx">>
      BY <1>8, ContFirst
    <3> QED BY <1>0, <3>1, <3>2
  <2> QED BY <2>2, <2>3, <2>4
<1>14. ASSUME At("errors", "tx")
       PROVE  /\ want[holder] = "start" /\ ~failed
              /\ Continue(<<>>) => Goes({<<"rate", "both">>})
              /\ Continue(StopStream("tx")) => Goes({<<"abort", "tx">>})
  <2>1. Head(todo) = <<"errors", "tx">> /\ Head(todo)[1] = "errors" /\ Head(todo)[2] = "tx"
    BY <1>14 DEF At
  <2>2. /\ want[holder] = "start" /\ ~failed /\ Tail(todo) = Rate
        /\ Plans(want[holder], failed) = StartPlans
    BY <1>10, <2>1
  <2>3. Continue(<<>>) => Goes({<<"rate", "both">>})
    <3>1. <<>> \o Tail(todo) = Rate /\ Rate \in Plans(want[holder], failed)
      BY <1>9, <2>2, <1>4
    <3>2. First(Rate) = <<"rate", "both">>
      BY <1>8, ContFirst
    <3> QED BY <1>0, <3>1, <3>2
  <2>4. Continue(StopStream("tx")) => Goes({<<"abort", "tx">>})
    <3>1. /\ StopStream("tx") \o Tail(todo) = Aborting("tx", Rate)
          /\ Aborting("tx", Rate) \in Plans(want[holder], failed)
      BY <1>9, <2>2, <1>5
    <3>2. First(Aborting("tx", Rate)) = <<"abort", "tx">>
      BY <1>8, ContFirst
    <3> QED BY <1>0, <3>1, <3>2
  <2> QED BY <2>2, <2>3, <2>4
<1>15. ASSUME At("rate", "both")
       PROVE  /\ want[holder] = "start" /\ ~failed
              /\ Continue(<<>>) => Goes({<<"master", "tx">>})
              /\ Continue(StopStream("rx") \o StopStream("tx")) => Goes({<<"abort", "rx">>})
  <2>1. Head(todo) = <<"rate", "both">> /\ Head(todo)[1] = "rate" /\ Head(todo)[2] = "both"
    BY <1>15 DEF At
  <2>2. /\ want[holder] = "start" /\ ~failed /\ Tail(todo) = Master
        /\ Plans(want[holder], failed) = StartPlans
    BY <1>10, <2>1
  <2>3. Continue(<<>>) => Goes({<<"master", "tx">>})
    <3>1. <<>> \o Tail(todo) = Master /\ Master \in Plans(want[holder], failed)
      BY <1>9, <2>2, <1>4
    <3>2. First(Master) = <<"master", "tx">>
      BY <1>8, ContFirst
    <3> QED BY <1>0, <3>1, <3>2
  <2>4. Continue(StopStream("rx") \o StopStream("tx")) => Goes({<<"abort", "rx">>})
    <3>1. /\ (StopStream("rx") \o StopStream("tx")) \o Tail(todo) = Aborting("rx", Aborting("tx", Master))
          /\ Aborting("rx", Aborting("tx", Master)) \in Plans(want[holder], failed)
      BY <1>9, <2>2, <1>6
    <3>2. First(Aborting("rx", Aborting("tx", Master))) = <<"abort", "rx">>
      BY <1>8, ContFirst
    <3> QED BY <1>0, <3>1, <3>2
  <2> QED BY <2>2, <2>3, <2>4
<1>16. ASSUME At("master", "tx")
       PROVE  /\ want[holder] = "start" /\ ~failed
              /\ Continue(<<>>) => Goes({<<"slave", "rx">>})
              /\ Continue(StartStream("tx")) => Goes({<<"establish", "tx">>})
  <2>1. Head(todo) = <<"master", "tx">> /\ Head(todo)[1] = "master" /\ Head(todo)[2] = "tx"
    BY <1>16 DEF At
  <2>2. /\ want[holder] = "start" /\ ~failed /\ Tail(todo) = Slave
        /\ Plans(want[holder], failed) = StartPlans
    BY <1>10, <2>1
  <2>3. Continue(<<>>) => Goes({<<"slave", "rx">>})
    <3>1. <<>> \o Tail(todo) = Slave /\ Slave \in Plans(want[holder], failed)
      BY <1>9, <2>2, <1>4
    <3>2. First(Slave) = <<"slave", "rx">>
      BY <1>8, ContFirst
    <3> QED BY <1>0, <3>1, <3>2
  <2>4. Continue(StartStream("tx")) => Goes({<<"establish", "tx">>})
    <3>1. /\ StartStream("tx") \o Tail(todo) = Connecting("tx", Slave)
          /\ Connecting("tx", Slave) \in Plans(want[holder], failed)
      BY <1>9, <2>2, <1>5
    <3>2. First(Connecting("tx", Slave)) = <<"establish", "tx">>
      BY <1>8, ContFirst
    <3> QED BY <1>0, <3>1, <3>2
  <2> QED BY <2>2, <2>3, <2>4
<1>17. ASSUME At("slave", "rx")
       PROVE  /\ want[holder] = "start" /\ ~failed
              /\ Continue(<<>>) => Goes({<<"none", "both">>})
              /\ Continue(StartStream("rx")) => Goes({<<"establish", "rx">>})
  <2>1. Head(todo) = <<"slave", "rx">> /\ Head(todo)[1] = "slave" /\ Head(todo)[2] = "rx"
    BY <1>17 DEF At
  <2>2. /\ want[holder] = "start" /\ ~failed /\ Tail(todo) = <<>>
        /\ Plans(want[holder], failed) = StartPlans
    BY <1>10, <2>1
  <2>3. Continue(<<>>) => Goes({<<"none", "both">>})
    <3>1. <<>> \o Tail(todo) = <<>> /\ <<>> \in Plans(want[holder], failed)
      BY <1>9, <2>2, <1>4
    <3>2. First(<<>>) = <<"none", "both">>
      BY <1>8, ContFirst
    <3> QED BY <1>0, <3>1, <3>2
  <2>4. Continue(StartStream("rx")) => Goes({<<"establish", "rx">>})
    <3>1. /\ StartStream("rx") \o Tail(todo) = Connecting("rx", <<>>)
          /\ Connecting("rx", <<>>) \in Plans(want[holder], failed)
      BY <1>9, <2>2, <1>5
    <3>2. First(Connecting("rx", <<>>)) = <<"establish", "rx">>
      BY <1>8, ContFirst
    <3> QED BY <1>0, <3>1, <3>2
  <2> QED BY <2>2, <2>3, <2>4
<1>18. ASSUME At("stop", "rx")
       PROVE  /\ want[holder] = "stop"
              /\ Continue(<<>>) => Goes({<<"none", "both">>})
              /\ Continue(StopStream("rx") \o <<<<"stop", "tx">>>>) => Goes({<<"abort", "rx">>})
  <2>1. Head(todo) = <<"stop", "rx">> /\ Head(todo)[1] = "stop" /\ Head(todo)[2] = "rx"
    BY <1>18 DEF At
  <2>2. want[holder] = "stop" /\ Tail(todo) = <<>> /\ Plans(want[holder], failed) = StopPlans
    BY <1>11, <2>1
  <2>3. Continue(<<>>) => Goes({<<"none", "both">>})
    <3>1. <<>> \o Tail(todo) = <<>> /\ <<>> \in Plans(want[holder], failed)
      BY <1>9, <2>2, <1>4
    <3>2. First(<<>>) = <<"none", "both">>
      BY <1>8, ContFirst
    <3> QED BY <1>0, <3>1, <3>2
  <2>4. Continue(StopStream("rx") \o <<<<"stop", "tx">>>>) => Goes({<<"abort", "rx">>})
    <3>1. /\ (StopStream("rx") \o <<<<"stop", "tx">>>>) \o Tail(todo) = Aborting("rx", StopTx)
          /\ Aborting("rx", StopTx) \in Plans(want[holder], failed)
      BY <1>9, <2>2, <1>7
    <3>2. First(Aborting("rx", StopTx)) = <<"abort", "rx">>
      BY <1>8, ContFirst
    <3> QED BY <1>0, <3>1, <3>2
  <2> QED BY <2>2, <2>3, <2>4
<1>19. ASSUME At("stop", "tx")
       PROVE  /\ want[holder] = "stop"
              /\ Continue(<<>>) => Goes({<<"none", "both">>})
              /\ Continue(StopStream("tx")) => Goes({<<"abort", "tx">>})
  <2>1. Head(todo) = <<"stop", "tx">> /\ Head(todo)[1] = "stop" /\ Head(todo)[2] = "tx"
    BY <1>19 DEF At
  <2>2. want[holder] = "stop" /\ Tail(todo) = <<>> /\ Plans(want[holder], failed) = StopPlans
    BY <1>11, <2>1
  <2>3. Continue(<<>>) => Goes({<<"none", "both">>})
    <3>1. <<>> \o Tail(todo) = <<>> /\ <<>> \in Plans(want[holder], failed)
      BY <1>9, <2>2, <1>4
    <3>2. First(<<>>) = <<"none", "both">>
      BY <1>8, ContFirst
    <3> QED BY <1>0, <3>1, <3>2
  <2>4. Continue(StopStream("tx")) => Goes({<<"abort", "tx">>})
    <3>1. /\ StopStream("tx") \o Tail(todo) = Aborting("tx", <<>>)
          /\ Aborting("tx", <<>>) \in Plans(want[holder], failed)
      BY <1>9, <2>2, <1>5
    <3>2. First(Aborting("tx", <<>>)) = <<"abort", "tx">>
      BY <1>8, ContFirst
    <3> QED BY <1>0, <3>1, <3>2
  <2> QED BY <2>2, <2>3, <2>4
<1> QED BY <1>12, <1>13, <1>14, <1>15, <1>16, <1>17, <1>18, <1>19
\* start_duplex() begins with the first of its plans,
LEMMA BeginIs == StartDuplex = Begin
<1>1. /\ <<"enter", "both">> \in Steps /\ <<"errors", "rx">> \in Steps
      /\ <<"errors", "tx">> \in Steps /\ <<"rate", "both">> \in Steps
      /\ <<"master", "tx">> \in Steps /\ <<"slave", "rx">> \in Steps
  BY DEF Steps
<1>2. PICK a \in Steps, b \in Steps, c \in Steps, d \in Steps, e \in Steps, f \in Steps :
        /\ a = <<"enter", "both">> /\ b = <<"errors", "rx">> /\ c = <<"errors", "tx">>
        /\ d = <<"rate", "both">> /\ e = <<"master", "tx">> /\ f = <<"slave", "rx">>
  BY <1>1
<1>3. StartDuplex = <<a, b, c, d, e, f>>
  BY <1>2 DEF StartDuplex
<1>4. <<a, b, c, d, e, f>> = Push(a, <<b, c, d, e, f>>)
  <2>1. <<a, b, c, d, e, f>> \in Seq(Steps) /\ <<a, b, c, d, e, f>> # <<>>
    OBVIOUS
  <2>2. Head(<<a, b, c, d, e, f>>) = a /\ Tail(<<a, b, c, d, e, f>>) = <<b, c, d, e, f>>
    OBVIOUS
  <2> QED BY <2>1, <2>2, PushOf
<1>5. <<b, c, d, e, f>> = Push(b, <<c, d, e, f>>)
  <2>1. <<b, c, d, e, f>> \in Seq(Steps) /\ <<b, c, d, e, f>> # <<>>
    OBVIOUS
  <2>2. Head(<<b, c, d, e, f>>) = b /\ Tail(<<b, c, d, e, f>>) = <<c, d, e, f>>
    OBVIOUS
  <2> QED BY <2>1, <2>2, PushOf
<1>6. <<c, d, e, f>> = Push(c, Push(d, Push(e, Push(f, <<>>))))
  <2>1. <<c, d, e, f>> \in Seq(Steps) /\ <<>> \in Seq(Steps)
    OBVIOUS
  <2>2. \A K \in Seq(Steps) : <<c, d, e, f>> \o K = Push(c, Push(d, Push(e, Push(f, K))))
    BY PushFour
  <2>3. <<c, d, e, f>> \o <<>> = <<c, d, e, f>>
    BY <2>1, ConcatEmptySeq
  <2> QED BY <2>1, <2>2, <2>3
<1> QED BY <1>2, <1>3, <1>4, <1>5, <1>6 DEF Begin, ErrorsRx, ErrorsTx, Rate, Master, Slave

\* and stop_duplex() with the slave.
LEMMA StopRxIs == StopRx = <<<<"stop", "rx">>>>
<1>1. <<"stop", "rx">> \in Steps
  BY DEF Steps
<1>2. <<<<"stop", "rx">>>> \in Seq(Steps)
  BY <1>1
<1> QED BY <1>2, ConcatEmptySeq DEF StopRx, Push

\* What the one who takes efw->mutex has to do
LEMMA TakeMoves ==
  ASSUME NEW t \in Threads, t # Nobody, Take(t)
  PROVE  /\ Plan' /\ want' = want
         /\ want[t] = "start" => Now' = <<"enter", "both">>
         /\ want[t] = "stop" => Now' = <<"stop", "rx">>
         /\ want[t] = "giveup" => Now' = <<"abort", "rx">>
<1>0. holder' = t /\ failed' = FALSE /\ want' = want /\ want[t] \in {"start", "stop", "giveup"}
  BY DEF Take
<1>1. ASSUME todo' \in Plans(want[t], FALSE)
      PROVE  Plan' /\ Now' = First(todo')
  BY <1>0, <1>1 DEF Plan, Now
<1>2. CASE want[t] = "start"
  <2>1. todo' = Begin
    BY <1>2, BeginIs DEF Take
  <2>2. Begin \in Plans(want[t], FALSE)
    BY <1>2 DEF Plans, StartPlans
  <2> QED BY <1>0, <1>1, <1>2, <2>1, <2>2, ContFirst
<1>3. CASE want[t] = "stop"
  <2>1. todo' = StopRx
    BY <1>3, StopRxIs DEF Take
  <2>2. StopRx \in Plans(want[t], FALSE)
    BY <1>3 DEF Plans, StopPlans
  <2> QED BY <1>0, <1>1, <1>3, <2>1, <2>2, ContFirst
<1>4. CASE want[t] = "giveup"
  <2>1. todo' = StopStream("rx") \o StopStream("tx")
    BY <1>4 DEF Take
  <2>2. <<>> \in Seq(Steps)
    OBVIOUS
  <2>3. StopStream("tx") = Aborting("tx", <<>>) /\ Aborting("tx", <<>>) \in Seq(Steps)
    BY StopStreamIs DEF Streams
  <2>4. StopStream("rx") \o Aborting("tx", <<>>) = Aborting("rx", Aborting("tx", <<>>))
    BY <2>3, Calls DEF Streams
  <2>5. Aborting("rx", Aborting("tx", <<>>)) \in Plans(want[t], FALSE)
    BY <1>4 DEF Plans, FailPlans, BothStop, Stopping
  <2>6. First(Aborting("rx", Aborting("tx", <<>>))) = <<"abort", "rx">>
    BY <2>3, CallHeads DEF First, Is, Streams
  <2> QED BY <1>0, <1>1, <1>4, <2>1, <2>3, <2>4, <2>5, <2>6
<1> QED BY <1>0, <1>2, <1>3, <1>4

\* The guard of a step of the holder
LEMMA NowAt ==
  ASSUME NEW step, NEW s, At(step, s)
  PROVE  holder # Nobody /\ Now = <<step, s>> /\ Now[1] = step /\ Now[2] = s
BY DEF At, Now, First

\* A step that is none of the holder leaves its plan alone.
LEMMA Elsewhere ==
  ASSUME Plan, UNCHANGED <<holder, todo, failed>>, holder # Nobody => want'[holder] = want[holder]
  PROVE  Plan' /\ Now' = Now
<1>1. Now' = Now
  BY DEF Now
<1>2. Plan'
  BY DEF Plan
<1> QED BY <1>1, <1>2

\* The mutex is given back with nothing left to do.
LEMMA ReleaseMoves ==
  ASSUME Release
  PROVE  Plan' /\ Now = <<"none", "both">> /\ Now' = Now
BY DEF Release, Plan, Now, First

\* The threads are what their names say.
LEMMA Names ==
  /\ Upd \in Threads /\ Nobody \notin Threads /\ Upd[1] = "update" /\ Upd[2] = "both"
  /\ \A s \in Streams :
       /\ Pcm(s) \in Threads /\ Midi(s) \in Threads
       /\ Pcm(s)[1] = "pcm" /\ Pcm(s)[2] = s /\ Midi(s)[1] = "midi" /\ Midi(s)[2] = s
  /\ \A t \in Threads : t = Upd \/ \E s \in Streams : t = Pcm(s) \/ t = Midi(s)
<1>1. \A s \in Streams : <<"pcm", s>> \in Threads /\ <<"midi", s>> \in Threads
  BY DEF Threads
<1>2. \A t \in Threads : t = Upd \/ \E s \in Streams : t = <<"pcm", s>> \/ t = <<"midi", s>>
  BY DEF Threads
<1>3. Nobody \notin Threads
  BY <1>2 DEF Nobody, Upd
<1>4. Upd \in Threads
  BY DEF Threads
<1> QED BY <1>1, <1>2, <1>3, <1>4 DEF Pcm, Midi, Upd

----------------------------------------------------------------------------
(* The inductive invariant *)

Doing(steps, s) == Now[1] \in steps /\ Now[2] = s

\* Outside of the calls of start_stream() and stop_stream() a stream that runs
\* has had its first callback.
Calm(s) ==
  /\ conn[s] => Running(s)
  /\ Running(s) => ctx[s] = "started" /\ callbacked[s]

InCall == {"abort", "destroy", "clear", "break", "establish", "queue", "go", "wait"}

\* Context and connection of a stream, at each step of the calls
Sound(s) ==
  /\ Doing({"establish", "queue", "clear", "break"}, s) => ~Running(s)
  /\ Doing({"establish"}, s) => ~conn[s]
  /\ Doing({"go"}, s) => ctx[s] = "created"
  /\ Doing({"wait"}, s) => ctx[s] = "started"
  /\ ~Doing(InCall, s) => Calm(s)
  /\ (Running(s) \/ Doing({"queue"}, s)) /\ ~conn[s] => want[Upd] = "giveup"
Matching == \A s \in Streams : Sound(s)

\* Only the update handler gives up, and it stops "rx", then "tx".
GiveUp ==
  /\ \A t \in Threads : want[t] = "giveup" => t = Upd
  /\ holder # Nobody /\ want[holder] = "giveup" =>
       /\ Now[1] = "none" \/ Now[2] = "tx" => ~Running("rx")
       /\ Now[1] = "none" => ~Running("tx")

\* The substreams that a PCM or a MIDI device has counted
Counted(s) ==
  /\ alsa[s] # "open" /\ want[Pcm(s)] # "stop" => substreams[s] > 0
  /\ s \in midi \/ want[Midi(s)] = "start" => substreams[s] > 0
  /\ alsa[s] # "open" /\ want[Pcm(s)] # "stop" /\ (s \in midi \/ want[Midi(s)] = "start")
       => substreams[s] > 1
  /\ want[Midi(s)] = "start" => s \in MidiPorts

\* The call of stop_duplex() under way has still to stop the stream.
ToStop(s) ==
  /\ holder # Nobody /\ want[holder] = "stop"
  /\ IF s = "rx" THEN Doing({"stop", "abort", "destroy"}, "rx")
     ELSE Now[1] # "none" /\ ~Doing({"clear", "break"}, "tx")

Idle == \A s \in Streams : substreams[s] = 0
Used ==
  /\ \A s \in Streams : Counted(s)
  /\ want[Upd] \notin {"start", "stop"}
  /\ Idle /\ (\A t \in Threads : want[t] = "stop" => t = holder)
       => \A s \in Streams : Running(s) => ToStop(s)

\* How far a call of start_duplex() that does not fail has come
Began ==
  holder # Nobody /\ want[holder] = "start" /\ ~failed =>
    /\ Now[1] = "none" \/ Doing({"slave", "establish", "queue", "go", "wait"}, "rx")
         => Running("tx")
    /\ Now[1] = "none" /\ holder[2] = "rx" => Running("rx")

CbAborts(s) == cb = "masterAbort" \/ (s = "rx" /\ cb # "idle")

\* The PCM of the stream was aborted, or is about to be.
Told(s) == missed[s] \/ CbAborts(s) \/ Doing({"abort"}, s)

Startable(s) == alsa[s] \in {"prepared", "running"}

\* start_duplex() has not yet looked at the errors of the stream.
Unchecked(s) ==
  \/ Now[1] = "enter" \/ Doing({"errors"}, s)
  \/ s = "tx" /\ Doing({"errors", "abort", "destroy", "clear", "break"}, "rx")

Aborted(s) ==
  /\ Startable(s) /\ (dead[s] \/ ~Running(s)) => Told(s)
  /\ Startable(s) /\ Doing({"destroy"}, s) => missed[s]
  /\ want[Pcm(s)] = "start" => alsa[s] \in {"setup", "prepared", "xrun"}
  /\ want[Pcm(s)] = "stop" => alsa[s] \in {"setup", "prepared"}
  /\ holder = Pcm(s) /\ want[holder] = "start" /\ ~failed /\ ~Unchecked(s)
       => (Running(s) /\ dead[s] => Told(s) \/ Doing({"destroy"}, s))
Died == \A s \in Streams : Aborted(s)

IInv == TypeOK /\ Plan /\ Matching /\ GiveUp /\ Used /\ Began /\ Died

\* Steps of start_duplex()
LEMMA StopDeadKeeps ==
  ASSUME IInv, NEW s \in Streams, StopDead(s)
  PROVE  IInv'
<1>1. /\ holder # Nobody /\ Now = <<"errors", s>> /\ want[holder] = "start" /\ ~failed
      /\ UNCHANGED <<holder, failed, streamVars, pcmVars, conn, want, userVars, cb, boundVars>>
  BY NowAt, TopMoves DEF StopDead, Continue, IInv, Streams, At
<1>2. \/ ~dead[s] /\ Goes({IF s = "rx" THEN <<"errors", "tx">> ELSE <<"rate", "both">>})
      \/ Goes({<<"abort", s>>})
  BY TopMoves DEF StopDead, Streams, IInv, At
<1>3. Plan'
  BY <1>2 DEF Goes
<1>4. TypeOK'
  BY <1>1, <1>3 DEF IInv, TypeOK, Plan, streamVars, pcmVars, userVars, boundVars
<1>5. Matching'
  BY <1>1, <1>2 DEF IInv, Matching, Goes, Sound, Doing, InCall, Calm, Running, streamVars, Streams
<1>6. GiveUp'
  BY <1>1 DEF IInv, GiveUp
<1>7. Used'
  BY <1>1 DEF IInv, Used, Counted, ToStop, Idle, Running, streamVars, userVars
<1>8. Began'
  BY <1>1, <1>2 DEF Began, Goes, Doing
<1>9. Died'
BY <1>1, <1>2 DEF IInv, Died, Aborted, Goes, Doing, Startable, Told, CbAborts, Unchecked,
       Running, Streams, streamVars, userVars, pcmVars
<1> QED BY <1>3, <1>4, <1>5, <1>6, <1>7, <1>8, <1>9 DEF IInv

\* Whoever starts has counted its substream.
LEMMA Counting ==
  ASSUME IInv, holder # Nobody, want[holder] = "start"
  PROVE  /\ \E s \in Streams : holder[2] = s /\ substreams[s] > 0
         /\ \E s \in Streams : substreams[s] > 0
         /\ holder[2] = "rx" => substreams["rx"] > 0
<1>1. holder \in Threads
  BY DEF IInv, TypeOK
<1>2. PICK s \in Streams : holder = Pcm(s) \/ holder = Midi(s)
  BY <1>1, Names DEF IInv, Used
<1>3. want[Pcm(s)] = "start" => substreams[s] > 0
  BY DEF IInv, Used, Counted, Died, Aborted
<1>4. want[Midi(s)] = "start" => substreams[s] > 0
  BY DEF IInv, Used, Counted
<1> QED BY <1>2, <1>3, <1>4, Names

\* Only the update handler gives up.
LEMMA Giver ==
  ASSUME IInv, NEW t \in Threads, want[t] = "giveup"
  PROVE  t = Upd
BY DEF IInv, GiveUp

\* amdtp_stream_pcm_abort() keeps the types.
LEMMA AbortedType ==
  ASSUME TypeOK, NEW s \in Streams, PcmAbort(s)
  PROVE  /\ alsa' \in [Streams -> {"open", "setup", "prepared", "running", "xrun"}]
         /\ pcm' \in [Streams -> BOOLEAN] /\ missed' \in [Streams -> BOOLEAN]
         /\ \A u \in Streams : pcm'[u] <=> alsa'[u] = "running"
<1>1. pcm' \in [Streams -> BOOLEAN] /\ missed' \in [Streams -> BOOLEAN]
  BY DEF TypeOK, PcmAbort
<1>2. alsa' \in [Streams -> {"open", "setup", "prepared", "running", "xrun"}]
  BY DEF TypeOK, PcmAbort
<1>3. \A u \in Streams : pcm'[u] <=> alsa'[u] = "running"
  BY DEF TypeOK, PcmAbort
<1> QED BY <1>1, <1>2, <1>3

LEMMA EnterKeeps ==
  ASSUME IInv, Enter
  PROVE  IInv'
<1>1. /\ holder # Nobody /\ Now = <<"enter", "both">> /\ At("enter", "both")
      /\ want[holder] = "start" /\ ~failed
      /\ UNCHANGED <<holder, streamVars, pcmVars, conn, want, userVars, cb, boundVars>>
  BY NowAt, TopMoves DEF Enter, Continue, Fail, IInv, At
<1>2. /\ Continue(<<>>) => Goes({<<"errors", "rx">>})
      /\ (Fail(<<>>) => Goes({<<"none", "both">>}) /\ failed' = TRUE)
  BY <1>1, TopMoves, FailMoves DEF IInv, At, Streams
<1>3. ~Idle /\ (holder[2] = "rx" => substreams["rx"] > 0)
  BY <1>1, Counting DEF IInv, Idle, TypeOK
<1>4. \/ failed' = FALSE /\ Goes({<<"errors", "rx">>})
      \/ failed' = TRUE /\ Goes({<<"none", "both">>})
  BY <1>1, <1>2, <1>3 DEF Enter, Continue, Idle
<1>5. Plan'
  BY <1>1, <1>2, <1>3, <1>4 DEF Goes
<1>6. TypeOK'
BY <1>1, <1>2, <1>3, <1>4, <1>5 DEF IInv, TypeOK, Plan, Streams, streamVars, pcmVars, userVars,
       boundVars
<1>7. Matching'
  <2> SUFFICES ASSUME NEW u \in Streams PROVE Sound(u)'
    BY DEF Matching
  <2>1. Sound(u)
    BY DEF IInv, Matching
<2> QED BY <2>1, <1>1, <1>3, <1>4 DEF Sound, Doing, Goes, InCall, Calm, Running, streamVars,
       Streams
<1>8. GiveUp'
  BY <1>1, <1>3, <1>4 DEF IInv, GiveUp, Goes, Running, streamVars, Streams
<1>9. Used'
BY <1>1, <1>3, <1>4 DEF IInv, Used, Counted, ToStop, Idle, Doing, Goes, Running, Streams,
       streamVars, userVars
<1>10. Began'
  BY <1>1, <1>3, <1>4 DEF IInv, Began, Goes, Doing, Running, streamVars, Streams
<1>11. Died'
  <2> SUFFICES ASSUME NEW u \in Streams PROVE Aborted(u)'
    BY DEF Died
  <2>1. Aborted(u)
    BY DEF IInv, Died
<2> QED BY <2>1, <1>1, <1>3, <1>4 DEF Aborted, Goes, Doing, Startable, Told, CbAborts,
       Unchecked, Running, Streams, streamVars, userVars, pcmVars
<1> QED BY <1>5, <1>6, <1>7, <1>8, <1>9, <1>10, <1>11 DEF IInv

LEMMA CheckRateKeeps ==
  ASSUME IInv, CheckRate
  PROVE  IInv'
<1>1. /\ holder # Nobody /\ Now = <<"rate", "both">> /\ At("rate", "both")
      /\ want[holder] = "start" /\ ~failed
      /\ UNCHANGED <<holder, streamVars, pcmVars, conn, want, userVars, cb, boundVars>>
  BY NowAt, TopMoves DEF CheckRate, Continue, Fail, IInv, At
<1>2. /\ Continue(<<>>) => Goes({<<"master", "tx">>})
      /\ Continue(StopStream("rx") \o StopStream("tx")) => Goes({<<"abort", "rx">>})
      /\ (Fail(<<>>) => Goes({<<"none", "both">>}) /\ failed' = TRUE)
  BY <1>1, TopMoves, FailMoves DEF IInv, At, Streams
<1>3. \/ failed' = FALSE /\ Goes({<<"master", "tx">>})
      \/ failed' = FALSE /\ Goes({<<"abort", "rx">>})
      \/ failed' = TRUE /\ Goes({<<"none", "both">>})
  <2>1. (Continue(<<>>)) \/ (Continue(StopStream("rx") \o StopStream("tx"))) \/ (Fail(<<>>))
    BY DEF CheckRate
  <2>2. \A calls : Continue(calls) => failed' = FALSE
    BY <1>1 DEF Continue, IInv, TypeOK
  <2> QED BY <1>2, <2>1, <2>2
<1>4. Plan'
  BY <1>1, <1>2, <1>3 DEF Goes
<1>5. TypeOK'
BY <1>1, <1>2, <1>3, <1>4 DEF IInv, TypeOK, Plan, Streams, streamVars, pcmVars, userVars,
       boundVars
<1>6. Matching'
  <2> SUFFICES ASSUME NEW u \in Streams PROVE Sound(u)'
    BY DEF Matching
  <2>1. Sound(u)
    BY DEF IInv, Matching
  <2> QED BY <2>1, <1>1, <1>3 DEF Sound, Doing, Goes, InCall, Calm, Running, streamVars, Streams
<1>7. GiveUp'
  BY <1>1, <1>3 DEF IInv, GiveUp, Goes, Running, streamVars, Streams
<1>8. Used'
BY <1>1, <1>3 DEF IInv, Used, Counted, ToStop, Idle, Doing, Goes, Running, Streams, streamVars,
       userVars
<1>9. Began'
  BY <1>1, <1>3 DEF IInv, Began, Goes, Doing, Running, streamVars, Streams
<1>10. Died'
  <2> SUFFICES ASSUME NEW u \in Streams PROVE Aborted(u)'
    BY DEF Died
  <2>1. Aborted(u)
    BY DEF IInv, Died
<2> QED BY <2>1, <1>1, <1>3 DEF Aborted, Goes, Doing, Startable, Told, CbAborts, Unchecked,
       Running, Streams, streamVars, userVars, pcmVars
<1> QED BY <1>4, <1>5, <1>6, <1>7, <1>8, <1>9, <1>10 DEF IInv

LEMMA StartMasterKeeps ==
  ASSUME IInv, StartMaster
  PROVE  IInv'
<1>1. /\ holder # Nobody /\ Now = <<"master", "tx">> /\ At("master", "tx")
      /\ want[holder] = "start" /\ ~failed
      /\ UNCHANGED <<holder, streamVars, pcmVars, conn, want, userVars, cb, boundVars>>
  BY NowAt, TopMoves DEF StartMaster, Continue, Fail, IInv, At
<1>2. /\ Continue(<<>>) => Goes({<<"slave", "rx">>})
      /\ Continue(StartStream("tx")) => Goes({<<"establish", "tx">>})
      /\ (Fail(<<>>) => Goes({<<"none", "both">>}) /\ failed' = TRUE)
  BY <1>1, TopMoves, FailMoves DEF IInv, At, Streams
<1>3. \/ Running("tx") /\ failed' = FALSE /\ Goes({<<"slave", "rx">>})
      \/ ~Running("tx") /\ failed' = FALSE /\ Goes({<<"establish", "tx">>})
      \/ failed' = TRUE /\ Goes({<<"none", "both">>})
  BY <1>1, <1>2 DEF StartMaster, Continue
<1>4. Plan'
  BY <1>1, <1>2, <1>3 DEF Goes
<1>5. TypeOK'
BY <1>1, <1>2, <1>3, <1>4 DEF IInv, TypeOK, Plan, Streams, streamVars, pcmVars, userVars,
       boundVars
<1>6. Matching'
  <2> SUFFICES ASSUME NEW u \in Streams PROVE Sound(u)'
    BY DEF Matching
  <2>1. Sound(u)
    BY DEF IInv, Matching
  <2> QED BY <2>1, <1>1, <1>3 DEF Sound, Doing, Goes, InCall, Calm, Running, streamVars, Streams
<1>7. GiveUp'
  BY <1>1, <1>3 DEF IInv, GiveUp, Goes, Running, streamVars, Streams
<1>8. Used'
BY <1>1, <1>3 DEF IInv, Used, Counted, ToStop, Idle, Doing, Goes, Running, Streams, streamVars,
       userVars
<1>9. Began'
  BY <1>1, <1>3 DEF IInv, Began, Goes, Doing, Running, streamVars, Streams
<1>10. Died'
  <2> SUFFICES ASSUME NEW u \in Streams PROVE Aborted(u)'
    BY DEF Died
  <2>1. Aborted(u)
    BY DEF IInv, Died
<2> QED BY <2>1, <1>1, <1>3 DEF Aborted, Goes, Doing, Startable, Told, CbAborts, Unchecked,
       Running, Streams, streamVars, userVars, pcmVars
<1> QED BY <1>4, <1>5, <1>6, <1>7, <1>8, <1>9, <1>10 DEF IInv

LEMMA StartSlaveKeeps ==
  ASSUME IInv, StartSlave
  PROVE  IInv'
<1>1. /\ holder # Nobody /\ Now = <<"slave", "rx">> /\ At("slave", "rx")
      /\ want[holder] = "start" /\ ~failed
      /\ UNCHANGED <<holder, streamVars, pcmVars, conn, want, userVars, cb, boundVars>>
  BY NowAt, TopMoves DEF StartSlave, Continue, Fail, IInv, At
<1>2. /\ Continue(<<>>) => Goes({<<"none", "both">>})
      /\ Continue(StartStream("rx")) => Goes({<<"establish", "rx">>})
  BY <1>1, TopMoves, FailMoves DEF IInv, At, Streams
<1>3. ~Idle /\ (holder[2] = "rx" => substreams["rx"] > 0)
  BY <1>1, Counting DEF IInv, Idle, TypeOK
<1>4. \/ (~(substreams["rx"] > 0) \/ Running("rx")) /\ failed' = FALSE /\ Goes({<<"none", "both">>})
      \/ ~Running("rx") /\ failed' = FALSE /\ Goes({<<"establish", "rx">>})
  <2>1. (Continue(<<>>) /\ (~(substreams["rx"] > 0) \/ Running("rx"))) \/ (Continue(StartStream("rx")) /\ ~Running("rx"))
    BY DEF StartSlave
  <2>2. \A calls : Continue(calls) => failed' = FALSE
    BY <1>1 DEF Continue, IInv, TypeOK
  <2> QED BY <1>2, <2>1, <2>2
<1>5. Plan'
  BY <1>1, <1>2, <1>3, <1>4 DEF Goes
<1>6. TypeOK'
BY <1>1, <1>2, <1>3, <1>4, <1>5 DEF IInv, TypeOK, Plan, Streams, streamVars, pcmVars, userVars,
       boundVars
<1>7. Matching'
  <2> SUFFICES ASSUME NEW u \in Streams PROVE Sound(u)'
    BY DEF Matching
  <2>1. Sound(u)
    BY DEF IInv, Matching
<2> QED BY <2>1, <1>1, <1>3, <1>4 DEF Sound, Doing, Goes, InCall, Calm, Running, streamVars,
       Streams
<1>8. GiveUp'
  BY <1>1, <1>3, <1>4 DEF IInv, GiveUp, Goes, Running, streamVars, Streams
<1>9. Used'
BY <1>1, <1>3, <1>4 DEF IInv, Used, Counted, ToStop, Idle, Doing, Goes, Running, Streams,
       streamVars, userVars
<1>10. Began'
  BY <1>1, <1>3, <1>4 DEF IInv, Began, Goes, Doing, Running, streamVars, Streams
<1>11. Died'
  <2> SUFFICES ASSUME NEW u \in Streams PROVE Aborted(u)'
    BY DEF Died
  <2>1. Aborted(u)
    BY DEF IInv, Died
<2> QED BY <2>1, <1>1, <1>3, <1>4 DEF Aborted, Goes, Doing, Startable, Told, CbAborts,
       Unchecked, Running, Streams, streamVars, userVars, pcmVars
<1> QED BY <1>5, <1>6, <1>7, <1>8, <1>9, <1>10, <1>11 DEF IInv

LEMMA StopSlaveKeeps ==
  ASSUME IInv, StopSlave
  PROVE  IInv'
<1>1. /\ holder # Nobody /\ Now = <<"stop", "rx">> /\ At("stop", "rx") /\ want[holder] = "stop"
      /\ UNCHANGED <<holder, streamVars, pcmVars, conn, want, userVars, cb, boundVars>>
  BY NowAt, TopMoves DEF StopSlave, Continue, Fail, IInv, At
<1>2. /\ Continue(<<>>) => Goes({<<"none", "both">>})
      /\ Continue(StopStream("rx") \o <<<<"stop", "tx">>>>) => Goes({<<"abort", "rx">>})
  BY <1>1, TopMoves, FailMoves DEF IInv, At, Streams
<1>3. \/ substreams["rx"] # 0 /\ failed' = failed /\ Goes({<<"none", "both">>})
      \/ substreams["rx"] = 0 /\ failed' = failed /\ Goes({<<"abort", "rx">>})
  BY <1>1, <1>2 DEF StopSlave, Continue
<1>4. Plan'
  BY <1>1, <1>2, <1>3 DEF Goes
<1>5. TypeOK'
BY <1>1, <1>2, <1>3, <1>4 DEF IInv, TypeOK, Plan, Streams, streamVars, pcmVars, userVars,
       boundVars
<1>6. Matching'
  <2> SUFFICES ASSUME NEW u \in Streams PROVE Sound(u)'
    BY DEF Matching
  <2>1. Sound(u)
    BY DEF IInv, Matching
  <2> QED BY <2>1, <1>1, <1>3 DEF Sound, Doing, Goes, InCall, Calm, Running, streamVars, Streams
<1>7. GiveUp'
  BY <1>1, <1>3 DEF IInv, GiveUp, Goes, Running, streamVars, Streams
<1>8. Used'
BY <1>1, <1>3 DEF IInv, Used, Counted, ToStop, Idle, Doing, Goes, Running, Streams, streamVars,
       userVars
<1>9. Began'
  BY <1>1, <1>3 DEF IInv, Began, Goes, Doing, Running, streamVars, Streams
<1>10. Died'
  <2> SUFFICES ASSUME NEW u \in Streams PROVE Aborted(u)'
    BY DEF Died
  <2>1. Aborted(u)
    BY DEF IInv, Died
<2> QED BY <2>1, <1>1, <1>3 DEF Aborted, Goes, Doing, Startable, Told, CbAborts, Unchecked,
       Running, Streams, streamVars, userVars, pcmVars
<1> QED BY <1>4, <1>5, <1>6, <1>7, <1>8, <1>9, <1>10 DEF IInv

LEMMA StopMasterKeeps ==
  ASSUME IInv, StopMaster
  PROVE  IInv'
<1>1. /\ holder # Nobody /\ Now = <<"stop", "tx">> /\ At("stop", "tx") /\ want[holder] = "stop"
      /\ UNCHANGED <<holder, streamVars, pcmVars, conn, want, userVars, cb, boundVars>>
  BY NowAt, TopMoves DEF StopMaster, Continue, Fail, IInv, At
<1>2. /\ Continue(<<>>) => Goes({<<"none", "both">>})
      /\ Continue(StopStream("tx")) => Goes({<<"abort", "tx">>})
  BY <1>1, TopMoves, FailMoves DEF IInv, At, Streams
<1>3. \/ substreams["tx"] # 0 /\ failed' = failed /\ Goes({<<"none", "both">>})
      \/ substreams["tx"] = 0 /\ failed' = failed /\ Goes({<<"abort", "tx">>})
  BY <1>1, <1>2 DEF StopMaster, Continue
<1>4. Plan'
  BY <1>1, <1>2, <1>3 DEF Goes
<1>5. TypeOK'
BY <1>1, <1>2, <1>3, <1>4 DEF IInv, TypeOK, Plan, Streams, streamVars, pcmVars, userVars,
       boundVars
<1>6. Matching'
  <2> SUFFICES ASSUME NEW u \in Streams PROVE Sound(u)'
    BY DEF Matching
  <2>1. Sound(u)
    BY DEF IInv, Matching
  <2> QED BY <2>1, <1>1, <1>3 DEF Sound, Doing, Goes, InCall, Calm, Running, streamVars, Streams
<1>7. GiveUp'
  BY <1>1, <1>3 DEF IInv, GiveUp, Goes, Running, streamVars, Streams
<1>8. Used'
BY <1>1, <1>3 DEF IInv, Used, Counted, ToStop, Idle, Doing, Goes, Running, Streams, streamVars,
       userVars
<1>9. Began'
  BY <1>1, <1>3 DEF IInv, Began, Goes, Doing, Running, streamVars, Streams
<1>10. Died'
  <2> SUFFICES ASSUME NEW u \in Streams PROVE Aborted(u)'
    BY DEF Died
  <2>1. Aborted(u)
    BY DEF IInv, Died
<2> QED BY <2>1, <1>1, <1>3 DEF Aborted, Goes, Doing, Startable, Told, CbAborts, Unchecked,
       Running, Streams, streamVars, userVars, pcmVars
<1> QED BY <1>4, <1>5, <1>6, <1>7, <1>8, <1>9, <1>10 DEF IInv

LEMMA WaitCallbackKeeps ==
  ASSUME IInv, NEW s \in Streams, WaitCallback(s)
  PROVE  IInv'
<1>1. /\ holder # Nobody /\ Now = <<"wait", s>> /\ At("wait", s) /\ want[holder] = "start"
      /\ ~failed
      /\ UNCHANGED <<holder, streamVars, pcmVars, conn, want, userVars, cb, boundVars>>
  BY NowAt, StartCallMoves DEF WaitCallback, Continue, FailStart, Fail, IInv, At
<1>2. /\ Continue(<<>>) => Goes({IF s = "tx" THEN <<"slave", "rx">> ELSE <<"none", "both">>})
      /\ FailStart(s, StopStream(s)) => Goes({<<"abort", s>>}) /\ failed' = TRUE
  BY <1>1, StartCallMoves, FailMoves DEF IInv, Streams
<1>3. ~Idle /\ (holder[2] = "rx" => substreams["rx"] > 0)
  BY <1>1, Counting DEF IInv, Idle, TypeOK
<1>4. \/ callbacked[s] /\ failed' = FALSE /\ Goes({IF s = "tx" THEN <<"slave", "rx">> ELSE <<"none", "both">>})
      \/ failed' = TRUE /\ Goes({<<"abort", s>>})
  BY <1>1, <1>2 DEF WaitCallback, Continue
<1>5. Plan'
  BY <1>1, <1>2, <1>3, <1>4 DEF Goes
<1>6. TypeOK'
BY <1>1, <1>2, <1>3, <1>4, <1>5 DEF IInv, TypeOK, Plan, Streams, streamVars, pcmVars, userVars,
       boundVars
<1>7. Matching'
  <2> SUFFICES ASSUME NEW u \in Streams PROVE Sound(u)'
    BY DEF Matching
  <2>1. Sound(u)
    BY DEF IInv, Matching
<2> QED BY <2>1, <1>1, <1>3, <1>4 DEF Sound, Doing, Goes, InCall, Calm, Running, streamVars,
       Streams
<1>8. GiveUp'
  BY <1>1, <1>3, <1>4 DEF IInv, GiveUp, Goes, Running, streamVars, Streams
<1>9. Used'
BY <1>1, <1>3, <1>4 DEF IInv, Used, Counted, ToStop, Idle, Doing, Goes, Running, Streams,
       streamVars, userVars
<1>10. Began'
BY <1>1, <1>3, <1>4 DEF IInv, Began, Goes, Doing, Running, streamVars, Streams, Matching, Sound,
       IInv
<1>11. Died'
  <2> SUFFICES ASSUME NEW u \in Streams PROVE Aborted(u)'
    BY DEF Died
  <2>1. Aborted(u)
    BY DEF IInv, Died
<2> QED BY <2>1, <1>1, <1>3, <1>4 DEF Aborted, Goes, Doing, Startable, Told, CbAborts,
       Unchecked, Running, Streams, streamVars, userVars, pcmVars
<1> QED BY <1>5, <1>6, <1>7, <1>8, <1>9, <1>10, <1>11 DEF IInv

\* Steps of start_stream()
LEMMA ConnectKeeps ==
  ASSUME IInv, NEW s \in Streams, Connect(s)
  PROVE  IInv'
<1>1. /\ holder # Nobody /\ Now = <<"establish", s>> /\ At("establish", s)
      /\ want[holder] = "start" /\ ~failed
      /\ UNCHANGED <<holder, streamVars, pcmVars, want, userVars, cb, boundVars>>
  BY NowAt, StartCallMoves DEF Connect, Continue, FailStart, Fail, IInv, At
<1>2. /\ Continue(<<>>) => Goes({<<"queue", s>>})
      /\ FailStart(s, <<>>) => Goes({IF s = "tx" THEN <<"none", "both">> ELSE <<"abort", "tx">>}) /\ failed' = TRUE
  BY <1>1, StartCallMoves, FailMoves DEF IInv, Streams
<1>3. ~Idle /\ (holder[2] = "rx" => substreams["rx"] > 0)
  BY <1>1, Counting DEF IInv, Idle, TypeOK
<1>4. \/ conn' = [conn EXCEPT ![s] = TRUE] /\ failed' = FALSE /\ Goes({<<"queue", s>>})
      \/ conn' = conn /\ failed' = TRUE /\ Goes({IF s = "tx" THEN <<"none", "both">> ELSE <<"abort", "tx">>})
  BY <1>1, <1>2 DEF Connect, Continue
<1>5. \/ failed' = FALSE /\ Goes({<<"queue", s>>}) /\ conn'[s] = TRUE
      \/ failed' = TRUE /\ Goes({IF s = "tx" THEN <<"none", "both">> ELSE <<"abort", "tx">>}) /\ conn'[s] = conn[s]
  BY <1>4 DEF IInv, TypeOK
<1>6. \A v \in Streams : v # s => conn'[v] = conn[v]
  BY <1>4 DEF IInv, TypeOK
<1>7. Plan'
  BY <1>1, <1>2, <1>3, <1>4, <1>5, <1>6 DEF Goes
<1>8. TypeOK'
  <2>1. conn' \in [Streams -> BOOLEAN] /\ failed' \in BOOLEAN
    BY <1>4 DEF IInv, TypeOK
<2> QED BY <2>1, <1>1, <1>7 DEF IInv, TypeOK, Plan, Streams, streamVars, pcmVars, userVars,
       boundVars
<1>9. Matching'
  <2> SUFFICES ASSUME NEW u \in Streams PROVE Sound(u)'
    BY DEF Matching
  <2>1. Sound(u)
    BY DEF IInv, Matching
<2> QED BY <2>1, <1>1, <1>3, <1>5, <1>6 DEF Sound, Doing, Goes, InCall, Calm, Running,
       streamVars, Streams
<1>10. GiveUp'
  BY <1>1, <1>3, <1>5, <1>6 DEF IInv, GiveUp, Goes, Running, streamVars, Streams
<1>11. Used'
BY <1>1, <1>3, <1>5, <1>6 DEF IInv, Used, Counted, ToStop, Idle, Doing, Goes, Running, Streams,
       streamVars, userVars
<1>12. Began'
  BY <1>1, <1>3, <1>5, <1>6 DEF IInv, Began, Goes, Doing, Running, streamVars, Streams
<1>13. Died'
  <2> SUFFICES ASSUME NEW u \in Streams PROVE Aborted(u)'
    BY DEF Died
  <2>1. Aborted(u)
    BY DEF IInv, Died
<2> QED BY <2>1, <1>1, <1>3, <1>5, <1>6 DEF Aborted, Goes, Doing, Startable, Told, CbAborts,
       Unchecked, Running, Streams, streamVars, userVars, pcmVars
<1> QED BY <1>7, <1>8, <1>9, <1>10, <1>11, <1>12, <1>13 DEF IInv

LEMMA QueueKeeps ==
  ASSUME IInv, NEW s \in Streams, Queue(s)
  PROVE  IInv'
<1>1. /\ holder # Nobody /\ Now = <<"queue", s>> /\ At("queue", s) /\ want[holder] = "start"
      /\ ~failed
      /\ UNCHANGED <<holder, callbacked, pcm, conn, want, userVars, cb, boundVars>>
  BY NowAt, StartCallMoves DEF Queue, Continue, FailStart, Fail, IInv, At
<1>2. /\ Continue(<<>>) => Goes({<<"go", s>>})
      /\ FailStart(s, StopStream(s)) => Goes({<<"abort", s>>}) /\ failed' = TRUE
  BY <1>1, StartCallMoves, FailMoves DEF IInv, Streams
<1>3. ~Idle /\ (holder[2] = "rx" => substreams["rx"] > 0)
  BY <1>1, Counting DEF IInv, Idle, TypeOK
<1>4. \/ ctx' = [ctx EXCEPT ![s] = "created"] /\ Revive(s) /\ failed' = FALSE /\ Goes({<<"go", s>>})
      \/ UNCHANGED <<ctx, dead, missed>> /\ failed' = TRUE /\ Goes({<<"abort", s>>})
  BY <1>1, <1>2 DEF Queue, Continue
<1>5. \/ failed' = FALSE /\ Goes({<<"go", s>>}) /\ ctx'[s] = "created" /\ ~dead'[s]
      \/ failed' = TRUE /\ Goes({<<"abort", s>>}) /\ UNCHANGED <<ctx, dead, missed>>
  BY <1>4 DEF IInv, TypeOK, Revive
<1>6. \A v \in Streams : v # s => ctx'[v] = ctx[v] /\ dead'[v] = dead[v] /\ missed'[v] = missed[v]
  BY <1>4 DEF IInv, TypeOK, Revive
<1>7. Plan'
  BY <1>1, <1>2, <1>3, <1>4, <1>5, <1>6 DEF Goes
<1>8. TypeOK'
  <2>1. /\ ctx' \in [Streams -> {"none", "created", "started"}]
        /\ dead' \in [Streams -> BOOLEAN] /\ callbacked' \in [Streams -> BOOLEAN]
        /\ missed' \in [Streams -> BOOLEAN] /\ failed' \in BOOLEAN
    BY <1>1, <1>4 DEF IInv, TypeOK, streamVars, Revive
<2> QED BY <2>1, <1>1, <1>7 DEF IInv, TypeOK, Plan, Streams, streamVars, pcmVars, userVars,
       boundVars
<1>9. Matching'
  <2> SUFFICES ASSUME NEW u \in Streams PROVE Sound(u)'
    BY DEF Matching
  <2>1. Sound(u)
    BY DEF IInv, Matching
<2> QED BY <2>1, <1>1, <1>3, <1>5, <1>6 DEF Sound, Doing, Goes, InCall, Calm, Running,
       streamVars, Streams
<1>10. GiveUp'
  BY <1>1, <1>3, <1>5, <1>6 DEF IInv, GiveUp, Goes, Running, streamVars, Streams
<1>11. Used'
BY <1>1, <1>3, <1>5, <1>6 DEF IInv, Used, Counted, ToStop, Idle, Doing, Goes, Running, Streams,
       streamVars, userVars
<1>12. Began'
  BY <1>1, <1>3, <1>5, <1>6 DEF IInv, Began, Goes, Doing, Running, streamVars, Streams
<1>13. Died'
  <2> SUFFICES ASSUME NEW u \in Streams PROVE Aborted(u)'
    BY DEF Died
  <2>1. Aborted(u)
    BY DEF IInv, Died
<2> QED BY <2>1, <1>1, <1>3, <1>5, <1>6 DEF Aborted, Goes, Doing, Startable, Told, CbAborts,
       Unchecked, Running, Streams, streamVars, userVars, pcmVars
<1> QED BY <1>7, <1>8, <1>9, <1>10, <1>11, <1>12, <1>13 DEF IInv

LEMMA GoKeeps ==
  ASSUME IInv, NEW s \in Streams, Go(s)
  PROVE  IInv'
<1>1. /\ holder # Nobody /\ Now = <<"go", s>> /\ At("go", s) /\ want[holder] = "start" /\ ~failed
      /\ UNCHANGED <<holder, pcm, conn, want, userVars, cb, boundVars>>
  BY NowAt, StartCallMoves DEF Go, Continue, FailStart, Fail, IInv, At
<1>2. /\ Continue(<<>>) => Goes({<<"wait", s>>})
      /\ FailStart(s, StopStream(s)) => Goes({<<"abort", s>>}) /\ failed' = TRUE
  BY <1>1, StartCallMoves, FailMoves DEF IInv, Streams
<1>3. ~Idle /\ (holder[2] = "rx" => substreams["rx"] > 0)
  BY <1>1, Counting DEF IInv, Idle, TypeOK
<1>4. /\ callbacked' = [callbacked EXCEPT ![s] = FALSE]
      /\ \/ /\ ctx' = [ctx EXCEPT ![s] = "started"] /\ (Revive(s) \/ UNCHANGED <<dead, missed>>)
            /\ failed' = FALSE /\ Goes({<<"wait", s>>})
         \/ /\ ctx' = [ctx EXCEPT ![s] = "none"] /\ UNCHANGED <<dead, missed>>
            /\ failed' = TRUE /\ Goes({<<"abort", s>>})
  BY <1>1, <1>2 DEF Go, Continue
<1>5. \/ /\ failed' = FALSE /\ Goes({<<"wait", s>>}) /\ ctx'[s] = "started"
         /\ dead'[s] => dead[s] /\ missed'[s] = missed[s]
      \/ failed' = TRUE /\ Goes({<<"abort", s>>}) /\ ctx'[s] = "none" /\ UNCHANGED <<dead, missed>>
  BY <1>4 DEF IInv, TypeOK, Revive
<1>6. \A v \in Streams : v # s => /\ ctx'[v] = ctx[v] /\ dead'[v] = dead[v] /\ missed'[v] = missed[v]
                                  /\ callbacked'[v] = callbacked[v]
  BY <1>4 DEF IInv, TypeOK, Revive
<1>7. Plan'
  BY <1>1, <1>2, <1>3, <1>4, <1>5, <1>6 DEF Goes
<1>8. TypeOK'
  <2>1. /\ ctx' \in [Streams -> {"none", "created", "started"}]
        /\ dead' \in [Streams -> BOOLEAN] /\ callbacked' \in [Streams -> BOOLEAN]
        /\ missed' \in [Streams -> BOOLEAN] /\ failed' \in BOOLEAN
    BY <1>1, <1>4 DEF IInv, TypeOK, streamVars, Revive
<2> QED BY <2>1, <1>1, <1>7 DEF IInv, TypeOK, Plan, Streams, streamVars, pcmVars, userVars,
       boundVars
<1>9. Matching'
  <2> SUFFICES ASSUME NEW u \in Streams PROVE Sound(u)'
    BY DEF Matching
  <2>1. Sound(u)
    BY DEF IInv, Matching
<2> QED BY <2>1, <1>1, <1>3, <1>5, <1>6 DEF Sound, Doing, Goes, InCall, Calm, Running,
       streamVars, Streams
<1>10. GiveUp'
  BY <1>1, <1>3, <1>5, <1>6 DEF IInv, GiveUp, Goes, Running, streamVars, Streams
<1>11. Used'
BY <1>1, <1>3, <1>5, <1>6 DEF IInv, Used, Counted, ToStop, Idle, Doing, Goes, Running, Streams,
       streamVars, userVars
<1>12. Began'
  BY <1>1, <1>3, <1>5, <1>6 DEF IInv, Began, Goes, Doing, Running, streamVars, Streams
<1>13. Died'
  <2> SUFFICES ASSUME NEW u \in Streams PROVE Aborted(u)'
    BY DEF Died
  <2>1. Aborted(u)
    BY DEF IInv, Died
<2> QED BY <2>1, <1>1, <1>3, <1>5, <1>6 DEF Aborted, Goes, Doing, Startable, Told, CbAborts,
       Unchecked, Running, Streams, streamVars, userVars, pcmVars, Matching, Sound, IInv
<1> QED BY <1>7, <1>8, <1>9, <1>10, <1>11, <1>12, <1>13 DEF IInv

\* Steps of stop_stream()
LEMMA AbortKeeps ==
  ASSUME IInv, NEW s \in Streams, Abort(s)
  PROVE  IInv'
<1>1. /\ holder # Nobody /\ Now = <<"abort", s>> /\ PcmAbort(s)
      /\ UNCHANGED <<holder, failed, streamVars, conn, want, midi, substreams, cb, boundVars>>
  BY NowAt DEF Abort, Continue
<1>2. Goes({<<"destroy", s>>})
  BY StopCallMoves DEF Abort, IInv
<1>3. /\ alsa'[s] = IF alsa[s] = "running" THEN "xrun" ELSE alsa[s]
      /\ (missed[s] \/ alsa[s] # "running" => missed'[s])
      /\ \A v \in Streams : v # s => alsa'[v] = alsa[v] /\ missed'[v] = missed[v]
  BY <1>1 DEF IInv, TypeOK, PcmAbort
<1>4. Plan'
  BY <1>1, <1>2, <1>3 DEF Goes
<1>5. TypeOK'
BY <1>1, <1>2, <1>3, <1>4 DEF IInv, TypeOK, Plan, Streams, streamVars, pcmVars, userVars,
       boundVars, PcmAbort
<1>6. Matching'
  <2> SUFFICES ASSUME NEW u \in Streams PROVE Sound(u)'
    BY DEF Matching
  <2>1. Sound(u)
    BY DEF IInv, Matching
<2> QED BY <2>1, <1>1, <1>2, <1>3 DEF Sound, Doing, Goes, InCall, Calm, Running, streamVars,
       Streams
<1>7. GiveUp'
  BY <1>1, <1>2, <1>3 DEF IInv, GiveUp, Goes, Running, streamVars, Streams
<1>8. Used'
BY <1>1, <1>2, <1>3 DEF IInv, Used, Counted, ToStop, Idle, Doing, Goes, Running, Streams,
       streamVars, userVars
<1>9. Began'
  BY <1>1, <1>2, <1>3 DEF IInv, Began, Goes, Doing, Running, streamVars, Streams
<1>10. Died'
  <2> SUFFICES ASSUME NEW u \in Streams PROVE Aborted(u)'
    BY DEF Died
  <2>1. Aborted(u)
    BY DEF IInv, Died
<2> QED BY <2>1, <1>1, <1>2, <1>3 DEF Aborted, Goes, Doing, Startable, Told, CbAborts,
       Unchecked, Running, Streams, streamVars, userVars, pcmVars
<1> QED BY <1>4, <1>5, <1>6, <1>7, <1>8, <1>9, <1>10 DEF IInv

LEMMA DestroyKeeps ==
  ASSUME IInv, NEW s \in Streams, Destroy(s)
  PROVE  IInv'
<1>1. /\ holder # Nobody /\ Now = <<"destroy", s>> /\ (s = "tx" => cb = "idle")
      /\ ctx' = [ctx EXCEPT ![s] = "none"]
      /\ UNCHANGED <<holder, failed, dead, callbacked, pcmVars, conn, want, userVars, cb, boundVars>>
  BY NowAt DEF Destroy, Continue
<1>2. \/ Goes({<<"break", s>>})
      \/ Goes({<<"clear", s>>})
  BY StopCallMoves DEF Destroy, IInv
<1>3. ctx'[s] = "none" /\ \A v \in Streams : v # s => ctx'[v] = ctx[v]
  BY <1>1 DEF IInv, TypeOK
<1>4. Plan'
  BY <1>1, <1>2, <1>3 DEF Goes
<1>5. TypeOK'
BY <1>1, <1>2, <1>3, <1>4 DEF IInv, TypeOK, Plan, Streams, streamVars, pcmVars, userVars,
       boundVars
<1>6. Matching'
  <2> SUFFICES ASSUME NEW u \in Streams PROVE Sound(u)'
    BY DEF Matching
  <2>1. Sound(u)
    BY DEF IInv, Matching
<2> QED BY <2>1, <1>1, <1>2, <1>3 DEF Sound, Doing, Goes, InCall, Calm, Running, streamVars,
       Streams
<1>7. GiveUp'
  BY <1>1, <1>2, <1>3 DEF IInv, GiveUp, Goes, Running, streamVars, Streams
<1>8. Used'
BY <1>1, <1>2, <1>3 DEF IInv, Used, Counted, ToStop, Idle, Doing, Goes, Running, Streams,
       streamVars, userVars
<1>9. Began'
  BY <1>1, <1>2, <1>3 DEF IInv, Began, Goes, Doing, Running, streamVars, Streams
<1>10. Died'
  <2> SUFFICES ASSUME NEW u \in Streams PROVE Aborted(u)'
    BY DEF Died
  <2>1. Aborted(u)
    BY DEF IInv, Died
<2> QED BY <2>1, <1>1, <1>2, <1>3 DEF Aborted, Goes, Doing, Startable, Told, CbAborts,
       Unchecked, Running, Streams, streamVars, userVars, pcmVars
<1> QED BY <1>4, <1>5, <1>6, <1>7, <1>8, <1>9, <1>10 DEF IInv

LEMMA ClearKeeps ==
  ASSUME IInv, NEW s \in Streams, Clear(s)
  PROVE  IInv'
<1>1. /\ holder # Nobody /\ Now = <<"clear", s>>
      /\ callbacked' = [callbacked EXCEPT ![s] = FALSE]
      /\ UNCHANGED <<holder, failed, ctx, dead, pcmVars, conn, want, userVars, cb, boundVars>>
  BY NowAt DEF Clear, Continue
<1>2. Goes({<<"break", s>>})
  BY StopCallMoves DEF Clear, IInv
<1>3. \A v \in Streams : v # s => callbacked'[v] = callbacked[v]
  BY <1>1 DEF IInv, TypeOK
<1>4. Plan'
  BY <1>1, <1>2, <1>3 DEF Goes
<1>5. TypeOK'
BY <1>1, <1>2, <1>3, <1>4 DEF IInv, TypeOK, Plan, Streams, streamVars, pcmVars, userVars,
       boundVars
<1>6. Matching'
  <2> SUFFICES ASSUME NEW u \in Streams PROVE Sound(u)'
    BY DEF Matching
  <2>1. Sound(u)
    BY DEF IInv, Matching
<2> QED BY <2>1, <1>1, <1>2, <1>3 DEF Sound, Doing, Goes, InCall, Calm, Running, streamVars,
       Streams
<1>7. GiveUp'
  BY <1>1, <1>2, <1>3 DEF IInv, GiveUp, Goes, Running, streamVars, Streams
<1>8. Used'
BY <1>1, <1>2, <1>3 DEF IInv, Used, Counted, ToStop, Idle, Doing, Goes, Running, Streams,
       streamVars, userVars
<1>9. Began'
  BY <1>1, <1>2, <1>3 DEF IInv, Began, Goes, Doing, Running, streamVars, Streams
<1>10. Died'
  <2> SUFFICES ASSUME NEW u \in Streams PROVE Aborted(u)'
    BY DEF Died
  <2>1. Aborted(u)
    BY DEF IInv, Died
<2> QED BY <2>1, <1>1, <1>2, <1>3 DEF Aborted, Goes, Doing, Startable, Told, CbAborts,
       Unchecked, Running, Streams, streamVars, userVars, pcmVars
<1> QED BY <1>4, <1>5, <1>6, <1>7, <1>8, <1>9, <1>10 DEF IInv

LEMMA BreakKeeps ==
  ASSUME IInv, NEW s \in Streams, Break(s)
  PROVE  IInv'
<1>1. /\ holder # Nobody /\ Now = <<"break", s>>
      /\ conn' = [conn EXCEPT ![s] = FALSE]
      /\ UNCHANGED <<holder, failed, streamVars, pcmVars, want, userVars, cb, boundVars>>
  BY NowAt DEF Break, Continue
<1>2. Goes(After(s, want[holder], failed))
  BY StopCallMoves DEF Break, IInv
<1>3. \/ want[holder] = "start" /\ ~failed /\ s = "tx" /\ Goes({<<"rate", "both">>, <<"master", "tx">>})
      \/ want[holder] = "start" /\ ~failed /\ s = "rx" /\ Goes({<<"errors", "tx">>, <<"abort", "tx">>})
      \/ (want[holder] # "start" \/ failed) /\ s = "tx" /\ Goes({<<"none", "both">>})
      \/ want[holder] = "stop" /\ s = "rx" /\ Goes({<<"stop", "tx">>})
      \/ (want[holder] = "giveup" \/ (want[holder] = "start" /\ failed)) /\ s = "rx" /\ Goes({<<"abort", "tx">>})
  BY <1>1, <1>2 DEF After, IInv, Plan, Streams, Goes
<1>4. ~conn'[s] /\ \A v \in Streams : v # s => conn'[v] = conn[v]
  BY <1>1 DEF IInv, TypeOK
<1>5. ~Running(s)
  BY <1>1 DEF IInv, Matching, Sound, Doing
<1>6. Plan'
  BY <1>1, <1>2, <1>3, <1>4, <1>5 DEF Goes
<1>7. TypeOK'
BY <1>1, <1>2, <1>3, <1>4, <1>5, <1>6 DEF IInv, TypeOK, Plan, Streams, streamVars, pcmVars,
       userVars, boundVars
<1>8. Matching'
  <2> SUFFICES ASSUME NEW u \in Streams PROVE Sound(u)'
    BY DEF Matching
  <2>1. Sound(u)
    BY DEF IInv, Matching
<2> QED BY <2>1, <1>1, <1>3, <1>4, <1>5 DEF Sound, Doing, Goes, InCall, Calm, Running,
       streamVars, Streams
<1>9. GiveUp'
  BY <1>1, <1>3, <1>4, <1>5 DEF IInv, GiveUp, Goes, Running, streamVars, Streams
<1>10. Used'
BY <1>1, <1>3, <1>4, <1>5 DEF IInv, Used, Counted, ToStop, Idle, Doing, Goes, Running, Streams,
       streamVars, userVars
<1>11. Began'
  BY <1>1, <1>3, <1>4, <1>5 DEF IInv, Began, Goes, Doing, Running, streamVars, Streams
<1>12. Died'
  <2> SUFFICES ASSUME NEW u \in Streams PROVE Aborted(u)'
    BY DEF Died
  <2>1. Aborted(u)
    BY DEF IInv, Died
<2> QED BY <2>1, <1>1, <1>3, <1>4, <1>5 DEF Aborted, Goes, Doing, Startable, Told, CbAborts,
       Unchecked, Running, Streams, streamVars, userVars, pcmVars
<1> QED BY <1>6, <1>7, <1>8, <1>9, <1>10, <1>11, <1>12 DEF IInv

\* The mutex is taken.
LEMMA TakeKeeps ==
  ASSUME IInv, NEW t \in Threads, Take(t)
  PROVE  IInv'
<1>1. /\ holder = Nobody /\ holder' = t /\ failed' = FALSE /\ t # Nobody
      /\ want[t] \in {"start", "stop", "giveup"}
      /\ UNCHANGED <<streamVars, pcmVars, conn, want, userVars, cb, boundVars>>
  BY Names DEF Take
<1>2. \/ want[t] = "start" /\ Plan' /\ Now' = <<"enter", "both">>
      \/ want[t] = "stop" /\ Plan' /\ Now' = <<"stop", "rx">>
      \/ want[t] = "giveup" /\ Plan' /\ Now' = <<"abort", "rx">>
  BY <1>1, TakeMoves
<1>3. Now = <<"none", "both">>
  BY <1>1 DEF IInv, Plan, Now, First
<1>4. want[t] = "giveup" => t = Upd
  BY Giver DEF IInv
<1>5. Plan'
  BY <1>1, <1>2, <1>3, <1>4 DEF Goes
<1>6. TypeOK'
BY <1>1, <1>2, <1>3, <1>4, <1>5 DEF IInv, TypeOK, Plan, Streams, streamVars, pcmVars, userVars,
       boundVars
<1>7. Matching'
  <2> SUFFICES ASSUME NEW u \in Streams PROVE Sound(u)'
    BY DEF Matching
  <2>1. Sound(u)
    BY DEF IInv, Matching
<2> QED BY <2>1, <1>1, <1>2, <1>3, <1>4 DEF Sound, Doing, Goes, InCall, Calm, Running,
       streamVars, Streams
<1>8. GiveUp'
  BY <1>1, <1>2, <1>3, <1>4 DEF IInv, GiveUp, Goes, Running, streamVars, Streams
<1>9. Used'
BY <1>1, <1>2, <1>3, <1>4 DEF IInv, Used, Counted, ToStop, Idle, Doing, Goes, Running, Streams,
       streamVars, userVars
<1>10. Began'
  BY <1>1, <1>2, <1>3, <1>4 DEF IInv, Began, Goes, Doing, Running, streamVars, Streams
<1>11. Died'
  <2> SUFFICES ASSUME NEW u \in Streams PROVE Aborted(u)'
    BY DEF Died
  <2>1. Aborted(u)
    BY DEF IInv, Died
<2> QED BY <2>1, <1>1, <1>2, <1>3, <1>4 DEF Aborted, Goes, Doing, Startable, Told, CbAborts,
       Unchecked, Running, Streams, streamVars, userVars, pcmVars
<1> QED BY <1>5, <1>6, <1>7, <1>8, <1>9, <1>10, <1>11 DEF IInv

\* Callbacks of the PCM and MIDI devices
LEMMA PcmHwParamsKeeps ==
  ASSUME IInv, NEW s \in Streams, PcmHwParams(s)
  PROVE  IInv'
<1>1. /\ alsa[s] = "open" /\ substreams[s] < MaxCount /\ want[Pcm(s)] = "none"
      /\ alsa' = [alsa EXCEPT ![s] = "setup"]
      /\ substreams' = [substreams EXCEPT ![s] = substreams[s] + 1]
      /\ UNCHANGED <<streamVars, pcmVars, conn, lockVars, want, midi, cb, boundVars>>
  BY DEF PcmHwParams, Count
<1>2. holder # Nobody => want'[holder] = want[holder]
  BY <1>1
<1>3. Plan' /\ Now' = Now /\ UNCHANGED <<holder, failed>>
  BY <1>1, <1>2, Elsewhere DEF IInv, lockVars
<1>4. alsa'[s] = "setup" /\ \A v \in Streams : v # s => alsa'[v] = alsa[v]
  BY <1>1 DEF IInv, TypeOK
<1>5. /\ substreams'[s] = substreams[s] + 1 /\ substreams[s] \in Nat
      /\ substreams'[s] <= MaxCount
      /\ \A v \in Streams : v # s => substreams'[v] = substreams[v]
  BY <1>1, EfwStreamsAssumption DEF IInv, TypeOK
<1>6. \A v \in Streams : substreams'[v] \in 0 .. MaxCount
  BY <1>1, <1>5, EfwStreamsAssumption DEF IInv, TypeOK
<1>7. Plan'
  BY <1>1, <1>2, <1>3, <1>4, <1>5, <1>6
<1>8. TypeOK'
BY <1>1, <1>2, <1>3, <1>4, <1>5, <1>6, <1>7 DEF IInv, TypeOK, Streams, streamVars, pcmVars,
       userVars, boundVars, lockVars
<1>9. Matching'
  <2> SUFFICES ASSUME NEW u \in Streams PROVE Sound(u)'
    BY DEF Matching
  <2>1. Sound(u)
    BY DEF IInv, Matching
<2> QED BY <2>1, <1>1, <1>2, <1>3, <1>4, <1>5, <1>6 DEF Sound, Doing, InCall, Calm, Running,
       streamVars, Streams, lockVars
<1>10. GiveUp'
  BY <1>1, <1>2, <1>3, <1>4, <1>5, <1>6 DEF IInv, GiveUp, Running, streamVars, Streams, lockVars
<1>11. Used'
BY <1>1, <1>2, <1>3, <1>4, <1>5, <1>6 DEF IInv, Used, Counted, ToStop, Idle, Doing, Running,
       Streams, streamVars, userVars, lockVars, boundVars
<1>12. Began'
BY <1>1, <1>2, <1>3, <1>4, <1>5, <1>6 DEF IInv, Began, Doing, Running, streamVars, Streams,
       lockVars
<1>13. Died'
  <2> SUFFICES ASSUME NEW u \in Streams PROVE Aborted(u)'
    BY DEF Died
  <2>1. Aborted(u)
    BY DEF IInv, Died
<2> QED BY <2>1, <1>1, <1>2, <1>3, <1>4, <1>5, <1>6 DEF Aborted, Doing, Startable, Told,
       CbAborts, Unchecked, Running, Streams, streamVars, userVars, pcmVars, lockVars, boundVars
<1> QED BY <1>7, <1>8, <1>9, <1>10, <1>11, <1>12, <1>13 DEF IInv

LEMMA PcmPrepareKeeps ==
  ASSUME IInv, NEW s \in Streams, PcmPrepare(s)
  PROVE  IInv'
<1>1. /\ alsa[s] \in {"setup", "prepared", "xrun"}
      /\ want[Pcm(s)] = "none" /\ want' = [want EXCEPT ![Pcm(s)] = "start"]
      /\ UNCHANGED <<streamVars, pcmVars, conn, lockVars, userVars, cb, boundVars>>
  BY DEF PcmPrepare, Call
<1>2. holder # Nobody => want'[holder] = want[holder]
  BY <1>1 DEF IInv, Plan, TypeOK, lockVars
<1>3. Plan' /\ Now' = Now /\ UNCHANGED <<holder, failed>>
  BY <1>1, <1>2, Elsewhere DEF IInv, lockVars
<1>4. /\ want[Pcm(s)] = "none" /\ want'[Pcm(s)] = "start" /\ want'[Upd] = want[Upd]
      /\ \A v \in Streams : v # s => want'[Pcm(v)] = want[Pcm(v)]
      /\ \A v \in Streams : want'[Midi(v)] = want[Midi(v)]
      /\ \A t \in Threads : t # Pcm(s) => want'[t] = want[t]
      /\ Pcm(s) \in Threads /\ Pcm(s) # holder /\ Pcm(s) # Upd
  BY <1>1, Names DEF IInv, TypeOK, Plan
<1>5. Plan'
  BY <1>1, <1>2, <1>3, <1>4
<1>6. TypeOK'
BY <1>1, <1>2, <1>3, <1>4, <1>5 DEF IInv, TypeOK, Streams, streamVars, pcmVars, userVars,
       boundVars, lockVars
<1>7. Matching'
  <2> SUFFICES ASSUME NEW u \in Streams PROVE Sound(u)'
    BY DEF Matching
  <2>1. Sound(u)
    BY DEF IInv, Matching
<2> QED BY <2>1, <1>1, <1>2, <1>3, <1>4 DEF Sound, Doing, InCall, Calm, Running, streamVars,
       Streams, lockVars
<1>8. GiveUp'
  BY <1>1, <1>2, <1>3, <1>4 DEF IInv, GiveUp, Running, streamVars, Streams, lockVars
<1>9. Used'
BY <1>1, <1>2, <1>3, <1>4 DEF IInv, Used, Counted, ToStop, Idle, Doing, Running, Streams,
       streamVars, userVars, lockVars, boundVars
<1>10. Began'
  BY <1>1, <1>2, <1>3, <1>4 DEF IInv, Began, Doing, Running, streamVars, Streams, lockVars
<1>11. Died'
  <2> SUFFICES ASSUME NEW u \in Streams PROVE Aborted(u)'
    BY DEF Died
  <2>1. Aborted(u)
    BY DEF IInv, Died
<2> QED BY <2>1, <1>1, <1>2, <1>3, <1>4 DEF Aborted, Doing, Startable, Told, CbAborts,
       Unchecked, Running, Streams, streamVars, userVars, pcmVars, lockVars, boundVars
<1> QED BY <1>5, <1>6, <1>7, <1>8, <1>9, <1>10, <1>11 DEF IInv

LEMMA PcmHwFreeKeeps ==
  ASSUME IInv, NEW s \in Streams, PcmHwFree(s)
  PROVE  IInv'
<1>1. /\ alsa[s] \in {"setup", "prepared"}
      /\ want[Pcm(s)] = "none" /\ want' = [want EXCEPT ![Pcm(s)] = "stop"]
      /\ substreams' = [substreams EXCEPT ![s] = substreams[s] - 1]
      /\ UNCHANGED <<streamVars, pcmVars, conn, lockVars, alsa, midi, cb, boundVars>>
  BY DEF PcmHwFree, Call, Count
<1>2. holder # Nobody => want'[holder] = want[holder]
  BY <1>1 DEF IInv, Plan, TypeOK, lockVars
<1>3. Plan' /\ Now' = Now /\ UNCHANGED <<holder, failed>>
  BY <1>1, <1>2, Elsewhere DEF IInv, lockVars
<1>4. /\ want[Pcm(s)] = "none" /\ want'[Pcm(s)] = "stop" /\ want'[Upd] = want[Upd]
      /\ \A v \in Streams : v # s => want'[Pcm(v)] = want[Pcm(v)]
      /\ \A v \in Streams : want'[Midi(v)] = want[Midi(v)]
      /\ \A t \in Threads : t # Pcm(s) => want'[t] = want[t]
      /\ Pcm(s) \in Threads /\ Pcm(s) # holder /\ Pcm(s) # Upd
  BY <1>1, Names DEF IInv, TypeOK, Plan
<1>5. /\ substreams'[s] = substreams[s] - 1 /\ substreams[s] \in Nat /\ substreams[s] > 0
      /\ \A v \in Streams : v # s => substreams'[v] = substreams[v]
  <2>1. substreams[s] > 0
    BY <1>1, <1>4 DEF IInv, Used, Counted
  <2> QED BY <2>1, <1>1, EfwStreamsAssumption DEF IInv, TypeOK
<1>6. \A v \in Streams : substreams'[v] \in 0 .. MaxCount
  BY <1>1, <1>5, EfwStreamsAssumption DEF IInv, TypeOK
<1>7. Plan'
  BY <1>1, <1>2, <1>3, <1>4, <1>5, <1>6
<1>8. TypeOK'
BY <1>1, <1>2, <1>3, <1>4, <1>5, <1>6, <1>7 DEF IInv, TypeOK, Streams, streamVars, pcmVars,
       userVars, boundVars, lockVars
<1>9. Matching'
  <2> SUFFICES ASSUME NEW u \in Streams PROVE Sound(u)'
    BY DEF Matching
  <2>1. Sound(u)
    BY DEF IInv, Matching
<2> QED BY <2>1, <1>1, <1>2, <1>3, <1>4, <1>5, <1>6 DEF Sound, Doing, InCall, Calm, Running,
       streamVars, Streams, lockVars
<1>10. GiveUp'
  BY <1>1, <1>2, <1>3, <1>4, <1>5, <1>6 DEF IInv, GiveUp, Running, streamVars, Streams, lockVars
<1>11. Used'
BY <1>1, <1>2, <1>3, <1>4, <1>5, <1>6 DEF IInv, Used, Counted, ToStop, Idle, Doing, Running,
       Streams, streamVars, userVars, lockVars, boundVars
<1>12. Began'
BY <1>1, <1>2, <1>3, <1>4, <1>5, <1>6 DEF IInv, Began, Doing, Running, streamVars, Streams,
       lockVars
<1>13. Died'
  <2> SUFFICES ASSUME NEW u \in Streams PROVE Aborted(u)'
    BY DEF Died
  <2>1. Aborted(u)
    BY DEF IInv, Died
<2> QED BY <2>1, <1>1, <1>2, <1>3, <1>4, <1>5, <1>6 DEF Aborted, Doing, Startable, Told,
       CbAborts, Unchecked, Running, Streams, streamVars, userVars, pcmVars, lockVars, boundVars
<1> QED BY <1>7, <1>8, <1>9, <1>10, <1>11, <1>12, <1>13 DEF IInv

LEMMA PcmStartKeeps ==
  ASSUME IInv, NEW s \in Streams, PcmStart(s)
  PROVE  IInv'
<1>1. /\ alsa[s] = "prepared" /\ want[Pcm(s)] = "none"
      /\ alsa' = [alsa EXCEPT ![s] = "running"] /\ pcm' = [pcm EXCEPT ![s] = TRUE]
      /\ UNCHANGED <<streamVars, missed, conn, lockVars, want, midi, substreams, cb, boundVars>>
  BY DEF PcmStart
<1>2. holder # Nobody => want'[holder] = want[holder]
  BY <1>1
<1>3. Plan' /\ Now' = Now /\ UNCHANGED <<holder, failed>>
  BY <1>1, <1>2, Elsewhere DEF IInv, lockVars
<1>4. alsa'[s] = "running" /\ \A v \in Streams : v # s => alsa'[v] = alsa[v]
  BY <1>1 DEF IInv, TypeOK
<1>5. Plan'
  BY <1>1, <1>2, <1>3, <1>4
<1>6. TypeOK'
BY <1>1, <1>2, <1>3, <1>4, <1>5 DEF IInv, TypeOK, Streams, streamVars, pcmVars, userVars,
       boundVars, lockVars
<1>7. Matching'
  <2> SUFFICES ASSUME NEW u \in Streams PROVE Sound(u)'
    BY DEF Matching
  <2>1. Sound(u)
    BY DEF IInv, Matching
<2> QED BY <2>1, <1>1, <1>2, <1>3, <1>4 DEF Sound, Doing, InCall, Calm, Running, streamVars,
       Streams, lockVars
<1>8. GiveUp'
  BY <1>1, <1>2, <1>3, <1>4 DEF IInv, GiveUp, Running, streamVars, Streams, lockVars
<1>9. Used'
BY <1>1, <1>2, <1>3, <1>4 DEF IInv, Used, Counted, ToStop, Idle, Doing, Running, Streams,
       streamVars, userVars, lockVars, boundVars
<1>10. Began'
  BY <1>1, <1>2, <1>3, <1>4 DEF IInv, Began, Doing, Running, streamVars, Streams, lockVars
<1>11. Died'
  <2> SUFFICES ASSUME NEW u \in Streams PROVE Aborted(u)'
    BY DEF Died
  <2>1. Aborted(u)
    BY DEF IInv, Died
<2> QED BY <2>1, <1>1, <1>2, <1>3, <1>4 DEF Aborted, Doing, Startable, Told, CbAborts,
       Unchecked, Running, Streams, streamVars, userVars, pcmVars, lockVars, boundVars
<1> QED BY <1>5, <1>6, <1>7, <1>8, <1>9, <1>10, <1>11 DEF IInv

LEMMA PcmDropKeeps ==
  ASSUME IInv, NEW s \in Streams, PcmDrop(s)
  PROVE  IInv'
<1>1. /\ alsa[s] \in {"running", "xrun"} /\ want[Pcm(s)] = "none"
      /\ alsa' = [alsa EXCEPT ![s] = "setup"] /\ pcm' = [pcm EXCEPT ![s] = FALSE]
      /\ UNCHANGED <<streamVars, missed, conn, lockVars, want, midi, substreams, cb, boundVars>>
  BY DEF PcmDrop
<1>2. holder # Nobody => want'[holder] = want[holder]
  BY <1>1
<1>3. Plan' /\ Now' = Now /\ UNCHANGED <<holder, failed>>
  BY <1>1, <1>2, Elsewhere DEF IInv, lockVars
<1>4. alsa'[s] = "setup" /\ \A v \in Streams : v # s => alsa'[v] = alsa[v]
  BY <1>1 DEF IInv, TypeOK
<1>5. Plan'
  BY <1>1, <1>2, <1>3, <1>4
<1>6. TypeOK'
BY <1>1, <1>2, <1>3, <1>4, <1>5 DEF IInv, TypeOK, Streams, streamVars, pcmVars, userVars,
       boundVars, lockVars
<1>7. Matching'
  <2> SUFFICES ASSUME NEW u \in Streams PROVE Sound(u)'
    BY DEF Matching
  <2>1. Sound(u)
    BY DEF IInv, Matching
<2> QED BY <2>1, <1>1, <1>2, <1>3, <1>4 DEF Sound, Doing, InCall, Calm, Running, streamVars,
       Streams, lockVars
<1>8. GiveUp'
  BY <1>1, <1>2, <1>3, <1>4 DEF IInv, GiveUp, Running, streamVars, Streams, lockVars
<1>9. Used'
BY <1>1, <1>2, <1>3, <1>4 DEF IInv, Used, Counted, ToStop, Idle, Doing, Running, Streams,
       streamVars, userVars, lockVars, boundVars
<1>10. Began'
  BY <1>1, <1>2, <1>3, <1>4 DEF IInv, Began, Doing, Running, streamVars, Streams, lockVars
<1>11. Died'
  <2> SUFFICES ASSUME NEW u \in Streams PROVE Aborted(u)'
    BY DEF Died
  <2>1. Aborted(u)
    BY DEF IInv, Died
<2> QED BY <2>1, <1>1, <1>2, <1>3, <1>4 DEF Aborted, Doing, Startable, Told, CbAborts,
       Unchecked, Running, Streams, streamVars, userVars, pcmVars, lockVars, boundVars
<1> QED BY <1>5, <1>6, <1>7, <1>8, <1>9, <1>10, <1>11 DEF IInv

LEMMA MidiOpenKeeps ==
  ASSUME IInv, NEW s \in Streams, MidiOpen(s)
  PROVE  IInv'
<1>1. /\ s \in MidiPorts \ midi /\ substreams[s] < MaxCount
      /\ want[Midi(s)] = "none" /\ want' = [want EXCEPT ![Midi(s)] = "start"]
      /\ substreams' = [substreams EXCEPT ![s] = substreams[s] + 1]
      /\ UNCHANGED <<streamVars, pcmVars, conn, lockVars, alsa, midi, cb, boundVars>>
  BY DEF MidiOpen, Call, Count
<1>2. holder # Nobody => want'[holder] = want[holder]
  BY <1>1 DEF IInv, Plan, TypeOK, lockVars
<1>3. Plan' /\ Now' = Now /\ UNCHANGED <<holder, failed>>
  BY <1>1, <1>2, Elsewhere DEF IInv, lockVars
<1>4. /\ want[Midi(s)] = "none" /\ want'[Midi(s)] = "start" /\ want'[Upd] = want[Upd]
      /\ \A v \in Streams : v # s => want'[Midi(v)] = want[Midi(v)]
      /\ \A v \in Streams : want'[Pcm(v)] = want[Pcm(v)]
      /\ \A t \in Threads : t # Midi(s) => want'[t] = want[t]
      /\ Midi(s) \in Threads /\ Midi(s) # holder /\ Midi(s) # Upd
  BY <1>1, Names DEF IInv, TypeOK, Plan
<1>5. /\ substreams'[s] = substreams[s] + 1 /\ substreams[s] \in Nat
      /\ substreams'[s] <= MaxCount
      /\ \A v \in Streams : v # s => substreams'[v] = substreams[v]
  BY <1>1, EfwStreamsAssumption DEF IInv, TypeOK
<1>6. \A v \in Streams : substreams'[v] \in 0 .. MaxCount
  BY <1>1, <1>5, EfwStreamsAssumption DEF IInv, TypeOK
<1>7. Plan'
  BY <1>1, <1>2, <1>3, <1>4, <1>5, <1>6
<1>8. TypeOK'
BY <1>1, <1>2, <1>3, <1>4, <1>5, <1>6, <1>7 DEF IInv, TypeOK, Streams, streamVars, pcmVars,
       userVars, boundVars, lockVars
<1>9. Matching'
  <2> SUFFICES ASSUME NEW u \in Streams PROVE Sound(u)'
    BY DEF Matching
  <2>1. Sound(u)
    BY DEF IInv, Matching
<2> QED BY <2>1, <1>1, <1>2, <1>3, <1>4, <1>5, <1>6 DEF Sound, Doing, InCall, Calm, Running,
       streamVars, Streams, lockVars
<1>10. GiveUp'
  BY <1>1, <1>2, <1>3, <1>4, <1>5, <1>6 DEF IInv, GiveUp, Running, streamVars, Streams, lockVars
<1>11. Used'
BY <1>1, <1>2, <1>3, <1>4, <1>5, <1>6 DEF IInv, Used, Counted, ToStop, Idle, Doing, Running,
       Streams, streamVars, userVars, lockVars, boundVars
<1>12. Began'
BY <1>1, <1>2, <1>3, <1>4, <1>5, <1>6 DEF IInv, Began, Doing, Running, streamVars, Streams,
       lockVars
<1>13. Died'
  <2> SUFFICES ASSUME NEW u \in Streams PROVE Aborted(u)'
    BY DEF Died
  <2>1. Aborted(u)
    BY DEF IInv, Died
<2> QED BY <2>1, <1>1, <1>2, <1>3, <1>4, <1>5, <1>6 DEF Aborted, Doing, Startable, Told,
       CbAborts, Unchecked, Running, Streams, streamVars, userVars, pcmVars, lockVars, boundVars
<1> QED BY <1>7, <1>8, <1>9, <1>10, <1>11, <1>12, <1>13 DEF IInv

LEMMA MidiCloseKeeps ==
  ASSUME IInv, NEW s \in Streams, MidiClose(s)
  PROVE  IInv'
<1>1. /\ s \in midi /\ midi' = midi \ {s}
      /\ want[Midi(s)] = "none" /\ want' = [want EXCEPT ![Midi(s)] = "stop"]
      /\ substreams' = [substreams EXCEPT ![s] = substreams[s] - 1]
      /\ UNCHANGED <<streamVars, pcmVars, conn, lockVars, alsa, cb, boundVars>>
  BY DEF MidiClose, Call, Count
<1>2. holder # Nobody => want'[holder] = want[holder]
  BY <1>1 DEF IInv, Plan, TypeOK, lockVars
<1>3. Plan' /\ Now' = Now /\ UNCHANGED <<holder, failed>>
  BY <1>1, <1>2, Elsewhere DEF IInv, lockVars
<1>4. /\ want[Midi(s)] = "none" /\ want'[Midi(s)] = "stop" /\ want'[Upd] = want[Upd]
      /\ \A v \in Streams : v # s => want'[Midi(v)] = want[Midi(v)]
      /\ \A v \in Streams : want'[Pcm(v)] = want[Pcm(v)]
      /\ \A t \in Threads : t # Midi(s) => want'[t] = want[t]
      /\ Midi(s) \in Threads /\ Midi(s) # holder /\ Midi(s) # Upd
  BY <1>1, Names DEF IInv, TypeOK, Plan
<1>5. /\ substreams'[s] = substreams[s] - 1 /\ substreams[s] \in Nat /\ substreams[s] > 0
      /\ \A v \in Streams : v # s => substreams'[v] = substreams[v]
  <2>1. substreams[s] > 0
    BY <1>1, <1>4 DEF IInv, Used, Counted
  <2> QED BY <2>1, <1>1, EfwStreamsAssumption DEF IInv, TypeOK
<1>6. \A v \in Streams : substreams'[v] \in 0 .. MaxCount
  BY <1>1, <1>5, EfwStreamsAssumption DEF IInv, TypeOK
<1>7. Plan'
  BY <1>1, <1>2, <1>3, <1>4, <1>5, <1>6
<1>8. TypeOK'
BY <1>1, <1>2, <1>3, <1>4, <1>5, <1>6, <1>7 DEF IInv, TypeOK, Streams, streamVars, pcmVars,
       userVars, boundVars, lockVars
<1>9. Matching'
  <2> SUFFICES ASSUME NEW u \in Streams PROVE Sound(u)'
    BY DEF Matching
  <2>1. Sound(u)
    BY DEF IInv, Matching
<2> QED BY <2>1, <1>1, <1>2, <1>3, <1>4, <1>5, <1>6 DEF Sound, Doing, InCall, Calm, Running,
       streamVars, Streams, lockVars
<1>10. GiveUp'
  BY <1>1, <1>2, <1>3, <1>4, <1>5, <1>6 DEF IInv, GiveUp, Running, streamVars, Streams, lockVars
<1>11. Used'
BY <1>1, <1>2, <1>3, <1>4, <1>5, <1>6 DEF IInv, Used, Counted, ToStop, Idle, Doing, Running,
       Streams, streamVars, userVars, lockVars, boundVars
<1>12. Began'
BY <1>1, <1>2, <1>3, <1>4, <1>5, <1>6 DEF IInv, Began, Doing, Running, streamVars, Streams,
       lockVars
<1>13. Died'
  <2> SUFFICES ASSUME NEW u \in Streams PROVE Aborted(u)'
    BY DEF Died
  <2>1. Aborted(u)
    BY DEF IInv, Died
<2> QED BY <2>1, <1>1, <1>2, <1>3, <1>4, <1>5, <1>6 DEF Aborted, Doing, Startable, Told,
       CbAborts, Unchecked, Running, Streams, streamVars, userVars, pcmVars, lockVars, boundVars
<1> QED BY <1>7, <1>8, <1>9, <1>10, <1>11, <1>12, <1>13 DEF IInv

\* The .update handler
LEMMA UpdateOutKeeps ==
  ASSUME IInv, UpdateOut
  PROVE  IInv'
<1>1. /\ want[Upd] = "none" /\ resets < MaxResets
      /\ resets' = resets + 1
      /\ \/ want' = [want EXCEPT ![Upd] = "update"] /\ UNCHANGED conn
         \/ /\ conn' = [conn EXCEPT !["tx"] = FALSE]
            /\ want' = [want EXCEPT ![Upd] = "giveup"]
      /\ UNCHANGED <<streamVars, pcmVars, lockVars, userVars, cb, errors>>
  BY DEF UpdateOut, Lose
<1>2. holder # Nobody => want'[holder] = want[holder]
  BY <1>1 DEF IInv, Plan, TypeOK, lockVars
<1>3. Plan' /\ Now' = Now /\ UNCHANGED <<holder, failed>>
  BY <1>1, <1>2, Elsewhere DEF IInv, lockVars
<1>4. /\ \/ want'[Upd] = "update" /\ UNCHANGED conn
         \/ want'[Upd] = "giveup" /\ ~conn'["tx"] /\ \A v \in Streams : v # "tx" => conn'[v] = conn[v]
      /\ \A v \in Streams : want'[Pcm(v)] = want[Pcm(v)] /\ want'[Midi(v)] = want[Midi(v)]
      /\ \A t \in Threads : t # Upd => want'[t] = want[t]
      /\ holder # Upd
  BY <1>1, Names DEF IInv, TypeOK, Plan, Streams
<1>5. Plan'
  BY <1>1, <1>2, <1>3, <1>4
<1>6. TypeOK'
  <2>1. /\ want' \in [Threads -> {"none", "start", "stop", "update", "giveup"}]
        /\ conn' \in [Streams -> BOOLEAN] /\ resets' \in 0 .. MaxResets
    <3>1. resets' \in 0 .. MaxResets
      BY <1>1, EfwStreamsAssumption DEF IInv, TypeOK, boundVars
    <3>2. want' \in [Threads -> {"none", "start", "stop", "update", "giveup"}]
      <4>1. \E w \in {"none", "update", "giveup"} : want' = [want EXCEPT ![Upd] = w]
        BY <1>1
      <4> QED BY <4>1 DEF IInv, TypeOK
    <3>3. conn' \in [Streams -> BOOLEAN]
      BY <1>1 DEF IInv, TypeOK
    <3> QED BY <3>1, <3>2, <3>3
  <2>2. UNCHANGED <<streamVars, pcmVars, lockVars, userVars, cb, errors>> /\ (cb' = cb)
    BY <1>1
<2> QED BY <2>1, <2>2, <1>3 DEF IInv, TypeOK, Streams, streamVars, pcmVars, userVars, boundVars,
       lockVars
<1>7. Matching'
  <2> SUFFICES ASSUME NEW u \in Streams PROVE Sound(u)'
    BY DEF Matching
  <2>1. Sound(u)
    BY DEF IInv, Matching
<2> QED BY <2>1, <1>1, <1>2, <1>3, <1>4 DEF Sound, Doing, InCall, Calm, Running, streamVars,
       Streams, lockVars
<1>8. GiveUp'
  BY <1>1, <1>2, <1>3, <1>4 DEF IInv, GiveUp, Running, streamVars, Streams, lockVars
<1>9. Used'
BY <1>1, <1>2, <1>3, <1>4 DEF IInv, Used, Counted, ToStop, Idle, Doing, Running, Streams,
       streamVars, userVars, lockVars, boundVars
<1>10. Began'
  BY <1>1, <1>2, <1>3, <1>4 DEF IInv, Began, Doing, Running, streamVars, Streams, lockVars
<1>11. Died'
  <2> SUFFICES ASSUME NEW u \in Streams PROVE Aborted(u)'
    BY DEF Died
  <2>1. Aborted(u)
    BY DEF IInv, Died
<2> QED BY <2>1, <1>1, <1>2, <1>3, <1>4 DEF Aborted, Doing, Startable, Told, CbAborts,
       Unchecked, Running, Streams, streamVars, userVars, pcmVars, lockVars, boundVars
<1> QED BY <1>5, <1>6, <1>7, <1>8, <1>9, <1>10, <1>11 DEF IInv

LEMMA UpdateInKeeps ==
  ASSUME IInv, UpdateIn
  PROVE  IInv'
<1>1. /\ want[Upd] = "update"
      /\ \/ want' = [want EXCEPT ![Upd] = "none"] /\ UNCHANGED conn
         \/ /\ conn' = [conn EXCEPT !["rx"] = FALSE]
            /\ want' = [want EXCEPT ![Upd] = "giveup"]
      /\ UNCHANGED <<streamVars, pcmVars, lockVars, userVars, cb, boundVars>>
  BY DEF UpdateIn, Lose
<1>2. holder # Nobody => want'[holder] = want[holder]
  BY <1>1 DEF IInv, Plan, TypeOK, lockVars
<1>3. Plan' /\ Now' = Now /\ UNCHANGED <<holder, failed>>
  BY <1>1, <1>2, Elsewhere DEF IInv, lockVars
<1>4. /\ \/ want'[Upd] = "none" /\ UNCHANGED conn
         \/ want'[Upd] = "giveup" /\ ~conn'["rx"] /\ \A v \in Streams : v # "rx" => conn'[v] = conn[v]
      /\ \A v \in Streams : want'[Pcm(v)] = want[Pcm(v)] /\ want'[Midi(v)] = want[Midi(v)]
      /\ \A t \in Threads : t # Upd => want'[t] = want[t]
      /\ holder # Upd
  BY <1>1, Names DEF IInv, TypeOK, Plan, Streams
<1>5. Plan'
  BY <1>1, <1>2, <1>3, <1>4
<1>6. TypeOK'
  <2>1. /\ want' \in [Threads -> {"none", "start", "stop", "update", "giveup"}]
        /\ conn' \in [Streams -> BOOLEAN] /\ resets' \in 0 .. MaxResets
    <3>1. resets' \in 0 .. MaxResets
      BY <1>1, EfwStreamsAssumption DEF IInv, TypeOK, boundVars
    <3>2. want' \in [Threads -> {"none", "start", "stop", "update", "giveup"}]
      <4>1. \E w \in {"none", "update", "giveup"} : want' = [want EXCEPT ![Upd] = w]
        BY <1>1
      <4> QED BY <4>1 DEF IInv, TypeOK
    <3>3. conn' \in [Streams -> BOOLEAN]
      BY <1>1 DEF IInv, TypeOK
    <3> QED BY <3>1, <3>2, <3>3
  <2>2. UNCHANGED <<streamVars, pcmVars, lockVars, userVars, cb, boundVars>> /\ (cb' = cb)
    BY <1>1
<2> QED BY <2>1, <2>2, <1>3 DEF IInv, TypeOK, Streams, streamVars, pcmVars, userVars, boundVars,
       lockVars
<1>7. Matching'
  <2> SUFFICES ASSUME NEW u \in Streams PROVE Sound(u)'
    BY DEF Matching
  <2>1. Sound(u)
    BY DEF IInv, Matching
<2> QED BY <2>1, <1>1, <1>2, <1>3, <1>4 DEF Sound, Doing, InCall, Calm, Running, streamVars,
       Streams, lockVars
<1>8. GiveUp'
  BY <1>1, <1>2, <1>3, <1>4 DEF IInv, GiveUp, Running, streamVars, Streams, lockVars
<1>9. Used'
BY <1>1, <1>2, <1>3, <1>4 DEF IInv, Used, Counted, ToStop, Idle, Doing, Running, Streams,
       streamVars, userVars, lockVars, boundVars
<1>10. Began'
  BY <1>1, <1>2, <1>3, <1>4 DEF IInv, Began, Doing, Running, streamVars, Streams, lockVars
<1>11. Died'
  <2> SUFFICES ASSUME NEW u \in Streams PROVE Aborted(u)'
    BY DEF Died
  <2>1. Aborted(u)
    BY DEF IInv, Died
<2> QED BY <2>1, <1>1, <1>2, <1>3, <1>4 DEF Aborted, Doing, Startable, Told, CbAborts,
       Unchecked, Running, Streams, streamVars, userVars, pcmVars, lockVars, boundVars
<1> QED BY <1>5, <1>6, <1>7, <1>8, <1>9, <1>10, <1>11 DEF IInv

\* Isochronous callbacks
LEMMA FirstCallbackKeeps ==
  ASSUME IInv, NEW s \in Streams, FirstCallback(s)
  PROVE  IInv'
<1>1. /\ callbacked' = [callbacked EXCEPT ![s] = TRUE]
      /\ UNCHANGED <<ctx, dead, pcmVars, conn, lockVars, want, userVars, cb, boundVars>>
  BY DEF FirstCallback
<1>2. holder # Nobody => want'[holder] = want[holder]
  BY <1>1
<1>3. Plan' /\ Now' = Now /\ UNCHANGED <<holder, failed>>
  BY <1>1, <1>2, Elsewhere DEF IInv, lockVars
<1>4. callbacked'[s] /\ \A v \in Streams : v # s => callbacked'[v] = callbacked[v]
  BY <1>1 DEF IInv, TypeOK
<1>5. Plan'
  BY <1>1, <1>2, <1>3, <1>4
<1>6. TypeOK'
BY <1>1, <1>2, <1>3, <1>4, <1>5 DEF IInv, TypeOK, Streams, streamVars, pcmVars, userVars,
       boundVars, lockVars
<1>7. Matching'
  <2> SUFFICES ASSUME NEW u \in Streams PROVE Sound(u)'
    BY DEF Matching
  <2>1. Sound(u)
    BY DEF IInv, Matching
<2> QED BY <2>1, <1>1, <1>2, <1>3, <1>4 DEF Sound, Doing, InCall, Calm, Running, streamVars,
       Streams, lockVars
<1>8. GiveUp'
  BY <1>1, <1>2, <1>3, <1>4 DEF IInv, GiveUp, Running, streamVars, Streams, lockVars
<1>9. Used'
BY <1>1, <1>2, <1>3, <1>4 DEF IInv, Used, Counted, ToStop, Idle, Doing, Running, Streams,
       streamVars, userVars, lockVars, boundVars
<1>10. Began'
  BY <1>1, <1>2, <1>3, <1>4 DEF IInv, Began, Doing, Running, streamVars, Streams, lockVars
<1>11. Died'
  <2> SUFFICES ASSUME NEW u \in Streams PROVE Aborted(u)'
    BY DEF Died
  <2>1. Aborted(u)
    BY DEF IInv, Died
<2> QED BY <2>1, <1>1, <1>2, <1>3, <1>4 DEF Aborted, Doing, Startable, Told, CbAborts,
       Unchecked, Running, Streams, streamVars, userVars, pcmVars, lockVars, boundVars
<1> QED BY <1>5, <1>6, <1>7, <1>8, <1>9, <1>10, <1>11 DEF IInv

LEMMA SlaveQueueErrorKeeps ==
  ASSUME IInv, SlaveQueueError
  PROVE  IInv'
<1>1. /\ cb = "idle" /\ cb' = "slaveAbort" /\ errors < MaxErrors /\ errors' = errors + 1
      /\ dead' = [dead EXCEPT !["rx"] = TRUE]
      /\ UNCHANGED <<ctx, callbacked, pcmVars, conn, lockVars, want, userVars, resets>>
  BY DEF SlaveQueueError, InCallback
<1>2. holder # Nobody => want'[holder] = want[holder]
  BY <1>1
<1>3. Plan' /\ Now' = Now /\ UNCHANGED <<holder, failed>>
  BY <1>1, <1>2, Elsewhere DEF IInv, lockVars
<1>4. dead'["rx"] /\ \A v \in Streams : v # "rx" => dead'[v] = dead[v]
  BY <1>1 DEF IInv, TypeOK, Streams
<1>5. Plan'
  BY <1>1, <1>2, <1>3, <1>4
<1>6. TypeOK'
  <2>1. dead' \in [Streams -> BOOLEAN] /\ errors' \in 0 .. MaxErrors
    BY <1>1, EfwStreamsAssumption DEF IInv, TypeOK, boundVars, Streams
  <2>2. /\ UNCHANGED <<ctx, callbacked, pcmVars, conn, lockVars, want, userVars, resets>>
        /\ cb' \in {"idle", "slaveAbort", "masterAbort", "slaveError", "slaveErrorAbort"}
    BY <1>1
<2> QED BY <2>1, <2>2, <1>3 DEF IInv, TypeOK, Streams, streamVars, pcmVars, userVars, boundVars,
       lockVars
<1>7. Matching'
  <2> SUFFICES ASSUME NEW u \in Streams PROVE Sound(u)'
    BY DEF Matching
  <2>1. Sound(u)
    BY DEF IInv, Matching
<2> QED BY <2>1, <1>1, <1>2, <1>3, <1>4 DEF Sound, Doing, InCall, Calm, Running, streamVars,
       Streams, lockVars
<1>8. GiveUp'
  BY <1>1, <1>2, <1>3, <1>4 DEF IInv, GiveUp, Running, streamVars, Streams, lockVars
<1>9. Used'
BY <1>1, <1>2, <1>3, <1>4 DEF IInv, Used, Counted, ToStop, Idle, Doing, Running, Streams,
       streamVars, userVars, lockVars, boundVars
<1>10. Began'
  BY <1>1, <1>2, <1>3, <1>4 DEF IInv, Began, Doing, Running, streamVars, Streams, lockVars
<1>11. Died'
  <2> SUFFICES ASSUME NEW u \in Streams PROVE Aborted(u)'
    BY DEF Died
  <2>1. Aborted(u)
    BY DEF IInv, Died
<2> QED BY <2>1, <1>1, <1>2, <1>3, <1>4 DEF Aborted, Doing, Startable, Told, CbAborts,
       Unchecked, Running, Streams, streamVars, userVars, pcmVars, lockVars, boundVars
<1> QED BY <1>5, <1>6, <1>7, <1>8, <1>9, <1>10, <1>11 DEF IInv

LEMMA MasterErrorKeeps ==
  ASSUME IInv, MasterError
  PROVE  IInv'
<1>1. /\ cb = "idle" /\ cb' = "masterAbort" /\ errors < MaxErrors /\ errors' = errors + 1
      /\ dead' = [dead EXCEPT !["tx"] = TRUE]
      /\ UNCHANGED <<ctx, callbacked, pcmVars, conn, lockVars, want, userVars, resets>>
  BY DEF MasterError, InCallback
<1>2. holder # Nobody => want'[holder] = want[holder]
  BY <1>1
<1>3. Plan' /\ Now' = Now /\ UNCHANGED <<holder, failed>>
  BY <1>1, <1>2, Elsewhere DEF IInv, lockVars
<1>4. dead'["tx"] /\ \A v \in Streams : v # "tx" => dead'[v] = dead[v]
  BY <1>1 DEF IInv, TypeOK, Streams
<1>5. Plan'
  BY <1>1, <1>2, <1>3, <1>4
<1>6. TypeOK'
  <2>1. dead' \in [Streams -> BOOLEAN] /\ errors' \in 0 .. MaxErrors
    BY <1>1, EfwStreamsAssumption DEF IInv, TypeOK, boundVars, Streams
  <2>2. /\ UNCHANGED <<ctx, callbacked, pcmVars, conn, lockVars, want, userVars, resets>>
        /\ cb' \in {"idle", "slaveAbort", "masterAbort", "slaveError", "slaveErrorAbort"}
    BY <1>1
<2> QED BY <2>1, <2>2, <1>3 DEF IInv, TypeOK, Streams, streamVars, pcmVars, userVars, boundVars,
       lockVars
<1>7. Matching'
  <2> SUFFICES ASSUME NEW u \in Streams PROVE Sound(u)'
    BY DEF Matching
  <2>1. Sound(u)
    BY DEF IInv, Matching
<2> QED BY <2>1, <1>1, <1>2, <1>3, <1>4 DEF Sound, Doing, InCall, Calm, Running, streamVars,
       Streams, lockVars
<1>8. GiveUp'
  BY <1>1, <1>2, <1>3, <1>4 DEF IInv, GiveUp, Running, streamVars, Streams, lockVars
<1>9. Used'
BY <1>1, <1>2, <1>3, <1>4 DEF IInv, Used, Counted, ToStop, Idle, Doing, Running, Streams,
       streamVars, userVars, lockVars, boundVars
<1>10. Began'
  BY <1>1, <1>2, <1>3, <1>4 DEF IInv, Began, Doing, Running, streamVars, Streams, lockVars
<1>11. Died'
  <2> SUFFICES ASSUME NEW u \in Streams PROVE Aborted(u)'
    BY DEF Died
  <2>1. Aborted(u)
    BY DEF IInv, Died
<2> QED BY <2>1, <1>1, <1>2, <1>3, <1>4 DEF Aborted, Doing, Startable, Told, CbAborts,
       Unchecked, Running, Streams, streamVars, userVars, pcmVars, lockVars, boundVars
<1> QED BY <1>5, <1>6, <1>7, <1>8, <1>9, <1>10, <1>11 DEF IInv

LEMMA SlaveErrorKeeps ==
  ASSUME IInv, SlaveError
  PROVE  IInv'
<1>1. /\ cb = "slaveError" /\ cb' = "slaveErrorAbort"
      /\ dead' = [dead EXCEPT !["rx"] = TRUE]
      /\ UNCHANGED <<ctx, callbacked, pcmVars, conn, lockVars, want, userVars, boundVars>>
  BY DEF SlaveError, InCallback
<1>2. holder # Nobody => want'[holder] = want[holder]
  BY <1>1
<1>3. Plan' /\ Now' = Now /\ UNCHANGED <<holder, failed>>
  BY <1>1, <1>2, Elsewhere DEF IInv, lockVars
<1>4. dead'["rx"] /\ \A v \in Streams : v # "rx" => dead'[v] = dead[v]
  BY <1>1 DEF IInv, TypeOK, Streams
<1>5. Plan'
  BY <1>1, <1>2, <1>3, <1>4
<1>6. TypeOK'
  <2>1. dead' \in [Streams -> BOOLEAN] /\ errors' \in 0 .. MaxErrors
    BY <1>1, EfwStreamsAssumption DEF IInv, TypeOK, boundVars, Streams
  <2>2. /\ UNCHANGED <<ctx, callbacked, pcmVars, conn, lockVars, want, userVars, boundVars>>
        /\ cb' \in {"idle", "slaveAbort", "masterAbort", "slaveError", "slaveErrorAbort"}
    BY <1>1
<2> QED BY <2>1, <2>2, <1>3 DEF IInv, TypeOK, Streams, streamVars, pcmVars, userVars, boundVars,
       lockVars
<1>7. Matching'
  <2> SUFFICES ASSUME NEW u \in Streams PROVE Sound(u)'
    BY DEF Matching
  <2>1. Sound(u)
    BY DEF IInv, Matching
<2> QED BY <2>1, <1>1, <1>2, <1>3, <1>4 DEF Sound, Doing, InCall, Calm, Running, streamVars,
       Streams, lockVars
<1>8. GiveUp'
  BY <1>1, <1>2, <1>3, <1>4 DEF IInv, GiveUp, Running, streamVars, Streams, lockVars
<1>9. Used'
BY <1>1, <1>2, <1>3, <1>4 DEF IInv, Used, Counted, ToStop, Idle, Doing, Running, Streams,
       streamVars, userVars, lockVars, boundVars
<1>10. Began'
  BY <1>1, <1>2, <1>3, <1>4 DEF IInv, Began, Doing, Running, streamVars, Streams, lockVars
<1>11. Died'
  <2> SUFFICES ASSUME NEW u \in Streams PROVE Aborted(u)'
    BY DEF Died
  <2>1. Aborted(u)
    BY DEF IInv, Died
<2> QED BY <2>1, <1>1, <1>2, <1>3, <1>4 DEF Aborted, Doing, Startable, Told, CbAborts,
       Unchecked, Running, Streams, streamVars, userVars, pcmVars, lockVars, boundVars
<1> QED BY <1>5, <1>6, <1>7, <1>8, <1>9, <1>10, <1>11 DEF IInv

LEMMA MasterStillDeadKeeps ==
  ASSUME IInv, MasterStillDead
  PROVE  IInv'
<1>1. /\ cb = "idle" /\ cb' = "slaveError"
      /\ UNCHANGED <<streamVars, pcmVars, conn, lockVars, want, userVars, boundVars>>
  BY DEF MasterStillDead, InCallback
<1>2. holder # Nobody => want'[holder] = want[holder]
  BY <1>1
<1>3. Plan' /\ Now' = Now /\ UNCHANGED <<holder, failed>>
  BY <1>1, <1>2, Elsewhere DEF IInv, lockVars
<1>4. Plan'
  BY <1>1, <1>2, <1>3
<1>5. TypeOK'
BY <1>1, <1>2, <1>3, <1>4 DEF IInv, TypeOK, Streams, streamVars, pcmVars, userVars, boundVars,
       lockVars
<1>6. Matching'
  <2> SUFFICES ASSUME NEW u \in Streams PROVE Sound(u)'
    BY DEF Matching
  <2>1. Sound(u)
    BY DEF IInv, Matching
<2> QED BY <2>1, <1>1, <1>2, <1>3 DEF Sound, Doing, InCall, Calm, Running, streamVars, Streams,
       lockVars
<1>7. GiveUp'
  BY <1>1, <1>2, <1>3 DEF IInv, GiveUp, Running, streamVars, Streams, lockVars
<1>8. Used'
BY <1>1, <1>2, <1>3 DEF IInv, Used, Counted, ToStop, Idle, Doing, Running, Streams, streamVars,
       userVars, lockVars, boundVars
<1>9. Began'
  BY <1>1, <1>2, <1>3 DEF IInv, Began, Doing, Running, streamVars, Streams, lockVars
<1>10. Died'
  <2> SUFFICES ASSUME NEW u \in Streams PROVE Aborted(u)'
    BY DEF Died
  <2>1. Aborted(u)
    BY DEF IInv, Died
<2> QED BY <2>1, <1>1, <1>2, <1>3 DEF Aborted, Doing, Startable, Told, CbAborts, Unchecked,
       Running, Streams, streamVars, userVars, pcmVars, lockVars, boundVars
<1> QED BY <1>4, <1>5, <1>6, <1>7, <1>8, <1>9, <1>10 DEF IInv

LEMMA CallbackAbortKeeps ==
  ASSUME IInv, CallbackAbort
  PROVE  IInv'
<1>1. /\ \/ cb \in {"slaveAbort", "slaveErrorAbort"} /\ cb' = "idle" /\ PcmAbort("rx")
         \/ cb = "masterAbort" /\ cb' = "slaveError" /\ PcmAbort("tx")
      /\ UNCHANGED <<streamVars, conn, lockVars, want, midi, substreams, boundVars>>
  BY DEF CallbackAbort
<1>2. holder # Nobody => want'[holder] = want[holder]
  BY <1>1
<1>3. Plan' /\ Now' = Now /\ UNCHANGED <<holder, failed>>
  BY <1>1, <1>2, Elsewhere DEF IInv, lockVars
<1>4. \E s \in Streams :
        /\ \/ s = "rx" /\ cb \in {"slaveAbort", "slaveErrorAbort"} /\ cb' = "idle"
           \/ s = "tx" /\ cb = "masterAbort" /\ cb' = "slaveError"
        /\ alsa'[s] = IF alsa[s] = "running" THEN "xrun" ELSE alsa[s]
        /\ (missed[s] \/ alsa[s] # "running" => missed'[s])
        /\ \A v \in Streams : v # s => alsa'[v] = alsa[v] /\ missed'[v] = missed[v]
  BY <1>1 DEF IInv, TypeOK, PcmAbort, Streams
<1>5. Plan'
  BY <1>1, <1>2, <1>3, <1>4
<1>6. TypeOK'
  <2>1. /\ alsa' \in [Streams -> {"open", "setup", "prepared", "running", "xrun"}]
        /\ pcm' \in [Streams -> BOOLEAN] /\ missed' \in [Streams -> BOOLEAN]
        /\ \A s \in Streams : pcm'[s] <=> alsa'[s] = "running"
    BY <1>1, AbortedType DEF IInv, Streams
  <2>2. /\ UNCHANGED <<streamVars, conn, lockVars, want, midi, substreams, boundVars>>
        /\ cb' \in {"idle", "slaveAbort", "masterAbort", "slaveError", "slaveErrorAbort"}
    BY <1>1
<2> QED BY <2>1, <2>2, <1>3 DEF IInv, TypeOK, Streams, streamVars, pcmVars, userVars, boundVars,
       lockVars
<1>7. Matching'
  <2> SUFFICES ASSUME NEW u \in Streams PROVE Sound(u)'
    BY DEF Matching
  <2>1. Sound(u)
    BY DEF IInv, Matching
<2> QED BY <2>1, <1>1, <1>2, <1>3, <1>4 DEF Sound, Doing, InCall, Calm, Running, streamVars,
       Streams, lockVars
<1>8. GiveUp'
  BY <1>1, <1>2, <1>3, <1>4 DEF IInv, GiveUp, Running, streamVars, Streams, lockVars
<1>9. Used'
BY <1>1, <1>2, <1>3, <1>4 DEF IInv, Used, Counted, ToStop, Idle, Doing, Running, Streams,
       streamVars, userVars, lockVars, boundVars
<1>10. Began'
  BY <1>1, <1>2, <1>3, <1>4 DEF IInv, Began, Doing, Running, streamVars, Streams, lockVars
<1>11. Died'
  <2> SUFFICES ASSUME NEW u \in Streams PROVE Aborted(u)'
    BY DEF Died
  <2>1. Aborted(u)
    BY DEF IInv, Died
<2> QED BY <2>1, <1>1, <1>2, <1>3, <1>4 DEF Aborted, Doing, Startable, Told, CbAborts,
       Unchecked, Running, Streams, streamVars, userVars, pcmVars, lockVars, boundVars
<1> QED BY <1>5, <1>6, <1>7, <1>8, <1>9, <1>10, <1>11 DEF IInv

\* The mutex is given back, and the caller goes on.
LEMMA ReleaseKeeps ==
  ASSUME IInv, Release
  PROVE  IInv'
<1>1. /\ holder # Nobody /\ holder' = Nobody /\ want' = [want EXCEPT ![holder] = "none"]
      /\ UNCHANGED <<streamVars, pcmVars, conn, todo, failed, substreams, cb, boundVars>>
  BY DEF Release
<1>2. Plan' /\ Now = <<"none", "both">> /\ Now' = Now
  BY ReleaseMoves
<1>3. /\ holder \in Threads /\ want[holder] \in {"start", "stop", "giveup"}
      /\ want'[holder] = "none" /\ \A t \in Threads : t # holder => want'[t] = want[t]
  BY <1>1 DEF IInv, TypeOK, Plan
<1>4. PICK s \in Streams : holder = Upd \/ holder = Pcm(s) \/ holder = Midi(s)
  BY <1>3, Names DEF Streams
<1>5. \/ holder = Upd /\ want[Upd] = "giveup" /\ alsa' = alsa /\ midi' = midi
      \/ /\ holder = Midi(s) /\ want[holder] = "start" /\ ~failed
         /\ alsa' = alsa /\ midi' = midi \cup {s}
      \/ /\ holder = Midi(s) /\ (want[holder] = "stop" \/ (want[holder] = "start" /\ failed))
         /\ alsa' = alsa /\ midi' = midi
      \/ /\ holder = Pcm(s) /\ want[holder] = "start" /\ ~failed
         /\ alsa' = [alsa EXCEPT ![s] = "prepared"] /\ midi' = midi
      \/ /\ holder = Pcm(s) /\ want[holder] = "start" /\ failed /\ alsa' = alsa /\ midi' = midi
      \/ /\ holder = Pcm(s) /\ want[holder] = "stop"
         /\ alsa' = [alsa EXCEPT ![s] = "open"] /\ midi' = midi
  <2>1. want[Upd] \notin {"start", "stop"}
    BY DEF IInv, Used
  <2>2. \A t \in Threads : want[t] = "giveup" => t = Upd
    BY DEF IInv, GiveUp
  <2>3. CASE holder = Upd
    BY <2>1, <2>3, <1>3, Names DEF Release
  <2>4. CASE holder = Pcm(s)
    BY <2>2, <2>4, <1>3, Names DEF Release
  <2>5. CASE holder = Midi(s)
    BY <2>2, <2>5, <1>3, Names DEF Release
  <2> QED BY <1>4, <2>3, <2>4, <2>5
<1>6. /\ \A v \in Streams : v # s => alsa'[v] = alsa[v] /\ (v \in midi' <=> v \in midi)
      /\ (holder = Upd \/ holder = Midi(s) => alsa'[s] = alsa[s])
      /\ holder = Pcm(s) /\ want[holder] = "start" => IF failed THEN alsa'[s] = alsa[s] ELSE alsa'[s] = "prepared"
      /\ holder = Pcm(s) /\ want[holder] = "stop" => alsa'[s] = "open"
      /\ holder = Pcm(s) \/ holder = Upd => midi' = midi
      /\ holder = Midi(s) => midi' \subseteq midi \cup {s} /\ midi \subseteq midi'
      /\ holder = Midi(s) /\ (want[holder] # "start" \/ failed) => midi' = midi
  BY <1>5, Names DEF IInv, TypeOK
<1>7. /\ \A v \in Streams : Pcm(v) # holder => want'[Pcm(v)] = want[Pcm(v)]
      /\ \A v \in Streams : Midi(v) # holder => want'[Midi(v)] = want[Midi(v)]
      /\ Upd # holder => want'[Upd] = want[Upd]
      /\ \A v \in Streams, w \in Streams : Pcm(v) # Midi(w) /\ Pcm(v) # Upd /\ Midi(v) # Upd
      /\ \A v \in Streams : v # s => Pcm(v) # Pcm(s) /\ Midi(v) # Midi(s)
  BY <1>3, Names
<1>8. want[Upd] = "giveup" \/ holder # Upd
  BY <1>5, Names
<1>9. /\ holder = Pcm(s) => alsa[s] \in {"setup", "prepared", "xrun"}
      /\ holder = Pcm(s) /\ want[holder] = "stop" => alsa[s] \in {"setup", "prepared"}
  BY <1>3, <1>5, Names DEF IInv, Died, Aborted
<1>10. TypeOK'
  <2>1. midi' \subseteq MidiPorts
    <3>1. holder = Midi(s) /\ want[holder] = "start" /\ ~failed => s \in MidiPorts
      BY DEF IInv, Used, Counted
    <3> QED BY <1>5, <3>1 DEF IInv, TypeOK
  <2>2. alsa' \in [Streams -> {"open", "setup", "prepared", "running", "xrun"}]
    BY <1>5 DEF IInv, TypeOK
  <2>3. want' \in [Threads -> {"none", "start", "stop", "update", "giveup"}]
    BY <1>1 DEF IInv, TypeOK
  <2>4. \A v \in Streams : pcm[v] <=> alsa'[v] = "running"
    BY <1>5, <1>6, <1>9 DEF IInv, TypeOK
<2> QED BY <1>1, <1>2, <2>1, <2>2, <2>3, <2>4 DEF IInv, TypeOK, Plan, streamVars, pcmVars,
       boundVars
<1>11. Matching'
  <2> SUFFICES ASSUME NEW u \in Streams PROVE Sound(u)'
    BY DEF Matching
  <2>1. Sound(u)
    BY DEF IInv, Matching
  <2>2. holder = Upd => ~Running(u)
    BY <1>1, <1>2, <1>3, <1>8 DEF IInv, GiveUp, Streams
  <2> QED BY <2>1, <2>2, <1>1, <1>2, <1>7 DEF Sound, Doing, InCall, Calm, Running, streamVars
<1>12. GiveUp'
  BY <1>1, <1>3 DEF IInv, GiveUp
<1>13. Used'
  <2>1. \A u \in Streams : Counted(u)'
    <3> SUFFICES ASSUME NEW u \in Streams PROVE Counted(u)'
      OBVIOUS
    <3>1. Counted(u)
      BY DEF IInv, Used
    <3> QED BY <3>1, <1>1, <1>3, <1>4, <1>5, <1>6, <1>7, <1>9 DEF Counted
  <2>2. want'[Upd] \notin {"start", "stop"}
    BY <1>3, <1>7 DEF IInv, Used
  <2>3. ASSUME Idle, \A t \in Threads : want'[t] = "stop" => t = holder'
        PROVE  \A u \in Streams : ~Running(u)
    <3>1. \A t \in Threads : want[t] = "stop" => t = holder
      BY <2>3, <1>1, <1>3, Names
    <3> QED BY <3>1, <2>3, <1>2 DEF IInv, Used, ToStop, Doing, Streams
  <2> QED BY <2>1, <2>2, <2>3, <1>1 DEF Used, Idle, Running, streamVars
<1>14. Began'
  BY <1>1 DEF Began
<1>15. Died'
  <2> SUFFICES ASSUME NEW u \in Streams PROVE Aborted(u)'
    BY DEF Died
  <2>1. Aborted(u)
    BY DEF IInv, Died
  <2>2. holder = Pcm(s) /\ want[holder] = "start" /\ ~failed => Running(s)
    BY <1>2, <1>1, Names DEF IInv, Began, Streams
  <2>3. holder = Pcm(s) /\ want[holder] = "start" /\ ~failed /\ dead[s] => missed[s] \/ CbAborts(s)
    BY <2>2, <1>2 DEF IInv, Died, Aborted, Told, Doing, Unchecked
  <2>0. holder' # Pcm(u)
    BY <1>1, Names
  <2>4. CASE u = s
    <3>1. holder = Pcm(s) /\ want[holder] = "start" => alsa'[s] \in {"setup", "prepared", "xrun"}
      BY <1>6, <1>9
    <3>2. Startable(s)' => Startable(s) \/ (holder = Pcm(s) /\ want[holder] = "start" /\ ~failed)
      BY <1>4, <1>5, <1>6, <1>3 DEF Startable
<3> QED BY <3>1, <3>2, <2>0, <2>1, <2>2, <2>3, <2>4, <1>1, <1>2, <1>3, <1>4, <1>5, <1>6, <1>7
         DEF Aborted, Doing, Startable, Told, CbAborts, Running, streamVars, pcmVars
  <2>5. CASE u # s
BY <2>0, <2>1, <2>5, <1>1, <1>2, <1>3, <1>4, <1>6, <1>7 DEF Aborted, Doing, Startable, Told,
         CbAborts, Running, streamVars, pcmVars
  <2> QED BY <2>4, <2>5
<1> QED BY <1>2, <1>10, <1>11, <1>12, <1>13, <1>14, <1>15 DEF IInv

\* Nothing runs at the start.
LEMMA InitHolds == Init => IInv
<1> SUFFICES ASSUME Init PROVE IInv
  OBVIOUS
<1>1. holder = Nobody /\ todo = <<>> /\ Now = <<"none", "both">>
  BY DEF Init, Now, First
<1>2. /\ \A t \in Threads : want[t] = "none"
      /\ \A s \in Streams : /\ ctx[s] = "none" /\ ~conn[s] /\ ~pcm[s] /\ ~dead[s]
                            /\ substreams[s] = 0 /\ alsa[s] = "open" /\ s \notin midi
  BY DEF Init
<1>3. TypeOK
  <2>1. /\ ctx \in [Streams -> {"none", "created", "started"}]
        /\ dead \in [Streams -> BOOLEAN] /\ callbacked \in [Streams -> BOOLEAN]
        /\ pcm \in [Streams -> BOOLEAN] /\ conn \in [Streams -> BOOLEAN]
        /\ missed \in [Streams -> BOOLEAN]
    BY DEF Init
  <2>2. /\ substreams \in [Streams -> 0 .. MaxCount]
        /\ errors \in 0 .. MaxErrors /\ resets \in 0 .. MaxResets
    BY EfwStreamsAssumption DEF Init
  <2>3. /\ want \in [Threads -> {"none", "start", "stop", "update", "giveup"}]
        /\ alsa \in [Streams -> {"open", "setup", "prepared", "running", "xrun"}]
        /\ midi \subseteq MidiPorts /\ failed \in BOOLEAN /\ cb = "idle"
    BY DEF Init
  <2> QED BY <1>1, <1>2, <2>1, <2>2, <2>3 DEF TypeOK
<1>4. Plan
  BY <1>1 DEF Plan
<1>5. Matching
  BY <1>1, <1>2, Names DEF Matching, Sound, Doing, InCall, Calm, Running
<1>6. GiveUp
  BY <1>1, <1>2 DEF GiveUp
<1>7. Used
  BY <1>1, <1>2, Names DEF Used, Counted, Idle, Running
<1>8. Began
  BY <1>1 DEF Began
<1>9. Died
  BY <1>1, <1>2, Names DEF Died, Aborted, Startable, Doing
<1> QED BY <1>3, <1>4, <1>5, <1>6, <1>7, <1>8, <1>9 DEF IInv

LEMMA StutterKeeps ==
  ASSUME IInv, UNCHANGED vars
  PROVE  IInv'
<1>1. Now' = Now
  BY DEF vars, lockVars, Now
<1>2. Plan'
  BY DEF IInv, Plan, vars, lockVars
<1>3. TypeOK'
  BY DEF IInv, TypeOK, vars, streamVars, lockVars, userVars, pcmVars, boundVars
<1>4. Matching'
  BY <1>1 DEF IInv, Matching, Sound, Doing, Calm, Running, vars, streamVars
<1>5. GiveUp' /\ Began'
  BY <1>1 DEF IInv, GiveUp, Began, Doing, Running, vars, streamVars, lockVars
<1>6. Used'
BY <1>1 DEF IInv, Used, Counted, ToStop, Idle, Doing, Running, vars, streamVars, lockVars,
       userVars
<1>7. Died'
BY <1>1 DEF IInv, Died, Aborted, Startable, Told, CbAborts, Unchecked, Doing, Running, vars,
       streamVars, lockVars, userVars, pcmVars
<1> QED BY <1>2, <1>3, <1>4, <1>5, <1>6, <1>7 DEF IInv

\* Every step preserves the invariant.
LEMMA NextHolds == IInv /\ [Next]_vars => IInv'
<1> SUFFICES ASSUME IInv, [Next]_vars PROVE IInv'
  OBVIOUS
<1>1. CASE StartStep
  BY <1>1, EnterKeeps, CheckRateKeeps, StartMasterKeeps, StartSlaveKeeps, StopDeadKeeps,
     ConnectKeeps, QueueKeeps, GoKeeps, WaitCallbackKeeps DEF StartStep
<1>2. CASE StopStep
  BY <1>2, StopSlaveKeeps, StopMasterKeeps, AbortKeeps, DestroyKeeps, ClearKeeps, BreakKeeps
     DEF StopStep
<1>3. CASE UserStep
  BY <1>3, PcmHwParamsKeeps, PcmPrepareKeeps, PcmHwFreeKeeps, PcmStartKeeps, PcmDropKeeps,
     MidiOpenKeeps, MidiCloseKeeps DEF UserStep
<1>4. CASE CallbackStep \/ SlaveQueueError \/ MasterError \/ MasterStillDead
           \/ (\E s \in Streams : FirstCallback(s))
  BY <1>4, CallbackAbortKeeps, SlaveErrorKeeps, SlaveQueueErrorKeeps, MasterErrorKeeps,
     MasterStillDeadKeeps, FirstCallbackKeeps DEF CallbackStep
<1>5. CASE Release \/ (\E t \in Threads : Take(t)) \/ UpdateOut \/ UpdateIn
  BY <1>5, ReleaseKeeps, TakeKeeps, UpdateOutKeeps, UpdateInKeeps
<1>6. CASE UNCHANGED vars
  BY <1>6, StutterKeeps
<1> QED BY <1>1, <1>2, <1>3, <1>4, <1>5, <1>6 DEF Next, HolderStep

----------------------------------------------------------------------------

\* The invariant holds in every reachable state.
THEOREM Invariance == Spec => []IInv
BY InitHolds, NextHolds, PTL DEF Spec

\* The types, and that a PCM the stream knows is one that runs.
THEOREM TypeCorrect == Spec => []TypeOK
<1>1. IInv => TypeOK
  BY DEF IInv
<1> QED BY <1>1, Invariance, PTL

\* Between operations a stream, its connection and its users agree: start_duplex(),
\* stop_duplex() and the failure path of update_duplex() may fail at any step.
THEOREM StreamsMatch == Spec => []StreamsMatchUse
<1>1. IInv => StreamsMatchUse
  <2> SUFFICES ASSUME IInv, holder = Nobody
               PROVE  /\ \A s \in Streams : conn[s] => Running(s)
                      /\ \A s \in Streams : Running(s) /\ ~conn[s] => want[Upd] = "giveup"
                      /\ /\ \A s \in Streams : substreams[s] = 0
                         /\ \A t \in Threads : want[t] # "stop"
                         => \A s \in Streams : ~Running(s)
    BY DEF StreamsMatchUse, Unlocked
  <2>1. Now = <<"none", "both">>
    BY DEF IInv, Plan, Now, First
  <2>2. \A s \in Streams : Sound(s)
    BY DEF IInv, Matching
  <2>3. \A s \in Streams : conn[s] => Running(s)
    BY <2>1, <2>2 DEF Sound, Doing, Calm, InCall
  <2>4. \A s \in Streams : Running(s) /\ ~conn[s] => want[Upd] = "giveup"
    BY <2>2 DEF Sound
  <2>5. (\A s \in Streams : substreams[s] = 0) /\ (\A t \in Threads : want[t] # "stop")
          => \A s \in Streams : ~Running(s)
    BY DEF IInv, Used, Idle, ToStop
  <2> QED BY <2>3, <2>4, <2>5
<1> QED BY <1>1, Invariance, PTL

\* No PCM runs on a stream that died or was stopped, unless it had been prepared
\* and not yet started when amdtp_stream_pcm_abort() was called.
THEOREM DeadAborted == Spec => []DeadIsAborted
<1>1. IInv => DeadIsAborted
  <2> SUFFICES ASSUME IInv, holder = Nobody, cb = "idle", NEW s \in Streams,
                      pcm[s], dead[s] \/ ~Running(s)
               PROVE  missed[s]
    BY DEF DeadIsAborted, Unlocked
  <2>1. Now = <<"none", "both">>
    BY DEF IInv, Plan, Now, First
  <2>2. alsa[s] = "running"
    BY DEF IInv, TypeOK
  <2> QED BY <2>1, <2>2 DEF IInv, Died, Aborted, Startable, Told, CbAborts, Doing
<1> QED BY <1>1, Invariance, PTL

\* start_duplex() only succeeds with the master and the stream of the caller
\* running, and after the first callback of both.
THEOREM Succeeds == Spec => SuccessRuns
<1> DEFINE Step == holder # Nobody /\ holder' = Nobody /\ want[holder] = "start" /\ ~failed =>
                     \A s \in {"tx", holder[2]} : Running(s) /\ callbacked[s]
<1>1. IInv /\ [Next]_vars => [Step]_vars
  <2> SUFFICES ASSUME IInv, Next, holder # Nobody, holder' = Nobody, want[holder] = "start", ~failed
               PROVE  \A s \in {"tx", holder[2]} : Running(s) /\ callbacked[s]
    OBVIOUS
  <2>1. Release
    <3>1. CASE StartStep
      BY <3>1 DEF StartStep, Enter, CheckRate, StartMaster, StartSlave, StopDead, Connect, Queue,
                  Go, WaitCallback, FailStart, Fail, Continue
    <3>2. CASE StopStep
      BY <3>2 DEF StopStep, StopSlave, StopMaster, Abort, Destroy, Clear, Break, Continue
    <3>3. CASE UserStep
      BY <3>3 DEF UserStep, PcmHwParams, PcmPrepare, PcmHwFree, PcmStart, PcmDrop, MidiOpen,
                  MidiClose, lockVars
    <3>4. CASE CallbackStep \/ SlaveQueueError \/ MasterError \/ MasterStillDead
               \/ (\E s \in Streams : FirstCallback(s))
      BY <3>4 DEF CallbackStep, CallbackAbort, SlaveError, SlaveQueueError, MasterError,
                  MasterStillDead, FirstCallback, lockVars
    <3>5. CASE (\E t \in Threads : Take(t)) \/ UpdateOut \/ UpdateIn
      BY <3>5 DEF Take, UpdateOut, UpdateIn, lockVars
    <3> QED BY <3>1, <3>2, <3>3, <3>4, <3>5 DEF Next, HolderStep
  <2>2. Now = <<"none", "both">>
    BY <2>1, ReleaseMoves
  <2>3. holder[2] \in Streams
    BY Counting
  <2>4. Running("tx") /\ (holder[2] = "rx" => Running("rx"))
    BY <2>2 DEF IInv, Began
  <2>5. \A s \in Streams : Running(s) => callbacked[s]
    BY <2>2 DEF IInv, Matching, Sound, Doing, InCall, Calm
  <2> QED BY <2>3, <2>4, <2>5 DEF Streams
<1>2. Spec => [][Step]_vars
  BY <1>1, Invariance, PTL DEF Spec
<1> QED BY <1>2 DEF SuccessRuns
=============================================================================
