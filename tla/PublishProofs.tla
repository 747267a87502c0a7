---------------------------- MODULE PublishProofs ----------------------------
(***************************************************************************)
(* Publish implements Delivery, whatever the limit of Republish requests,  *)
(* the size of the server's queue and the number of notifications.         *)
(***************************************************************************)
EXTENDS Publish, TLAPS

\* One request or one response is under way, or on_publish handles what came.
OneAtATime ==
    /\ requested => wire = NoMessage
    /\ wire # NoMessage => link
    /\ busy => ~requested /\ wire = NoMessage
    /\ wire # NoMessage /\ wire.own =>
          IF wire.data THEN wire.num = sseq /\ expected <= sseq ELSE wire.num = sseq + 1
    /\ expected \in 1 .. (sseq + 1)

\* Outside _republish the log ends below `expected', just below it unless a loss is known.
LogEnd ==
    ~(busy /\ mine) => top < expected /\ (~stalled => top + 1 = expected)

\* In _republish the log ends below what is left to deliver; unless a loss was known before,
\* it reached the gap, and what came back extended it.
InGap ==
    busy /\ mine =>
        /\ expected = NextExpected(msg)
        /\ msg.num \in 1 .. (sseq + 1) /\ (msg.data => msg.num <= sseq)
        /\ start \in 1 .. (msg.num - 1)
        /\ todo \subseteq start .. (msg.num - 1)
        /\ got \subseteq 1 .. top
        /\ top < msg.num /\ \A n \in todo : top < n
        /\ ~stalled => top + 1 >= start

Inv == TypeOK /\ OneAtATime /\ LogEnd /\ InGap

\* The queue keeps some of the notifications.
LEMMA NewestSubset == ASSUME NEW ns PROVE Newest(ns) \subseteq ns
  BY DEF Newest

\* What is Republished is missing, and held.
LEMMA ToRepublishSubset ==
    ASSUME NEW missing, NEW avail PROVE ToRepublish(missing, avail) \subseteq missing \cap avail
  BY DEF ToRepublish

\* No message is none that comes late.
LEMMA NoneIsLate == [NoMessage EXCEPT !.own = FALSE] = NoMessage
<1>1. PICK m : m = NoMessage
  OBVIOUS
<1>2. PICK n : n = [m EXCEPT !.own = FALSE]
  OBVIOUS
<1>3. m = [num |-> 0, data |-> FALSE, avail |-> {}, own |-> FALSE]
  BY <1>1 DEF NoMessage
<1>4. n = [num |-> 0, data |-> FALSE, avail |-> {}, own |-> FALSE]
  BY <1>2, <1>3
<1> QED
  BY <1>1, <1>2, <1>3, <1>4, Zenon

\* Every step keeps the flags Boolean.
LEMMA FlagsTyped == TypeOK /\ [Next]_vars => FlagsOK'
<1> SUFFICES ASSUME TypeOK, [Next]_vars PROVE FlagsOK'
  OBVIOUS
<1> USE PublishAssumption DEF TypeOK, FlagsOK, server, channel, acking, gap, NoMessage
<1>1. CASE SendPublish
  BY <1>1 DEF SendPublish, Fault
<1>2. CASE OnPublish
  BY <1>2, ToRepublishSubset DEF OnPublish, Known, Deliver, NextExpected
<1>3. CASE Closed
  BY <1>3 DEF Closed, Fault, Stalls, Deliver, Return, IsNext
<1>4. CASE Orphaned
  BY <1>4 DEF Orphaned, Return
<1>15. CASE OnLatePublish
  BY <1>15 DEF OnLatePublish, Known
<1>16. CASE \E seq \in todo : RepublishedLate(seq)
  BY <1>16 DEF RepublishedLate
<1>5. CASE \E seq \in todo : Republished(seq)
  BY <1>5 DEF Republished, IsNext
<1>6. CASE \E seq \in todo : RepublishFails(seq)
  BY <1>6 DEF RepublishFails, Fault, IsNext, Again, Stalls, Return
<1>7. CASE ServerSends
  BY <1>7, NewestSubset DEF ServerSends
<1>8. CASE Resume
  BY <1>8 DEF Resume
<1>9. CASE Replaced
  BY <1>9 DEF Replaced, Fault, NewSubscription
<1>10. CASE Silent
  BY <1>10 DEF Silent
<1>11. CASE Recreate
  BY <1>11 DEF Recreate, NewSubscription
<1>12. CASE Cut
  BY <1>12 DEF Cut, Fault
<1>13. CASE Dropped
  BY <1>13 DEF Dropped, Fault
<1>14. CASE UNCHANGED vars
  BY <1>14 DEF vars
<1> QED
  BY <1>1, <1>2, <1>3, <1>4, <1>5, <1>6, <1>7, <1>8, <1>9, <1>10, <1>11, <1>12, <1>13, <1>14, <1>15, <1>16 DEF Next, Publisher, RunLoop, Environment

\* Every step keeps the messages well typed.
LEMMA MessagesTyped == TypeOK /\ [Next]_vars => MessagesOK'
<1> SUFFICES ASSUME TypeOK, [Next]_vars PROVE MessagesOK'
  OBVIOUS
<1> USE PublishAssumption DEF TypeOK, MessagesOK, NumbersOK, Message, server, channel, acking, gap, NoMessage
<1>1. CASE SendPublish
  BY <1>1 DEF SendPublish, Fault
<1>2. CASE OnPublish
  BY <1>2, ToRepublishSubset DEF OnPublish, Known, Deliver, NextExpected
<1>3. CASE Closed
  BY <1>3 DEF Closed, Fault, Stalls, Deliver, Return, IsNext
<1>4. CASE Orphaned
  BY <1>4 DEF Orphaned, Return
<1>15. CASE OnLatePublish
  BY <1>15 DEF OnLatePublish, Known
<1>16. CASE \E seq \in todo : RepublishedLate(seq)
  BY <1>16 DEF RepublishedLate
<1>5. CASE \E seq \in todo : Republished(seq)
  BY <1>5 DEF Republished, IsNext
<1>6. CASE \E seq \in todo : RepublishFails(seq)
  BY <1>6 DEF RepublishFails, Fault, IsNext, Again, Stalls, Return
<1>7. CASE ServerSends
  <2>1. held' \subseteq Nat
    <3>1. Newest(held \cup {sseq + 1}) \subseteq held \cup {sseq + 1}
      BY NewestSubset, Zenon
    <3>2. held' = held \/ held' = Newest(held \cup {sseq + 1})
      BY <1>7 DEF ServerSends
    <3>3. held \cup {sseq + 1} \subseteq Nat
      OBVIOUS
    <3> QED
      BY <3>1, <3>2, <3>3
  <2>2. \/ wire' = [num |-> sseq + 1, data |-> TRUE, avail |-> held', own |-> TRUE]
        \/ wire' = [num |-> sseq + 1, data |-> FALSE, avail |-> held, own |-> TRUE]
    BY <1>7, Zenon DEF ServerSends
  <2>3. held \subseteq Nat /\ sseq + 1 \in Nat
    OBVIOUS
  <2>4. [num |-> sseq + 1, data |-> TRUE, avail |-> held', own |-> TRUE] \in Message
    BY <2>1, <2>3
  <2>5. [num |-> sseq + 1, data |-> FALSE, avail |-> held, own |-> TRUE] \in Message
    BY <2>3
  <2>6. wire' \in Message
    BY <2>2, <2>4, <2>5, Zenon
  <2> QED
    BY <1>7, <2>6 DEF ServerSends
<1>8. CASE Resume
  BY <1>8 DEF Resume
<1>9. CASE Replaced
  BY <1>9 DEF Replaced, Fault, NewSubscription
<1>10. CASE Silent
  BY <1>10 DEF Silent
<1>11. CASE Recreate
  BY <1>11 DEF Recreate, NewSubscription
<1>12. CASE Cut
  BY <1>12 DEF Cut, Fault
<1>13. CASE Dropped
  BY <1>13 DEF Dropped, Fault
<1>14. CASE UNCHANGED vars
  BY <1>14 DEF vars
<1> QED
  BY <1>1, <1>2, <1>3, <1>4, <1>5, <1>6, <1>7, <1>8, <1>9, <1>10, <1>11, <1>12, <1>13, <1>14, <1>15, <1>16 DEF Next, Publisher, RunLoop, Environment

\* Every step keeps the numbers well typed.
LEMMA NumbersTyped == TypeOK /\ [Next]_vars => NumbersOK'
<1> SUFFICES ASSUME TypeOK, [Next]_vars PROVE NumbersOK'
  OBVIOUS
<1> USE PublishAssumption DEF TypeOK, NumbersOK, MessagesOK, Message, server, channel, acking, gap, NoMessage
<1>1. CASE SendPublish
  <2>1. faults' \in Nat
    BY <1>1 DEF SendPublish, Fault
  <2>2. held' \subseteq held
    BY <1>1 DEF SendPublish
  <2> QED
    BY <1>1, <2>1, <2>2 DEF SendPublish
<1>2. CASE OnPublish
  <2> DEFINE missing == expected .. (wire.num - 1)
  <2>1. expected' \in Nat /\ auto' \subseteq Nat
    BY <1>2 DEF OnPublish, Known, NextExpected
  <2>2. CASE missing = {}
    BY <1>2, <2>1, <2>2 DEF OnPublish, Known, Deliver
  <2>3. CASE missing # {}
    <3>1. todo' = ToRepublish(missing, wire.avail) /\ got' = {} /\ start' = expected
      BY <1>2, <2>3 DEF OnPublish, Known
    <3>2. todo' \subseteq Nat
      BY <3>1, ToRepublishSubset
    <3> QED
      BY <1>2, <2>1, <2>3, <3>1, <3>2 DEF OnPublish, Known
  <2> QED
    BY <2>2, <2>3
<1>3. CASE Closed
  BY <1>3 DEF Closed, Fault, Stalls, Deliver, Return, IsNext
<1>4. CASE Orphaned
  BY <1>4 DEF Orphaned, Return
<1>15. CASE OnLatePublish
  BY <1>15 DEF OnLatePublish, Known
<1>16. CASE \E seq \in todo : RepublishedLate(seq)
  BY <1>16 DEF RepublishedLate
<1>5. CASE \E seq \in todo : Republished(seq)
  BY <1>5 DEF Republished, IsNext
<1>6. CASE \E seq \in todo : RepublishFails(seq)
  BY <1>6 DEF RepublishFails, Fault, IsNext, Again, Stalls, Return
<1>7. CASE ServerSends
  <2>1. CASE UNCHANGED <<sseq, held>>
    BY <1>7, <2>1 DEF ServerSends
  <2>2. CASE sseq' = sseq + 1 /\ held' = Newest(held \cup {sseq + 1})
    <3>1. Newest(held \cup {sseq + 1}) \subseteq held \cup {sseq + 1}
      BY NewestSubset, Zenon
    <3>2. held \cup {sseq + 1} \subseteq 1 .. (sseq + 1)
      OBVIOUS
    <3>3. held' \subseteq 1 .. sseq'
      BY <2>2, <3>1, <3>2
    <3>4. sseq' \in Nat
      BY <2>2
    <3> QED
      BY <1>7, <3>3, <3>4 DEF ServerSends
  <2> QED
    BY <1>7, <2>1, <2>2 DEF ServerSends
<1>8. CASE Resume
  BY <1>8 DEF Resume
<1>9. CASE Replaced
  BY <1>9 DEF Replaced, Fault, NewSubscription
<1>10. CASE Silent
  BY <1>10 DEF Silent
<1>11. CASE Recreate
  BY <1>11 DEF Recreate, NewSubscription
<1>12. CASE Cut
  BY <1>12 DEF Cut, Fault
<1>13. CASE Dropped
  BY <1>13 DEF Dropped, Fault
<1>14. CASE UNCHANGED vars
  BY <1>14 DEF vars
<1> QED
  BY <1>1, <1>2, <1>3, <1>4, <1>5, <1>6, <1>7, <1>8, <1>9, <1>10, <1>11, <1>12, <1>13, <1>14, <1>15, <1>16 DEF Next, Publisher, RunLoop, Environment

\* Every step leaves on_publish's locals only while it awaits.
LEMMA LocalsStep == TypeOK /\ [Next]_vars => (~busy => ~mine /\ todo = {} /\ got = {})'
<1> SUFFICES ASSUME TypeOK, [Next]_vars PROVE (~busy => ~mine /\ todo = {} /\ got = {})'
  OBVIOUS
<1> USE PublishAssumption DEF TypeOK, FlagsOK, server, channel, acking, gap, NoMessage
<1>1. CASE SendPublish
  BY <1>1 DEF SendPublish, Fault
<1>2. CASE OnPublish
  BY <1>2, ToRepublishSubset DEF OnPublish, Known, Deliver, NextExpected
<1>3. CASE Closed
  BY <1>3 DEF Closed, Fault, Stalls, Deliver, Return, IsNext
<1>4. CASE Orphaned
  BY <1>4 DEF Orphaned, Return
<1>15. CASE OnLatePublish
  BY <1>15 DEF OnLatePublish, Known
<1>16. CASE \E seq \in todo : RepublishedLate(seq)
  BY <1>16 DEF RepublishedLate
<1>5. CASE \E seq \in todo : Republished(seq)
  BY <1>5 DEF Republished, IsNext
<1>6. CASE \E seq \in todo : RepublishFails(seq)
  BY <1>6 DEF RepublishFails, Fault, IsNext, Again, Stalls, Return
<1>7. CASE ServerSends
  BY <1>7, NewestSubset DEF ServerSends
<1>8. CASE Resume
  BY <1>8 DEF Resume
<1>9. CASE Replaced
  BY <1>9 DEF Replaced, Fault, NewSubscription
<1>10. CASE Silent
  BY <1>10 DEF Silent
<1>11. CASE Recreate
  BY <1>11 DEF Recreate, NewSubscription
<1>12. CASE Cut
  BY <1>12 DEF Cut, Fault
<1>13. CASE Dropped
  BY <1>13 DEF Dropped, Fault
<1>14. CASE UNCHANGED vars
  BY <1>14 DEF vars
<1> QED
  BY <1>1, <1>2, <1>3, <1>4, <1>5, <1>6, <1>7, <1>8, <1>9, <1>10, <1>11, <1>12, <1>13, <1>14, <1>15, <1>16 DEF Next, Publisher, RunLoop, Environment

\* Every step leaves one request, one response or one message under way.
LEMMA OneStep == Inv /\ [Next]_vars => OneAtATime'
<1> SUFFICES ASSUME Inv, [Next]_vars PROVE OneAtATime'
  OBVIOUS
<1> USE PublishAssumption DEF Inv, TypeOK, FlagsOK, MessagesOK, NumbersOK, Message, OneAtATime, InGap, server, channel, acking, gap, NoMessage
<1>1. CASE SendPublish
  BY <1>1 DEF SendPublish, Fault
<1>2. CASE OnPublish
  BY <1>2, ToRepublishSubset DEF OnPublish, Known, Deliver, NextExpected
<1>3. CASE Closed
  BY <1>3 DEF Closed, Fault, Stalls, Deliver, Return, IsNext
<1>4. CASE Orphaned
  BY <1>4 DEF Orphaned, Return
<1>15. CASE OnLatePublish
  BY <1>15 DEF OnLatePublish, Known
<1>16. CASE \E seq \in todo : RepublishedLate(seq)
  BY <1>16 DEF RepublishedLate
<1>5. CASE \E seq \in todo : Republished(seq)
  BY <1>5 DEF Republished, IsNext
<1>6. CASE \E seq \in todo : RepublishFails(seq)
  BY <1>6 DEF RepublishFails, Fault, IsNext, Again, Stalls, Return
<1>7. CASE ServerSends
  BY <1>7, NewestSubset DEF ServerSends
<1>8. CASE Resume
  BY <1>8 DEF Resume
<1>9. CASE Replaced
  BY <1>9 DEF Replaced, Fault, NewSubscription
<1>10. CASE Silent
  BY <1>10 DEF Silent
<1>11. CASE Recreate
  <2>1. wire' = [wire EXCEPT !.own = FALSE] /\ wire'.own = FALSE
    BY <1>11 DEF Recreate
  <2>2. wire = NoMessage => wire' = NoMessage
    BY <2>1, NoneIsLate, Zenon
  <2>3. sseq' = 0 /\ expected' = 1 /\ link' /\ UNCHANGED <<requested, busy>>
    BY <1>11 DEF Recreate, NewSubscription
  <2>4. (requested => wire = NoMessage) /\ (busy => ~requested /\ wire = NoMessage)
    OBVIOUS
  <2>5. requested' => wire' = NoMessage
    BY <2>2, <2>3, <2>4
  <2>6. busy' => ~requested' /\ wire' = NoMessage
    BY <2>2, <2>3, <2>4
  <2>7. expected' \in 1 .. (sseq' + 1)
    BY <2>3
  <2> HIDE DEF NoMessage
  <2> QED
    BY <2>1, <2>3, <2>5, <2>6, <2>7
<1>12. CASE Cut
  BY <1>12 DEF Cut, Fault
<1>13. CASE Dropped
  BY <1>13 DEF Dropped, Fault
<1>14. CASE UNCHANGED vars
  BY <1>14 DEF vars
<1> QED
  BY <1>1, <1>2, <1>3, <1>4, <1>5, <1>6, <1>7, <1>8, <1>9, <1>10, <1>11, <1>12, <1>13, <1>14, <1>15, <1>16 DEF Next, Publisher, RunLoop, Environment

\* Every step leaves the log ending below `expected'.
LEMMA LogStep == Inv /\ [Next]_vars => LogEnd'
<1> SUFFICES ASSUME Inv, [Next]_vars PROVE LogEnd'
  OBVIOUS
<1> USE PublishAssumption DEF Inv, TypeOK, FlagsOK, MessagesOK, NumbersOK, Message, OneAtATime, LogEnd, InGap, NextExpected, server, channel, acking, gap, NoMessage
<1>1. CASE SendPublish
  BY <1>1 DEF SendPublish, Fault
<1>2. CASE OnPublish
  <2> DEFINE missing == expected .. (wire.num - 1)
  <2>1. CASE missing = {}
    <3>1. wire.num = expected
      BY <1>2, <2>1 DEF OnPublish, Known
    <3>2. ~busy' /\ UNCHANGED stalled
      BY <1>2, <2>1 DEF OnPublish, Known
    <3>3. expected' = (IF wire.data THEN wire.num + 1 ELSE wire.num)
      BY <1>2 DEF OnPublish, Known
    <3>4. top' = (IF wire.data THEN wire.num ELSE top)
      BY <1>2, <2>1 DEF OnPublish, Known, Deliver
    <3>5. ~busy
      BY <1>2 DEF OnPublish, Known
    <3> QED
      BY <3>1, <3>2, <3>3, <3>4, <3>5
  <2>2. CASE missing # {}
    BY <1>2, <2>2 DEF OnPublish, Known
  <2> QED
    BY <2>1, <2>2
<1>3. CASE Closed
  <2>1. busy /\ mine /\ ~busy' /\ expected' = expected
    BY <1>3 DEF Closed, Return
  <2>2. top' = (IF msg.data THEN msg.num ELSE top)
    BY <1>3 DEF Closed, Deliver
  <2>3. top' < expected'
    BY <2>1, <2>2
  <2>4. ASSUME ~stalled' PROVE top' + 1 = expected'
    <3>1. ~stalled /\ start .. (msg.num - 1) \subseteq got
      BY <1>3, <2>4 DEF Closed, Stalls
    <3>2. msg.num - 1 \in got
      BY <2>1, <3>1
    <3>3. top = msg.num - 1
      BY <2>1, <3>2
    <3> QED
      BY <2>1, <2>2, <3>3
  <2> QED
    BY <2>3, <2>4
<1>4. CASE Orphaned
  BY <1>4 DEF Orphaned, Return
<1>15. CASE OnLatePublish
  BY <1>15 DEF OnLatePublish, Known
<1>16. CASE \E seq \in todo : RepublishedLate(seq)
  BY <1>16 DEF RepublishedLate
<1>5. CASE \E seq \in todo : Republished(seq)
  BY <1>5 DEF Republished, IsNext
<1>6. CASE \E seq \in todo : RepublishFails(seq)
  <2>1. PICK seq \in todo : RepublishFails(seq)
    BY <1>6
  <2>2. busy /\ mine /\ ~busy' /\ expected' = seq /\ top' = top
    BY <2>1 DEF RepublishFails, Return, Again
  <2>3. top' < expected'
    BY <2>2
  <2>4. ASSUME ~stalled' PROVE top' + 1 = expected'
    <3>1. ~stalled /\ start .. (seq - 1) \subseteq got
      BY <2>1, <2>4 DEF RepublishFails, Stalls
    <3>2. CASE seq = start
      BY <2>2, <3>1, <3>2
    <3>3. CASE seq # start
      <4>1. seq - 1 \in got
        BY <2>2, <3>1, <3>3
      <4> QED
        BY <2>2, <4>1
    <3> QED
      BY <3>2, <3>3
  <2> QED
    BY <2>3, <2>4
<1>7. CASE ServerSends
  BY <1>7, NewestSubset DEF ServerSends
<1>8. CASE Resume
  BY <1>8 DEF Resume
<1>9. CASE Replaced
  BY <1>9 DEF Replaced, Fault, NewSubscription
<1>10. CASE Silent
  BY <1>10 DEF Silent
<1>11. CASE Recreate
  BY <1>11 DEF Recreate, NewSubscription
<1>12. CASE Cut
  BY <1>12 DEF Cut, Fault
<1>13. CASE Dropped
  BY <1>13 DEF Dropped, Fault
<1>14. CASE UNCHANGED vars
  BY <1>14 DEF vars
<1> QED
  BY <1>1, <1>2, <1>3, <1>4, <1>5, <1>6, <1>7, <1>8, <1>9, <1>10, <1>11, <1>12, <1>13, <1>14, <1>15, <1>16 DEF Next, Publisher, RunLoop, Environment

\* Every step of _republish extends the log towards the message.
LEMMA GapStep == Inv /\ [Next]_vars => InGap'
<1> SUFFICES ASSUME Inv, [Next]_vars PROVE InGap'
  OBVIOUS
<1> USE PublishAssumption DEF Inv, TypeOK, FlagsOK, MessagesOK, NumbersOK, Message, OneAtATime, LogEnd, InGap, NextExpected, server, channel, acking, gap, NoMessage
<1>1. CASE SendPublish
  BY <1>1 DEF SendPublish, Fault
<1>2. CASE OnPublish
  <2> DEFINE missing == expected .. (wire.num - 1)
  <2>1. CASE missing = {}
    BY <1>2, <2>1 DEF OnPublish, Known
  <2>2. CASE missing # {}
    <3>1. /\ msg' = wire /\ start' = expected /\ got' = {} /\ top' = top
          /\ todo' = ToRepublish(missing, wire.avail) /\ expected' = NextExpected(wire)
      BY <1>2, <2>2 DEF OnPublish, Known
    <3>2. todo' \subseteq missing
      BY <3>1, ToRepublishSubset
    <3>3. ~busy /\ UNCHANGED <<stalled, sseq>> /\ wire # NoMessage
      BY <1>2 DEF OnPublish, Known
    <3>4. expected < wire.num
      BY <2>2
    <3>5. IF wire.data THEN wire.num = sseq /\ expected <= sseq ELSE wire.num = sseq + 1
      BY <1>2, <3>3 DEF OnPublish, Known
    <3> QED
      BY <3>1, <3>2, <3>3, <3>4, <3>5
  <2> QED
    BY <2>1, <2>2
<1>3. CASE Closed
  BY <1>3 DEF Closed, Fault, Stalls, Deliver, Return, IsNext
<1>4. CASE Orphaned
  BY <1>4 DEF Orphaned, Return
<1>15. CASE OnLatePublish
  BY <1>15 DEF OnLatePublish, Known
<1>16. CASE \E seq \in todo : RepublishedLate(seq)
  BY <1>16 DEF RepublishedLate
<1>5. CASE \E seq \in todo : Republished(seq)
  BY <1>5 DEF Republished, IsNext
<1>6. CASE \E seq \in todo : RepublishFails(seq)
  BY <1>6 DEF RepublishFails, Fault, IsNext, Again, Stalls, Return
<1>7. CASE ServerSends
  BY <1>7, NewestSubset DEF ServerSends
<1>8. CASE Resume
  BY <1>8 DEF Resume
<1>9. CASE Replaced
  BY <1>9 DEF Replaced, Fault, NewSubscription
<1>10. CASE Silent
  BY <1>10 DEF Silent
<1>11. CASE Recreate
  BY <1>11 DEF Recreate, NewSubscription
<1>12. CASE Cut
  BY <1>12 DEF Cut, Fault
<1>13. CASE Dropped
  BY <1>13 DEF Dropped, Fault
<1>14. CASE UNCHANGED vars
  BY <1>14 DEF vars
<1> QED
  BY <1>1, <1>2, <1>3, <1>4, <1>5, <1>6, <1>7, <1>8, <1>9, <1>10, <1>11, <1>12, <1>13, <1>14, <1>15, <1>16 DEF Next, Publisher, RunLoop, Environment

\* Every step is a step of Delivery, or leaves what it sees unchanged.
LEMMA StepSimulated == Inv /\ [Next]_vars => [Promise!Next]_Promise!vars
<1> SUFFICES ASSUME Inv, [Next]_vars PROVE [Promise!Next]_Promise!vars
  OBVIOUS
<1> USE PublishAssumption DEF Inv, TypeOK, FlagsOK, MessagesOK, NumbersOK, Message, OneAtATime, LogEnd, InGap, NextExpected, Promise!Next, Promise!Send, Promise!Deliver, Promise!Lose, Promise!Replace, Promise!vars, server, channel, acking, gap, NoMessage
<1>1. CASE SendPublish
  BY <1>1 DEF SendPublish, Fault, Noted
<1>2. CASE OnPublish
  <2> DEFINE missing == expected .. (wire.num - 1)
  <2>1. ~busy /\ wire # NoMessage /\ UNCHANGED <<sseq, stalled>>
    BY <1>2 DEF OnPublish, Known
  <2>2. ~Noted
    BY <2>1 DEF Noted
  <2>3. CASE missing = {}
    <3>0. IF wire.data THEN wire.num = sseq /\ expected <= sseq ELSE wire.num = sseq + 1
      BY <1>2, <2>1 DEF OnPublish, Known
    <3>1. wire.num = expected /\ ~Noted'
      BY <1>2, <2>1, <2>3, <3>0 DEF OnPublish, Noted
    <3>2. top' = (IF wire.data THEN wire.num ELSE top)
      BY <1>2, <2>3 DEF OnPublish, Known, Deliver
    <3>3. wire.data => wire.num \in (top + 1) .. sseq /\ (~stalled => wire.num = top + 1)
      BY <2>1, <3>0, <3>1
    <3> QED
      BY <2>1, <2>2, <3>1, <3>2, <3>3
  <2>4. CASE missing # {}
    <3>1. UNCHANGED top
      BY <1>2, <2>4 DEF OnPublish, Known
    <3> QED
      BY <2>1, <2>2, <3>1
  <2> QED
    BY <2>3, <2>4
<1>3. CASE Closed
  <2>1. busy /\ mine /\ ~busy' /\ UNCHANGED sseq
    BY <1>3 DEF Closed, Return
  <2>2. top' = (IF msg.data THEN msg.num ELSE top)
    BY <1>3 DEF Closed, Deliver
  <2>3. stalled' = (stalled \/ ~(start .. (msg.num - 1) \subseteq got))
    BY <1>3 DEF Closed, Stalls
  <2>4. (stalled \/ Noted => stalled') /\ ~Noted'
    BY <2>1, <2>3 DEF Noted
  <2>5. ASSUME ~stalled' PROVE top = msg.num - 1
    <3>1. start .. (msg.num - 1) \subseteq got
      BY <2>3, <2>5
    <3>2. msg.num - 1 \in got
      BY <2>1, <3>1
    <3> QED
      BY <2>1, <3>2
  <2>6. msg.data => msg.num \in (top + 1) .. sseq
    BY <2>1
  <2>7. stalled' \/ top = msg.num - 1
    BY <2>5
  <2>8. CASE msg.data
    <3>1. top' \in (top + 1) .. sseq /\ UNCHANGED sseq
      BY <2>1, <2>2, <2>6, <2>8
    <3>2. top' = top + 1 \/ stalled'
      BY <2>2, <2>7, <2>8
    <3> QED
      BY <2>4, <3>1, <3>2
  <2>9. CASE ~msg.data
    BY <2>1, <2>2, <2>4, <2>9
  <2> QED
    BY <2>8, <2>9
<1>4. CASE Orphaned
  BY <1>4 DEF Orphaned, Return, Noted
<1>15. CASE OnLatePublish
  BY <1>15 DEF OnLatePublish, Known, Noted
<1>16. CASE \E seq \in todo : RepublishedLate(seq)
  <2>1. UNCHANGED <<sseq, top, stalled>> /\ ~mine /\ ~mine'
    BY <1>16 DEF RepublishedLate
  <2>2. ~Noted /\ ~Noted'
    BY <2>1 DEF Noted
  <2> QED
    BY <2>1, <2>2
<1>5. CASE \E seq \in todo : Republished(seq)
  <2>1. PICK seq \in todo : Republished(seq)
    BY <1>5
  <2>2. /\ busy /\ mine /\ top' = seq /\ got' = got \cup {seq} /\ todo' = todo \ {seq}
        /\ UNCHANGED <<sseq, stalled, busy, mine, msg, start>> /\ \A n \in todo : seq <= n
    BY <2>1 DEF Republished, IsNext
  <2>3. seq \in (top + 1) .. sseq
    <3>1. top < seq /\ todo \subseteq start .. (msg.num - 1) /\ msg.num \in 1 .. (sseq + 1)
      BY <2>2
    <3>2. seq \in todo /\ top \in Nat /\ sseq \in Nat /\ start \in Nat
      BY <2>1
    <3> HIDE DEF InGap, OneAtATime, LogEnd, Inv
    <3> QED
      BY <3>1, <3>2
  <2>4. ASSUME Noted PROVE Noted'
    <3>1. PICK n \in start .. (msg.num - 1) : n \notin got /\ \A m \in todo : n < m
      BY <2>4 DEF Noted
    <3>2. n # seq
      BY <3>1
    <3> QED
      BY <2>2, <3>1, <3>2 DEF Noted
  <2>5. ASSUME ~stalled, ~Noted' PROVE seq = top + 1
    <3>1. CASE seq = start
      BY <2>2, <2>3, <2>5, <3>1
    <3>2. CASE seq # start
      <4>1. seq - 1 \in start .. (msg.num - 1)
        BY <2>2, <3>2
      <4>2. \A m \in todo' : seq - 1 < m
        BY <2>2
      <4>3. seq - 1 \in got'
        BY <2>2, <2>5, <4>1, <4>2 DEF Noted
      <4>4. seq - 1 \in got
        BY <2>2, <4>3
      <4> QED
        BY <2>2, <2>3, <4>4
    <3> QED
      BY <3>1, <3>2
  <2>6. stalled \/ Noted' \/ seq = top + 1
    BY <2>5
  <2> QED
    BY <2>2, <2>3, <2>4, <2>6
<1>6. CASE \E seq \in todo : RepublishFails(seq)
  <2>1. PICK seq \in todo : RepublishFails(seq)
    BY <1>6
  <2>2. stalled' = (stalled \/ ~(start .. (seq - 1) \subseteq got))
    BY <2>1 DEF RepublishFails, Stalls
  <2>3. busy /\ mine
    BY <2>1 DEF RepublishFails
  <2>4. ASSUME Noted PROVE stalled'
    <3>1. PICK n \in start .. (msg.num - 1) : n \notin got /\ n < seq
      BY <2>1, <2>4 DEF Noted
    <3>2. n \in start .. (seq - 1)
      BY <2>3, <3>1
    <3> QED
      BY <2>2, <3>1, <3>2
  <2>5. UNCHANGED <<sseq, top>> /\ ~Noted'
    BY <2>1 DEF RepublishFails, Return, Noted
  <2> QED
    BY <2>2, <2>4, <2>5
<1>7. CASE ServerSends
  BY <1>7, NewestSubset DEF ServerSends, Noted
<1>8. CASE Resume
  BY <1>8 DEF Resume, Noted
<1>9. CASE Replaced
  BY <1>9 DEF Replaced, Fault, NewSubscription, Noted
<1>10. CASE Silent
  BY <1>10 DEF Silent, Noted
<1>11. CASE Recreate
  BY <1>11 DEF Recreate, NewSubscription, Noted
<1>12. CASE Cut
  BY <1>12 DEF Cut, Fault, Noted
<1>13. CASE Dropped
  <2>1. UNCHANGED <<sseq, top>> /\ (stalled => stalled') /\ (Noted => Noted')
    BY <1>13 DEF Dropped, Noted
  <2> QED
    BY <2>1
<1>14. CASE UNCHANGED vars
  BY <1>14 DEF vars, Noted
<1> QED
  BY <1>1, <1>2, <1>3, <1>4, <1>5, <1>6, <1>7, <1>8, <1>9, <1>10, <1>11, <1>12, <1>13, <1>14, <1>15, <1>16 DEF Next, Publisher, RunLoop, Environment

\* The subscription starts with nothing sent and nothing logged.
LEMMA InitInv == Init => Inv
<1> SUFFICES ASSUME Init PROVE Inv
  OBVIOUS
<1> USE DEF Init, NoMessage
<1>1. FlagsOK /\ MessagesOK
  BY DEF FlagsOK, MessagesOK, Message
<1>2. NumbersOK
  BY DEF NumbersOK
<1>3. OneAtATime /\ LogEnd /\ InGap
  BY DEF OneAtATime, LogEnd, InGap
<1> QED
  BY <1>1, <1>2, <1>3 DEF Inv, TypeOK

\* Inv holds in every state.
THEOREM Invariant == Spec => []Inv
<1>1. Inv /\ [Next]_vars => TypeOK'
  BY FlagsTyped, MessagesTyped, NumbersTyped, LocalsStep DEF Inv, TypeOK
<1>2. Inv /\ [Next]_vars => OneAtATime' /\ LogEnd' /\ InGap'
  BY OneStep, LogStep, GapStep DEF Inv
<1>3. Inv /\ [Next]_vars => Inv'
  BY <1>1, <1>2 DEF Inv
<1> QED
  BY <1>3, InitInv, PTL DEF Spec

\* Type correctness: on_publish holds its locals only while it awaits _republish.
THEOREM TypeCorrect == Spec => []TypeOK
<1>1. Inv => TypeOK
  BY DEF Inv
<1> QED
  BY <1>1, Invariant, PTL

\* Nothing is lost in silence: every notification below `expected' was logged, or the
\* subscription is marked for _watch to recreate it.
THEOREM NothingLostSilently == Spec => []NoSilentLoss
<1>1. Inv => NoSilentLoss
  BY DEF Inv, LogEnd, InGap, NoSilentLoss
<1> QED
  BY <1>1, Invariant, PTL

\* Publish implements Delivery: what reaches the trace is once, in order and without a gap,
\* or the subscription is known to have lost some and is replaced.
THEOREM KeepsPromise == Spec => Keeps
<1>1. Init => Promise!Init
  BY DEF Init, Promise!Init, Noted
<1>2. Inv /\ [Next]_vars => [Promise!Next]_Promise!vars
  BY StepSimulated
<1> QED
  BY <1>1, <1>2, Invariant, PTL DEF Spec, Keeps, Promise!Spec
=============================================================================
