--------------------------- MODULE SessionProofs ---------------------------
(***************************************************************************)
(* The safety theorems of Session, for every set of targets, grouping and  *)
(* bound.  `Inv' is the inductive invariant: each part says what the run   *)
(* loop may rely on at the await it is parked at, whatever the Publish     *)
(* loop, the link and the server did meanwhile.  `ServedInv' adds that     *)
(* what the client believes of the server's subscriptions is true, and     *)
(* none of them is forgotten.                                              *)
(***************************************************************************)
EXTENDS Session, TLAPS

\* The client names at most one session at a time, and which field names it follows from
\* where the run loop is.
OneHandle ==
    /\ taken # NoSession <=> pc \in {"activating", "closing"}
    /\ taken # NoSession => taken.token # 0
    /\ pc \in {"activating", "closing", "creating"} => detached = NoSession
    /\ detached # NoSession => detached.token # 0
    /\ token # 0 => detached = NoSession /\ pc \notin {"opening", "activating", "closing", "creating"}
    /\ pc \in Preparing \cup Subscribing \cup {"dropOld"} => token # 0
    /\ connected => token # 0
    /\ token <= nsess /\ taken.token <= nsess /\ detached.token <= nsess

\* A session given up is held only until the next _detach, and never kept.
AbandonedUnkept ==
    /\ ~TokenStays /\ token \in abandoned => fresh
    /\ ~TokenStays /\ taken.keep => taken.token \notin abandoned
    /\ ~TokenStays /\ detached.keep => detached.token \notin abandoned
    /\ \A x \in abandoned : x # 0 /\ x <= nsess

\* While _subscribe runs for _start_transport every target is accounted for: polled, still
\* to come, in the batch, or monitored by an earlier subscription of this set-up.
SettingUp ==
    pc \in Subscribing /\ old = 0 =>
        /\ subscribing
        /\ pc \in {"items", "empty"} => cur \in DOMAIN subs /\ subs[cur].items = batch
        /\ pc = "items" => batch \subseteq monitored
        /\ \A t \in batch : IntervalOf[t] \notin todo
        /\ \A s \in DOMAIN subs \ {cur} : \A t \in subs[s].items :
              t \notin batch /\ IntervalOf[t] \notin todo
        /\ \A t \in Targets :
              \/ t \in polling \/ t \in batch \/ IntervalOf[t] \in todo
              \/ t \in monitored /\ \E s \in DOMAIN subs \ {cur} : t \in subs[s].items

\* While it runs for _recreate: either the Publish loop moved everything to polling, or the
\* other subscriptions still cover what the batch does not.
Recreating ==
    old # 0 =>
        \/ polled = Targets
        \/ /\ watched /\ old \in DOMAIN subs
           /\ pc \in {"items", "empty"} => cur \in DOMAIN subs
           /\ pc = "items" => batch \subseteq monitored
           /\ \A t \in Targets :
                 \/ t \in polled \/ t \in batch
                 \/ t \in monitored /\ \E s \in DOMAIN subs \ {old, cur} : t \in subs[s].items

\* _ready and the locals that carry the decision about it.
Readiness ==
    /\ pc \in {"creating", "clearing", "resolving", "dropOld"} \cup Subscribing => ~ready
    /\ pc = "discovering" /\ resumed /\ ~rebuild => ready
    /\ pc = "subscribe" => old = 0 /\ cur = 0 /\ batch = {}
    /\ pc \in {"create", "dropOld"} => cur = 0
    /\ pc = "dropOld" => old # 0
    /\ cur # old \/ cur = 0
    /\ cur <= nsub /\ old <= nsub /\ \A s \in DOMAIN subs : s # 0 /\ s <= nsub

Inv == TypeOK /\ OneHandle /\ AbandonedUnkept /\ SettingUp /\ Recreating /\ Readiness
         /\ Covered /\ SlotsAccounted

\* What is left of the server's subscriptions after a deletion is well typed.
LEMMA DeletedTyped ==
    ASSUME CarriedOK, NEW gone
    PROVE  DOMAIN Deleted(gone) \subseteq Nat /\ Deleted(gone) \in [DOMAIN Deleted(gone) -> Served]
  BY DEF CarriedOK, Deleted, Restrict

\* A best effort delete leaves the server's subscriptions and the asked-for ones well typed.
LEMMA BestEffortTyped ==
    ASSUME CarriedOK, NEW ids \in SUBSET Nat, DeleteBestEffort(ids)
    PROVE  /\ DOMAIN ssubs' \subseteq Nat /\ ssubs' \in [DOMAIN ssubs' -> Served]
           /\ shed' \subseteq Nat
<1>1. DOMAIN ssubs' \subseteq Nat /\ ssubs' \in [DOMAIN ssubs' -> Served]
  BY DeletedTyped DEF DeleteBestEffort, CarriedOK
<1> QED
  BY <1>1 DEF DeleteBestEffort, CarriedOK

\* _poll_everything keeps what the client carries well typed.
LEMMA PollEverythingTyped ==
    ASSUME CarriedOK, PollEverything, UNCHANGED <<nsub, ended>>
    PROVE  CarriedOK'
<1>1. DOMAIN subs \in SUBSET Nat
  BY DEF CarriedOK
<1>2. DOMAIN ssubs' \subseteq Nat /\ ssubs' \in [DOMAIN ssubs' -> Served] /\ shed' \subseteq Nat
  BY <1>1, BestEffortTyped DEF PollEverything
<1>3. DOMAIN subs' \subseteq Nat /\ subs' \in [DOMAIN subs' -> Tracked]
  BY DEF PollEverything, NoSubs
<1> QED
  BY <1>2, <1>3 DEF PollEverything, CarriedOK

\* A mark of a subscription as stalled leaves what it is tracked with.
LEMMA StallsIs ==
    ASSUME CarriedOK, NEW s \in DOMAIN subs, Stall(s) \/ StatusChange(s)
    PROVE  DOMAIN subs' = DOMAIN subs /\ \A r \in DOMAIN subs : subs'[r].items = subs[r].items
<1>1. subs' = [subs EXCEPT ![s] = [subs[s] EXCEPT !.stalled = TRUE]]
  BY DEF Stall, StatusChange, Stalls
<1>2. subs \in [DOMAIN subs -> [items : SUBSET Targets, stalled : BOOLEAN]]
  BY DEF CarriedOK, Tracked
<1>3. subs[s] \in [items : SUBSET Targets, stalled : BOOLEAN]
  BY <1>2
<1> QED
  BY <1>1, <1>2, <1>3

\* Every step keeps the flags Boolean.
LEMMA FlagsTyped == TypeOK /\ [Next]_vars => FlagsOK'
<1> SUFFICES ASSUME TypeOK, [Next]_vars PROVE FlagsOK'
  OBVIOUS
<1> USE SessionAssumption DEF TypeOK, FlagsOK, NoSession, NoSubs, Preparing, Subscribing,
      Publishing, Fault, Unanswered, Restrict, control, opening, filling, flags, session, carried,
      indexes, client, sessions, served, server, history
<1>1. CASE Detach
  BY <1>1 DEF Detach, EndSession, Deleted, Keep, DetachedAgain
<1>2. CASE Open
  BY <1>2 DEF Open
<1>3. CASE Unreachable
  BY <1>3 DEF Unreachable, Fails, Return
<1>4. CASE Resume
  BY <1>4 DEF Resume, Established
<1>5. CASE ActivateToClose
  BY <1>5 DEF ActivateToClose
<1>6. CASE ActivateCut
  BY <1>6 DEF ActivateCut, Fails, Return, PutBack
<1>7. CASE NotActivated
  BY <1>7 DEF NotActivated, Dropped
<1>8. CASE CloseOld
  BY <1>8 DEF CloseOld, Dropped, EndSession, Deleted
<1>9. CASE CreateSession
  BY <1>9 DEF CreateSession, Established
<1>10. CASE CreateSessionCut
  BY <1>10 DEF CreateSessionCut, Fails, Return
<1>11. CASE Check
  <2>1. rebuild' \in BOOLEAN
    <3>1. ASSUME NEW w \in BOOLEAN, Decide(w) PROVE rebuild' \in BOOLEAN
      BY <3>1 DEF Decide, Rebind, Rebuild
    <3>2. ArrayChanged \in BOOLEAN
      BY DEF ArrayChanged
    <3> QED
      BY <1>11, <3>1, <3>2 DEF Check
  <2>2. first' \in BOOLEAN /\ ready' \in BOOLEAN
    BY <1>11 DEF Check, Decide, Rebind, Rebuild
  <2> QED
    BY <1>11, <2>1, <2>2 DEF Check, control, filling, session, carried, server, history
<1>12. CASE Discover
  BY <1>12 DEF Discover, Rebind, Rebuild
<1>13. CASE Clear
  BY <1>13 DEF Clear, DeleteBestEffort, Deleted
<1>14. CASE Resolve
  BY <1>14 DEF Resolve
<1>15. CASE RequestCut
  BY <1>15 DEF RequestCut, Fails, Return
<1>16. CASE NextGroup
  BY <1>16 DEF NextGroup, Group
<1>17. CASE CreateSubscription
  BY <1>17 DEF CreateSubscription, NewSubscription, Extend
<1>18. CASE CreateRefused
  BY <1>18 DEF CreateRefused, Subscribed, Recreated, Abandon, Return, Without
<1>19. CASE CreateCut
  BY <1>19 DEF CreateCut, Fails, Return, NewSubscription, Extend
<1>20. CASE \E refused \in SUBSET batch : CreateItems(refused)
  <2>1. PICK refused \in SUBSET batch : CreateItems(refused)
    BY <1>20
  <2>2. full' \in BOOLEAN
    BY <2>1 DEF CreateItems, Subscribed, Recreated, Return
  <2>3. connected' \in BOOLEAN /\ fresh' \in BOOLEAN
    BY <2>1 DEF CreateItems, Subscribed, Recreated, Abandon
  <2>4. ready' \in BOOLEAN
    BY <2>1 DEF CreateItems, Subscribed, Recreated
  <2> QED
    BY <2>1, <2>2, <2>3, <2>4 DEF CreateItems
<1>21. CASE DeleteEmpty
  <2>1. full' \in BOOLEAN
    BY <1>21 DEF DeleteEmpty, Subscribed, Recreated, Return
  <2>2. connected' \in BOOLEAN /\ fresh' \in BOOLEAN
    BY <1>21 DEF DeleteEmpty, Subscribed, Recreated, Abandon
  <2>3. ready' \in BOOLEAN
    BY <1>21 DEF DeleteEmpty, Subscribed, Recreated
  <2> QED
    BY <1>21, <2>1, <2>2, <2>3 DEF DeleteEmpty
<1>22. CASE TransportReady
  BY <1>22 DEF TransportReady, Return, PollEverything, DeleteBestEffort, Deleted
<1>23. CASE \E s \in DOMAIN subs : Watch(s)
  BY <1>23 DEF Watch, Overdue
<1>24. CASE DropOld
  BY <1>24 DEF DropOld, DeleteBestEffort, Deleted
<1>25. CASE RequestTimesOut
  BY <1>25 DEF RequestTimesOut
<1>26. CASE FailuresInARow
  BY <1>26 DEF FailuresInARow, Abandon
<1>27. CASE LinkNoticed
  BY <1>27 DEF LinkNoticed
<1>28. CASE PublishUndecodable
  BY <1>28 DEF PublishUndecodable, PollEverything, DeleteBestEffort, Deleted
<1>29. CASE \E s \in DOMAIN subs : Stall(s) \/ StatusChange(s)
  BY <1>29 DEF Stall, StatusChange, Stalls
<1>30. CASE Cut
  BY <1>30 DEF Cut
<1>31. CASE (\E x \in live : Expire(x)) \/ \E s \in DOMAIN ssubs : Drop(s)
  <2>1. CASE \E x \in live : Expire(x)
    BY <2>1 DEF Expire, EndSession, Deleted
  <2>2. CASE \E s \in DOMAIN ssubs : Drop(s)
    BY <2>2 DEF Drop, Deleted
  <2> QED
    BY <1>31, <2>1, <2>2
<1>32. CASE Renumber
  BY <1>32 DEF Renumber
<1>33. CASE UNCHANGED vars
  BY <1>33 DEF vars
<1> QED
  BY <1>1, <1>2, <1>3, <1>4, <1>5, <1>6, <1>7, <1>8, <1>9, <1>10, <1>11, <1>12, <1>13,
     <1>14, <1>15, <1>16, <1>17, <1>18, <1>19, <1>20, <1>21, <1>22, <1>23, <1>24, <1>25, <1>26,
     <1>27, <1>28, <1>29, <1>30, <1>31, <1>32, <1>33 DEF Next, RunLoop, Connecting, Transport,
     Jobs, Publisher, Environment

\* Every step leaves the run loop at an await of the code, and clears the locals of the calls
\* that returned.
LEMMA ControlTyped == TypeOK /\ [Next]_vars => ControlOK'
<1> SUFFICES ASSUME TypeOK, [Next]_vars PROVE ControlOK'
  OBVIOUS
<1> USE SessionAssumption DEF TypeOK, FlagsOK, ControlOK, PCs, NoSession, NoSubs, Preparing,
      Subscribing, Publishing, Fault, Unanswered, Restrict, control, opening, filling, flags,
      session, carried, indexes, client, sessions, served, server, history
<1>1. CASE Detach \/ Open \/ Unreachable
  BY <1>1 DEF Detach, Open, Unreachable, EndSession, Deleted, Keep, DetachedAgain, Fails, Return
<1>2. CASE Resume \/ ActivateToClose \/ ActivateCut
  BY <1>2 DEF Resume, ActivateToClose, ActivateCut, Established, Fails, Return, PutBack
<1>3. CASE NotActivated \/ CloseOld
  BY <1>3 DEF NotActivated, CloseOld, Dropped, EndSession, Deleted
<1>4. CASE CreateSession \/ CreateSessionCut
  BY <1>4 DEF CreateSession, CreateSessionCut, Established, Fails, Return
<1>5. CASE Check \/ Discover
  BY <1>5 DEF Check, Discover, Decide, Rebind, Rebuild
<1>6. CASE Clear \/ Resolve \/ RequestCut
  BY <1>6 DEF Clear, Resolve, RequestCut, DeleteBestEffort, Deleted, Fails, Return
<1>7. CASE NextGroup
  BY <1>7 DEF NextGroup, Group
<1>8. CASE CreateSubscription \/ CreateCut
  BY <1>8 DEF CreateSubscription, CreateCut, NewSubscription, Extend, Fails, Return, CarriedOK
<1>9. CASE CreateRefused
  BY <1>9 DEF CreateRefused, Subscribed, Recreated, Abandon, Return, Without
<1>10. CASE \E refused \in SUBSET batch : CreateItems(refused)
  BY <1>10 DEF CreateItems, Subscribed, Recreated, Abandon, Return, Without
<1>11. CASE DeleteEmpty
  BY <1>11 DEF DeleteEmpty, Subscribed, Recreated, Abandon, Return, Without, Deleted
<1>12. CASE TransportReady
  BY <1>12 DEF TransportReady, Return, PollEverything, DeleteBestEffort, Deleted
<1>13. CASE (\E s \in DOMAIN subs : Watch(s)) \/ DropOld
  BY <1>13 DEF Watch, Overdue, DropOld, DeleteBestEffort, Deleted, CarriedOK, Tracked
<1>14. CASE RequestTimesOut \/ FailuresInARow \/ LinkNoticed
  BY <1>14 DEF RequestTimesOut, FailuresInARow, LinkNoticed, Abandon
<1>15. CASE PublishUndecodable
  BY <1>15 DEF PublishUndecodable, PollEverything, DeleteBestEffort, Deleted
<1>16. CASE \E s \in DOMAIN subs : Stall(s) \/ StatusChange(s)
  BY <1>16 DEF Stall, StatusChange, Stalls
<1>17. CASE Cut \/ (\E x \in live : Expire(x)) \/ (\E s \in DOMAIN ssubs : Drop(s)) \/ Renumber
  BY <1>17 DEF Cut, Expire, Drop, Renumber, EndSession, Deleted
<1>18. CASE UNCHANGED vars
  BY <1>18 DEF vars
<1> QED
  BY <1>1, <1>2, <1>3, <1>4, <1>5, <1>6, <1>7, <1>8, <1>9, <1>10, <1>11, <1>12, <1>13,
     <1>14, <1>15, <1>16, <1>17, <1>18 DEF Next, RunLoop, Connecting, Transport, Jobs, Publisher,
     Environment

\* Every step keeps the sessions, their handles and the array versions well typed.
LEMMA SessionTyped == TypeOK /\ [Next]_vars => SessionOK'
<1> SUFFICES ASSUME TypeOK, [Next]_vars PROVE SessionOK'
  OBVIOUS
<1> USE SessionAssumption DEF TypeOK, FlagsOK, SessionOK, NoSession, NoSubs, Preparing,
      Subscribing, Publishing, Fault, Unanswered, Restrict, control, opening, filling, flags,
      session, carried, indexes, client, sessions, served, server, history
<1>1. CASE Detach
  <2>1. Keep \in BOOLEAN
    BY DEF Keep
  <2>2. live' \subseteq Nat
    BY <1>1 DEF Detach, EndSession
  <2>3. detached' \in [token : Nat, keep : BOOLEAN]
    <3>1. [token |-> token, keep |-> Keep] \in [token : Nat, keep : BOOLEAN]
      BY <2>1
    <3>2. DetachedAgain \subseteq [token : Nat, keep : BOOLEAN]
      BY <2>1 DEF DetachedAgain
    <3>3. \/ detached' = detached \/ detached' = [token |-> token, keep |-> Keep]
          \/ detached' \in DetachedAgain
      BY <1>1 DEF Detach
    <3> HIDE DEF DetachedAgain
    <3> QED
      BY <3>1, <3>2, <3>3
  <2>4. faults' \in Nat
    BY <1>1 DEF Detach
  <2> QED
    BY <1>1, <2>2, <2>3, <2>4 DEF Detach, opening, indexes, history
<1>2. CASE Open
  BY <1>2 DEF Open
<1>3. CASE Unreachable
  BY <1>3 DEF Unreachable, Fails, Return
<1>4. CASE Resume
  BY <1>4 DEF Resume, Established
<1>5. CASE ActivateToClose
  BY <1>5 DEF ActivateToClose
<1>6. CASE ActivateCut
  BY <1>6 DEF ActivateCut, Fails, Return, PutBack
<1>7. CASE NotActivated
  <2>1. lost' \subseteq Nat
    BY <1>7 DEF NotActivated
  <2>2. faults' \in Nat
    BY <1>7 DEF NotActivated
  <2>3. taken' \in [token : Nat, keep : BOOLEAN]
    BY <1>7 DEF NotActivated, Dropped
  <2> QED
    BY <1>7, <2>1, <2>2, <2>3 DEF NotActivated, session, indexes, server, sessions
<1>8. CASE CloseOld
  BY <1>8 DEF CloseOld, Dropped, EndSession, Deleted
<1>9. CASE CreateSession
  BY <1>9 DEF CreateSession, Established
<1>10. CASE CreateSessionCut
  <2>1. faults' \in Nat
    BY <1>10 DEF CreateSessionCut
  <2>2. \/ nsess' = nsess /\ live' = live
        \/ nsess' = nsess + 1 /\ live' = live \cup {nsess + 1}
    BY <1>10, Zenon DEF CreateSessionCut
  <2>3. nsess + 1 \in Nat /\ live \subseteq Nat /\ nsess \in Nat
    OBVIOUS
  <2>4. nsess' \in Nat /\ live' \subseteq Nat
    BY <2>2, <2>3, Zenon
  <2>5. \/ lost' = lost /\ token' = token
        \/ lost' = lost \cup {nsess + 1} /\ token' = token
        \/ token' = nsess + 1 /\ lost' = lost
    BY <1>10, Zenon DEF CreateSessionCut
  <2>6. nsess + 1 \in Nat /\ lost \subseteq Nat /\ token \in Nat
    OBVIOUS
  <2>7. lost' \subseteq Nat
    BY <2>5, <2>6, Zenon
  <2>8. token' \in Nat
    BY <2>5, <2>6, Zenon
  <2> QED
    BY <1>10, <2>1, <2>4, <2>7, <2>8 DEF CreateSessionCut, Fails
<1>11. CASE Check
  BY <1>11 DEF Check, Decide, Rebind, Rebuild
<1>12. CASE Discover
  BY <1>12 DEF Discover, Rebind, Rebuild
<1>13. CASE Clear \/ Resolve \/ RequestCut
  BY <1>13 DEF Clear, Resolve, RequestCut, DeleteBestEffort, Deleted, Fails, Return
<1>14. CASE NextGroup
  BY <1>14 DEF NextGroup, Group
<1>15. CASE CreateSubscription \/ CreateCut
  BY <1>15 DEF CreateSubscription, CreateCut, NewSubscription, Extend, Fails, Return
<1>16. CASE CreateRefused
  BY <1>16 DEF CreateRefused, Subscribed, Recreated, Abandon, Return, Without
<1>17. CASE \E refused \in SUBSET batch : CreateItems(refused)
  BY <1>17 DEF CreateItems, Subscribed, Recreated, Abandon, Return, Without
<1>18. CASE DeleteEmpty
  BY <1>18 DEF DeleteEmpty, Subscribed, Recreated, Abandon, Return, Without, Deleted
<1>19. CASE TransportReady
  BY <1>19 DEF TransportReady, Return, PollEverything, DeleteBestEffort, Deleted
<1>20. CASE (\E s \in DOMAIN subs : Watch(s)) \/ DropOld
  BY <1>20 DEF Watch, Overdue, DropOld, DeleteBestEffort, Deleted
<1>21. CASE RequestTimesOut
  BY <1>21 DEF RequestTimesOut
<1>22. CASE FailuresInARow
  BY <1>22 DEF FailuresInARow, Abandon
<1>23. CASE LinkNoticed
  BY <1>23 DEF LinkNoticed
<1>24. CASE PublishUndecodable
  <2>1. faults' \in Nat /\ lost' = lost /\ abandoned' = abandoned
    BY <1>24 DEF PublishUndecodable
  <2> QED
    BY <1>24, <2>1 DEF PublishUndecodable
<1>25. CASE \E s \in DOMAIN subs : Stall(s) \/ StatusChange(s)
  BY <1>25 DEF Stall, StatusChange, Stalls
<1>26. CASE Cut
  BY <1>26 DEF Cut
<1>27. CASE (\E x \in live : Expire(x)) \/ \E s \in DOMAIN ssubs : Drop(s)
  <2>1. CASE \E x \in live : Expire(x)
    BY <2>1 DEF Expire, EndSession, Deleted
  <2>2. CASE \E s \in DOMAIN ssubs : Drop(s)
    BY <2>2 DEF Drop, Deleted
  <2> QED
    BY <1>27, <2>1, <2>2
<1>28. CASE Renumber
  BY <1>28 DEF Renumber
<1>29. CASE UNCHANGED vars
  BY <1>29 DEF vars
<1> QED
  BY <1>1, <1>2, <1>3, <1>4, <1>5, <1>6, <1>7, <1>8, <1>9, <1>10, <1>11, <1>12, <1>13,
     <1>14, <1>15, <1>16, <1>17, <1>18, <1>19, <1>20, <1>21, <1>22, <1>23, <1>24, <1>25, <1>26,
     <1>27, <1>28, <1>29 DEF Next, RunLoop, Connecting, Transport, Jobs, Publisher, Environment

\* Every step keeps the subscriptions, the client's and the server's, well typed.
LEMMA CarriedTyped == TypeOK /\ [Next]_vars => CarriedOK'
<1> SUFFICES ASSUME TypeOK, [Next]_vars PROVE CarriedOK'
  OBVIOUS
<1> USE SessionAssumption DEF TypeOK, FlagsOK, ControlOK, SessionOK, CarriedOK, Tracked, Served,
      NoSession, NoSubs, Preparing, Subscribing, Publishing, Fault, Unanswered, Restrict, control,
      opening, filling, flags, session, carried, indexes, client, sessions, served, server,
      history
<1>1. CASE Detach \/ Open \/ Unreachable
  BY <1>1 DEF Detach, Open, Unreachable, EndSession, Deleted, Keep, DetachedAgain, Fails, Return
<1>2. CASE Resume \/ ActivateToClose \/ ActivateCut
  BY <1>2 DEF Resume, ActivateToClose, ActivateCut, Established, Fails, Return, PutBack
<1>3. CASE NotActivated \/ CloseOld
  BY <1>3 DEF NotActivated, CloseOld, Dropped, EndSession, Deleted
<1>4. CASE CreateSession \/ CreateSessionCut
  BY <1>4 DEF CreateSession, CreateSessionCut, Established, Fails, Return
<1>5. CASE Check \/ Discover
  BY <1>5 DEF Check, Discover, Decide, Rebind, Rebuild
<1>6. CASE Clear \/ Resolve \/ RequestCut
  BY <1>6 DEF Clear, Resolve, RequestCut, DeleteBestEffort, Deleted, Fails, Return
<1>7. CASE NextGroup
  BY <1>7 DEF NextGroup, Group
<1>8. CASE CreateSubscription
  BY <1>8 DEF CreateSubscription, NewSubscription, Extend
<1>9. CASE CreateRefused
  BY <1>9 DEF CreateRefused, Subscribed, Recreated, Abandon, Return, Without
<1>10. CASE CreateCut
  BY <1>10 DEF CreateCut, Fails, Return, NewSubscription, Extend
<1>11. CASE \E refused \in SUBSET batch : CreateItems(refused)
  <2>1. PICK refused \in SUBSET batch : CreateItems(refused)
    BY <1>11
  <2>2. DOMAIN ssubs' \subseteq Nat /\ ssubs' \in [DOMAIN ssubs' -> Served]
    BY <2>1 DEF CreateItems
  <2>3. DOMAIN subs' \subseteq Nat /\ subs' \in [DOMAIN subs' -> Tracked]
    <3> DEFINE kept    == batch \cap (monitored \ refused)
               tracked == IF cur \in DOMAIN subs THEN [subs EXCEPT ![cur].items = kept] ELSE subs
    <3>1. tracked \in [DOMAIN subs -> Tracked]
      OBVIOUS
    <3>2. subs' \in {subs, tracked, Without(tracked, old)}
      BY <2>1 DEF CreateItems, Subscribed, Recreated
    <3> HIDE DEF tracked
    <3> QED
      BY <3>1, <3>2 DEF Without
  <2> QED
    BY <2>1, <2>2, <2>3 DEF CreateItems
<1>12. CASE DeleteEmpty
  BY <1>12 DEF DeleteEmpty, Subscribed, Recreated, Abandon, Return, Without, Deleted
<1>13. CASE TransportReady
  <2>1. CASE PollEverything
    BY <1>13, <2>1, PollEverythingTyped DEF TransportReady
  <2>2. CASE ~PollEverything
    BY <1>13, <2>2 DEF TransportReady
  <2> QED
    BY <2>1, <2>2
<1>14. CASE (\E s \in DOMAIN subs : Watch(s)) \/ DropOld
  <2>1. CASE \E s \in DOMAIN subs : Watch(s)
    <3>1. PICK s \in DOMAIN subs : Watch(s)
      BY <2>1
    <3>2. [subs[s] EXCEPT !.stalled = TRUE] \in Tracked
      <4>1. subs[s] \in Tracked
        BY <3>1
      <4> QED
        BY <4>1
    <3>3. subs' = [subs EXCEPT ![s] = [subs[s] EXCEPT !.stalled = TRUE]]
      BY <3>1 DEF Watch
    <3>4. DOMAIN subs' \subseteq Nat /\ subs' \in [DOMAIN subs' -> Tracked]
      BY <3>2, <3>3
    <3> QED
      BY <3>1, <3>4 DEF Watch
  <2>2. CASE DropOld
    BY <2>2 DEF DropOld, DeleteBestEffort, Deleted
  <2> QED
    BY <1>14, <2>1, <2>2
<1>15. CASE RequestTimesOut \/ FailuresInARow \/ LinkNoticed
  BY <1>15 DEF RequestTimesOut, FailuresInARow, LinkNoticed, Abandon
<1>16. CASE PublishUndecodable
  <2>1. CASE PollEverything
    BY <1>16, <2>1, PollEverythingTyped DEF PublishUndecodable
  <2>2. CASE ~PollEverything
    BY <1>16, <2>2 DEF PublishUndecodable
  <2> QED
    BY <2>1, <2>2
<1>17. CASE \E s \in DOMAIN subs : Stall(s) \/ StatusChange(s)
  <2>1. PICK s \in DOMAIN subs : Stall(s) \/ StatusChange(s)
    BY <1>17
  <2>2. DOMAIN ssubs' \subseteq Nat /\ ssubs' \in [DOMAIN ssubs' -> Served]
    BY <2>1 DEF Stall, StatusChange, Stalls
  <2>3. subs[s] \in Tracked
    BY <2>1
  <2>4. [subs[s] EXCEPT !.stalled = TRUE] \in Tracked
    BY <2>3
  <2>5. subs' = [subs EXCEPT ![s] = [subs[s] EXCEPT !.stalled = TRUE]]
    BY <2>1 DEF Stall, StatusChange, Stalls
  <2>6. DOMAIN subs' \subseteq Nat /\ subs' \in [DOMAIN subs' -> Tracked]
    BY <2>1, <2>4, <2>5
  <2> QED
    BY <2>1, <2>2, <2>6 DEF Stall, StatusChange, Stalls
<1>18. CASE Cut \/ (\E x \in live : Expire(x)) \/ (\E s \in DOMAIN ssubs : Drop(s)) \/ Renumber
  <2>1. CASE Cut
    BY <2>1 DEF Cut
  <2>2. CASE \E x \in live : Expire(x)
    BY <2>2 DEF Expire, EndSession, Deleted
  <2>3. CASE \E s \in DOMAIN ssubs : Drop(s)
    BY <2>3 DEF Drop, Deleted
  <2>4. CASE Renumber
    BY <2>4 DEF Renumber
  <2> QED
    BY <1>18, <2>1, <2>2, <2>3, <2>4
<1>19. CASE UNCHANGED vars
  BY <1>19 DEF vars
<1> QED
  BY <1>1, <1>2, <1>3, <1>4, <1>5, <1>6, <1>7, <1>8, <1>9, <1>10, <1>11, <1>12, <1>13,
     <1>14, <1>15, <1>16, <1>17, <1>18, <1>19 DEF Next, RunLoop, Connecting, Transport, Jobs,
     Publisher, Environment

\* Every step leaves one handle: _detach moves `token' to `detached', Client.connect moves it
\* through `taken' back to `token', or drops it before CreateSession.
LEMMA HandleStep == TypeOK /\ OneHandle /\ [Next]_vars => OneHandle'
<1> SUFFICES ASSUME TypeOK /\ OneHandle, [Next]_vars PROVE OneHandle'
  OBVIOUS
<1> USE SessionAssumption DEF TypeOK, ControlOK, SessionOK, PCs, OneHandle, NoSession, NoSubs,
      Preparing, Subscribing, Publishing, Fault, Unanswered, Restrict, control, opening, filling,
      flags, session, carried, indexes, client, sessions, served, server, history
<1>1. CASE Detach \/ Open \/ Unreachable
  BY <1>1 DEF Detach, Open, Unreachable, EndSession, Deleted, Keep, DetachedAgain, Fails, Return
<1>2. CASE Resume \/ ActivateToClose \/ ActivateCut
  BY <1>2 DEF Resume, ActivateToClose, ActivateCut, Established, Fails, Return, PutBack
<1>3. CASE NotActivated \/ CloseOld
  BY <1>3 DEF NotActivated, CloseOld, Dropped, EndSession, Deleted
<1>4. CASE CreateSession \/ CreateSessionCut
  BY <1>4 DEF CreateSession, CreateSessionCut, Established, Fails, Return
<1>5. CASE Check \/ Discover
  BY <1>5 DEF Check, Discover, Decide, Rebind, Rebuild
<1>6. CASE Clear \/ Resolve \/ RequestCut
  BY <1>6 DEF Clear, Resolve, RequestCut, DeleteBestEffort, Deleted, Fails, Return
<1>7. CASE NextGroup
  BY <1>7 DEF NextGroup, Group
<1>8. CASE CreateSubscription \/ CreateCut
  BY <1>8 DEF CreateSubscription, CreateCut, NewSubscription, Extend, Fails, Return
<1>9. CASE CreateRefused
  BY <1>9 DEF CreateRefused, Subscribed, Recreated, Abandon, Return, Without
<1>10. CASE \E refused \in SUBSET batch : CreateItems(refused)
  BY <1>10 DEF CreateItems, Subscribed, Recreated, Abandon, Return, Without
<1>11. CASE DeleteEmpty
  BY <1>11 DEF DeleteEmpty, Subscribed, Recreated, Abandon, Return, Without, Deleted
<1>12. CASE TransportReady
  BY <1>12 DEF TransportReady, Return, PollEverything, DeleteBestEffort, Deleted
<1>13. CASE (\E s \in DOMAIN subs : Watch(s)) \/ DropOld
  BY <1>13 DEF Watch, Overdue, DropOld, DeleteBestEffort, Deleted
<1>14. CASE RequestTimesOut \/ FailuresInARow \/ LinkNoticed
  BY <1>14 DEF RequestTimesOut, FailuresInARow, LinkNoticed, Abandon
<1>15. CASE PublishUndecodable
  BY <1>15 DEF PublishUndecodable, PollEverything, DeleteBestEffort, Deleted
<1>16. CASE \E s \in DOMAIN subs : Stall(s) \/ StatusChange(s)
  BY <1>16 DEF Stall, StatusChange, Stalls
<1>17. CASE Cut
  BY <1>17 DEF Cut
<1>18. CASE (\E x \in live : Expire(x)) \/ \E s \in DOMAIN ssubs : Drop(s)
  <2>1. CASE \E x \in live : Expire(x)
    BY <2>1 DEF Expire, EndSession, Deleted
  <2>2. CASE \E s \in DOMAIN ssubs : Drop(s)
    BY <2>2 DEF Drop, Deleted
  <2> QED
    BY <1>18, <2>1, <2>2
<1>19. CASE Renumber
  BY <1>19 DEF Renumber
<1>20. CASE UNCHANGED vars
  BY <1>20 DEF vars
<1> QED
  BY <1>1, <1>2, <1>3, <1>4, <1>5, <1>6, <1>7, <1>8, <1>9, <1>10, <1>11, <1>12, <1>13,
     <1>14, <1>15, <1>16, <1>17, <1>18, <1>19, <1>20 DEF Next, RunLoop, Connecting, Transport,
     Jobs, Publisher, Environment

\* Every step leaves a session given up either held and marked, or detached without keep.
LEMMA AbandonedStep == TypeOK /\ OneHandle /\ AbandonedUnkept /\ [Next]_vars => AbandonedUnkept'
<1> SUFFICES ASSUME TypeOK /\ OneHandle /\ AbandonedUnkept, [Next]_vars PROVE AbandonedUnkept'
  OBVIOUS
<1> USE SessionAssumption DEF TypeOK, ControlOK, SessionOK, PCs, OneHandle, AbandonedUnkept,
      NoSession, NoSubs, Preparing, Subscribing, Publishing, Fault, Unanswered, Restrict, control,
      opening, filling, flags, session, carried, indexes, client, sessions, served, server,
      history
<1>1. CASE Detach \/ Open \/ Unreachable
  BY <1>1 DEF Detach, Open, Unreachable, EndSession, Deleted, Keep, DetachedAgain, Fails, Return
<1>2. CASE Resume \/ ActivateToClose \/ ActivateCut
  <2>1. CASE Resume
    BY <2>1 DEF Resume, Established
  <2>2. CASE ActivateToClose
    BY <2>2 DEF ActivateToClose
  <2>3. CASE ActivateCut
    BY <2>3 DEF ActivateCut, PutBack
  <2> QED
    BY <1>2, <2>1, <2>2, <2>3
<1>3. CASE NotActivated \/ CloseOld
  BY <1>3 DEF NotActivated, CloseOld, Dropped, EndSession, Deleted
<1>4. CASE CreateSession
  BY <1>4 DEF CreateSession, Established
<1>5. CASE CreateSessionCut
  BY <1>5 DEF CreateSessionCut, Fails, Return
<1>6. CASE Check \/ Discover
  BY <1>6 DEF Check, Discover, Decide, Rebind, Rebuild
<1>7. CASE Clear \/ Resolve \/ RequestCut
  BY <1>7 DEF Clear, Resolve, RequestCut, DeleteBestEffort, Deleted, Fails, Return
<1>8. CASE NextGroup
  BY <1>8 DEF NextGroup, Group
<1>9. CASE CreateSubscription \/ CreateCut
  BY <1>9 DEF CreateSubscription, CreateCut, NewSubscription, Extend, Fails, Return
<1>10. CASE CreateRefused
  BY <1>10 DEF CreateRefused, Subscribed, Recreated, Abandon, Return, Without
<1>11. CASE \E refused \in SUBSET batch : CreateItems(refused)
  BY <1>11 DEF CreateItems, Subscribed, Recreated, Abandon, Return, Without
<1>12. CASE DeleteEmpty
  BY <1>12 DEF DeleteEmpty, Subscribed, Recreated, Abandon, Return, Without, Deleted
<1>13. CASE TransportReady
  BY <1>13 DEF TransportReady, Return, PollEverything, DeleteBestEffort, Deleted
<1>14. CASE (\E s \in DOMAIN subs : Watch(s)) \/ DropOld
  BY <1>14 DEF Watch, Overdue, DropOld, DeleteBestEffort, Deleted
<1>15. CASE RequestTimesOut
  BY <1>15 DEF RequestTimesOut
<1>16. CASE FailuresInARow
  BY <1>16 DEF FailuresInARow, Abandon
<1>17. CASE LinkNoticed
  BY <1>17 DEF LinkNoticed
<1>18. CASE PublishUndecodable
  BY <1>18 DEF PublishUndecodable, PollEverything, DeleteBestEffort, Deleted
<1>19. CASE \E s \in DOMAIN subs : Stall(s) \/ StatusChange(s)
  BY <1>19 DEF Stall, StatusChange, Stalls
<1>20. CASE Cut \/ (\E x \in live : Expire(x)) \/ (\E s \in DOMAIN ssubs : Drop(s)) \/ Renumber
  BY <1>20 DEF Cut, Expire, Drop, Renumber, EndSession, Deleted
<1>21. CASE UNCHANGED vars
  BY <1>21 DEF vars
<1> QED
  BY <1>1, <1>2, <1>3, <1>4, <1>5, <1>6, <1>7, <1>8, <1>9, <1>10, <1>11, <1>12, <1>13,
     <1>14, <1>15, <1>16, <1>17, <1>18, <1>19, <1>20, <1>21 DEF Next, RunLoop, Connecting,
     Transport, Jobs, Publisher, Environment

\* Every step accounts for every session the server holds.
LEMMA SlotsStep == TypeOK /\ OneHandle /\ SlotsAccounted /\ [Next]_vars => SlotsAccounted'
<1> SUFFICES ASSUME TypeOK /\ OneHandle /\ SlotsAccounted, [Next]_vars PROVE SlotsAccounted'
  OBVIOUS
<1> USE SessionAssumption DEF TypeOK, ControlOK, SessionOK, PCs, OneHandle, SlotsAccounted,
      NoSession, NoSubs, Preparing, Subscribing, Publishing, Fault, Unanswered, Restrict, control,
      opening, filling, flags, session, carried, indexes, client, sessions, served, server,
      history
<1>1. CASE Detach \/ Open \/ Unreachable
  BY <1>1 DEF Detach, Open, Unreachable, EndSession, Deleted, Keep, DetachedAgain, Fails, Return
<1>2. CASE Resume
  BY <1>2 DEF Resume, Established
<1>3. CASE ActivateToClose
  BY <1>3 DEF ActivateToClose
<1>4. CASE ActivateCut
  BY <1>4 DEF ActivateCut, Fails, Return, PutBack
<1>5. CASE NotActivated \/ CloseOld
  BY <1>5 DEF NotActivated, CloseOld, Dropped, EndSession, Deleted
<1>6. CASE CreateSession
  BY <1>6 DEF CreateSession, Established
<1>7. CASE CreateSessionCut
  <2>1. token = 0 /\ UNCHANGED <<taken, detached>>
    BY <1>7 DEF CreateSessionCut
  <2>2. \/ live' = live /\ lost' = lost /\ token' = token
        \/ live' = live \cup {nsess + 1} /\ lost' = lost \cup {nsess + 1} /\ token' = token
        \/ live' = live \cup {nsess + 1} /\ lost' = lost /\ token' = nsess + 1
    BY <1>7, Zenon DEF CreateSessionCut
  <2>3. taken = NoSession /\ detached = NoSession
    BY <1>7 DEF CreateSessionCut
  <2> QED
    BY <2>1, <2>2, <2>3
<1>8. CASE Check \/ Discover
  BY <1>8 DEF Check, Discover, Decide, Rebind, Rebuild
<1>9. CASE Clear \/ Resolve \/ RequestCut
  BY <1>9 DEF Clear, Resolve, RequestCut, DeleteBestEffort, Deleted, Fails, Return
<1>10. CASE NextGroup
  BY <1>10 DEF NextGroup, Group
<1>11. CASE CreateSubscription \/ CreateCut
  BY <1>11 DEF CreateSubscription, CreateCut, NewSubscription, Extend, Fails, Return
<1>12. CASE CreateRefused
  BY <1>12 DEF CreateRefused, Subscribed, Recreated, Abandon, Return, Without
<1>13. CASE \E refused \in SUBSET batch : CreateItems(refused)
  BY <1>13 DEF CreateItems, Subscribed, Recreated, Abandon, Return, Without
<1>14. CASE DeleteEmpty
  BY <1>14 DEF DeleteEmpty, Subscribed, Recreated, Abandon, Return, Without, Deleted
<1>15. CASE TransportReady
  BY <1>15 DEF TransportReady, Return, PollEverything, DeleteBestEffort, Deleted
<1>16. CASE (\E s \in DOMAIN subs : Watch(s)) \/ DropOld
  BY <1>16 DEF Watch, Overdue, DropOld, DeleteBestEffort, Deleted
<1>17. CASE RequestTimesOut \/ FailuresInARow \/ LinkNoticed
  BY <1>17 DEF RequestTimesOut, FailuresInARow, LinkNoticed, Abandon
<1>18. CASE PublishUndecodable
  BY <1>18 DEF PublishUndecodable, PollEverything, DeleteBestEffort, Deleted
<1>19. CASE \E s \in DOMAIN subs : Stall(s) \/ StatusChange(s)
  BY <1>19 DEF Stall, StatusChange, Stalls
<1>20. CASE Cut \/ (\E x \in live : Expire(x)) \/ (\E s \in DOMAIN ssubs : Drop(s)) \/ Renumber
  BY <1>20 DEF Cut, Expire, Drop, Renumber, EndSession, Deleted
<1>21. CASE UNCHANGED vars
  BY <1>21 DEF vars
<1> QED
  BY <1>1, <1>2, <1>3, <1>4, <1>5, <1>6, <1>7, <1>8, <1>9, <1>10, <1>11, <1>12, <1>13,
     <1>14, <1>15, <1>16, <1>17, <1>18, <1>19, <1>20, <1>21 DEF Next, RunLoop, Connecting,
     Transport, Jobs, Publisher, Environment

\* Every step keeps _ready false from CreateSession, or the decision to rebuild, until the
\* transport is set up or the recreated subscription is in place.
LEMMA ReadyStep == TypeOK /\ OneHandle /\ Readiness /\ [Next]_vars => Readiness'
<1> SUFFICES ASSUME TypeOK /\ OneHandle /\ Readiness, [Next]_vars PROVE Readiness'
  OBVIOUS
<1> USE SessionAssumption DEF TypeOK, ControlOK, FlagsOK, CarriedOK, PCs, OneHandle, Readiness,
      NoSession, NoSubs, Preparing, Subscribing, Publishing, Fault, Unanswered, Restrict, control,
      opening, filling, flags, session, carried, indexes, client, sessions, served, server,
      history
<1>1. CASE Detach \/ Open \/ Unreachable
  BY <1>1 DEF Detach, Open, Unreachable, EndSession, Deleted, Keep, DetachedAgain, Fails, Return
<1>2. CASE Resume \/ ActivateToClose \/ ActivateCut
  BY <1>2 DEF Resume, ActivateToClose, ActivateCut, Established, Fails, Return, PutBack
<1>3. CASE NotActivated \/ CloseOld
  BY <1>3 DEF NotActivated, CloseOld, Dropped, EndSession, Deleted
<1>4. CASE CreateSession \/ CreateSessionCut
  BY <1>4 DEF CreateSession, CreateSessionCut, Established, Fails, Return
<1>5. CASE Check \/ Discover
  BY <1>5 DEF Check, Discover, Decide, Rebind, Rebuild
<1>6. CASE Clear \/ Resolve \/ RequestCut
  BY <1>6 DEF Clear, Resolve, RequestCut, DeleteBestEffort, Deleted, Fails, Return
<1>7. CASE NextGroup
  BY <1>7 DEF NextGroup, Group
<1>8. CASE CreateSubscription \/ CreateCut
  BY <1>8 DEF CreateSubscription, CreateCut, NewSubscription, Extend, Fails, Return
<1>9. CASE CreateRefused
  BY <1>9 DEF CreateRefused, Subscribed, Recreated, Abandon, Return, Without
<1>10. CASE \E refused \in SUBSET batch : CreateItems(refused)
  BY <1>10 DEF CreateItems, Subscribed, Recreated, Abandon, Return, Without
<1>11. CASE DeleteEmpty
  BY <1>11 DEF DeleteEmpty, Subscribed, Recreated, Abandon, Return, Without, Deleted
<1>12. CASE TransportReady
  BY <1>12 DEF TransportReady, Return, PollEverything, DeleteBestEffort, Deleted
<1>13. CASE (\E s \in DOMAIN subs : Watch(s)) \/ DropOld
  BY <1>13 DEF Watch, Overdue, DropOld, DeleteBestEffort, Deleted
<1>14. CASE RequestTimesOut \/ FailuresInARow \/ LinkNoticed
  BY <1>14 DEF RequestTimesOut, FailuresInARow, LinkNoticed, Abandon
<1>15. CASE PublishUndecodable
  BY <1>15 DEF PublishUndecodable, PollEverything, DeleteBestEffort, Deleted
<1>16. CASE \E s \in DOMAIN subs : Stall(s) \/ StatusChange(s)
  BY <1>16 DEF Stall, StatusChange, Stalls
<1>17. CASE Cut
  BY <1>17 DEF Cut
<1>18. CASE (\E x \in live : Expire(x)) \/ \E s \in DOMAIN ssubs : Drop(s)
  <2>1. CASE \E x \in live : Expire(x)
    BY <2>1 DEF Expire, EndSession, Deleted
  <2>2. CASE \E s \in DOMAIN ssubs : Drop(s)
    BY <2>2 DEF Drop, Deleted
  <2> QED
    BY <1>18, <2>1, <2>2
<1>19. CASE Renumber
  BY <1>19 DEF Renumber
<1>20. CASE UNCHANGED vars
  BY <1>20 DEF vars
<1> QED
  BY <1>1, <1>2, <1>3, <1>4, <1>5, <1>6, <1>7, <1>8, <1>9, <1>10, <1>11, <1>12, <1>13,
     <1>14, <1>15, <1>16, <1>17, <1>18, <1>19, <1>20 DEF Next, RunLoop, Connecting, Transport,
     Jobs, Publisher, Environment

\* Every step of a set-up accounts for every target.
LEMMA SettingStep == TypeOK /\ Readiness /\ SettingUp /\ [Next]_vars => SettingUp'
<1> SUFFICES ASSUME TypeOK /\ Readiness /\ SettingUp, [Next]_vars PROVE SettingUp'
  OBVIOUS
<1> USE SessionAssumption DEF TypeOK, ControlOK, FlagsOK, CarriedOK, Tracked, PCs, Readiness,
      SettingUp, NoSession, NoSubs, Preparing, Subscribing, Publishing, Fault, Unanswered,
      Restrict, control, opening, filling, flags, session, carried, indexes, client, sessions,
      served, server, history
<1>1. CASE Detach \/ Open \/ Unreachable
  BY <1>1 DEF Detach, Open, Unreachable, EndSession, Deleted, Keep, DetachedAgain, Fails, Return
<1>2. CASE Resume \/ ActivateToClose \/ ActivateCut
  BY <1>2 DEF Resume, ActivateToClose, ActivateCut, Established, Fails, Return, PutBack
<1>3. CASE NotActivated \/ CloseOld
  BY <1>3 DEF NotActivated, CloseOld, Dropped, EndSession, Deleted
<1>4. CASE CreateSession \/ CreateSessionCut
  BY <1>4 DEF CreateSession, CreateSessionCut, Established, Fails, Return
<1>5. CASE Check \/ Discover
  BY <1>5 DEF Check, Discover, Decide, Rebind, Rebuild
<1>6. CASE Clear \/ Resolve \/ RequestCut
  BY <1>6 DEF Clear, Resolve, RequestCut, DeleteBestEffort, Deleted, Fails, Return
<1>7. CASE NextGroup
  BY <1>7 DEF NextGroup, Group
<1>8. CASE CreateSubscription \/ CreateCut
  BY <1>8 DEF CreateSubscription, CreateCut, NewSubscription, Extend, Fails, Return
<1>9. CASE CreateRefused
  BY <1>9 DEF CreateRefused, Subscribed, Recreated, Abandon, Return, Without
<1>10. CASE \E refused \in SUBSET batch : CreateItems(refused)
  BY <1>10 DEF CreateItems, Subscribed, Recreated, Abandon, Return, Without
<1>11. CASE DeleteEmpty
  BY <1>11 DEF DeleteEmpty, Subscribed, Recreated, Abandon, Return, Without, Deleted
<1>12. CASE TransportReady
  BY <1>12 DEF TransportReady, Return, PollEverything, DeleteBestEffort, Deleted
<1>13. CASE (\E s \in DOMAIN subs : Watch(s)) \/ DropOld
  BY <1>13 DEF Watch, Overdue, DropOld, DeleteBestEffort, Deleted
<1>14. CASE RequestTimesOut \/ FailuresInARow \/ LinkNoticed
  BY <1>14 DEF RequestTimesOut, FailuresInARow, LinkNoticed, Abandon
<1>15. CASE PublishUndecodable
  BY <1>15 DEF PublishUndecodable, PollEverything, DeleteBestEffort, Deleted
<1>16. CASE \E s \in DOMAIN subs : Stall(s) \/ StatusChange(s)
  <2>1. DOMAIN subs' = DOMAIN subs /\ \A s \in DOMAIN subs : subs'[s].items = subs[s].items
    BY <1>16, StallsIs
  <2>2. UNCHANGED <<pc, first, old, cur, batch, todo, polling, subscribing, monitored>>
    BY <1>16 DEF Stall, StatusChange, Stalls
  <2> QED
    BY <2>1, <2>2
<1>17. CASE Cut \/ (\E x \in live : Expire(x)) \/ (\E s \in DOMAIN ssubs : Drop(s)) \/ Renumber
  BY <1>17 DEF Cut, Expire, Drop, Renumber, EndSession, Deleted
<1>18. CASE UNCHANGED vars
  BY <1>18 DEF vars
<1> QED
  BY <1>1, <1>2, <1>3, <1>4, <1>5, <1>6, <1>7, <1>8, <1>9, <1>10, <1>11, <1>12, <1>13,
     <1>14, <1>15, <1>16, <1>17, <1>18 DEF Next, RunLoop, Connecting, Transport, Jobs, Publisher,
     Environment

\* Every step of a recreate leaves the other subscriptions covering what the batch does not,
\* or everything polled.
LEMMA RecreateStep == TypeOK /\ Readiness /\ Recreating /\ Covered /\ [Next]_vars => Recreating'
<1> SUFFICES ASSUME TypeOK /\ Readiness /\ Recreating /\ Covered, [Next]_vars PROVE Recreating'
  OBVIOUS
<1> USE SessionAssumption DEF TypeOK, ControlOK, FlagsOK, CarriedOK, Tracked, PCs, Readiness,
      Recreating, Covered, Sampled, NoSession, NoSubs, Preparing, Subscribing, Publishing, Fault,
      Unanswered, Restrict, control, opening, filling, flags, session, carried, indexes, client,
      sessions, served, server, history
<1>1. CASE Detach \/ Open \/ Unreachable
  BY <1>1 DEF Detach, Open, Unreachable, EndSession, Deleted, Keep, DetachedAgain, Fails, Return
<1>2. CASE Resume \/ ActivateToClose \/ ActivateCut
  BY <1>2 DEF Resume, ActivateToClose, ActivateCut, Established, Fails, Return, PutBack
<1>3. CASE NotActivated \/ CloseOld
  BY <1>3 DEF NotActivated, CloseOld, Dropped, EndSession, Deleted
<1>4. CASE CreateSession \/ CreateSessionCut
  BY <1>4 DEF CreateSession, CreateSessionCut, Established, Fails, Return
<1>5. CASE Check \/ Discover
  BY <1>5 DEF Check, Discover, Decide, Rebind, Rebuild
<1>6. CASE Clear \/ Resolve \/ RequestCut
  BY <1>6 DEF Clear, Resolve, RequestCut, DeleteBestEffort, Deleted, Fails, Return
<1>7. CASE NextGroup
  BY <1>7 DEF NextGroup, Group
<1>8. CASE CreateSubscription \/ CreateCut
  BY <1>8 DEF CreateSubscription, CreateCut, NewSubscription, Extend, Fails, Return
<1>9. CASE CreateRefused
  BY <1>9 DEF CreateRefused, Subscribed, Recreated, Abandon, Return, Without
<1>10. CASE \E refused \in SUBSET batch : CreateItems(refused)
  BY <1>10 DEF CreateItems, Subscribed, Recreated, Abandon, Return, Without
<1>11. CASE DeleteEmpty
  BY <1>11 DEF DeleteEmpty, Subscribed, Recreated, Abandon, Return, Without, Deleted
<1>12. CASE TransportReady
  BY <1>12 DEF TransportReady, Return, PollEverything, DeleteBestEffort, Deleted
<1>13. CASE (\E s \in DOMAIN subs : Watch(s)) \/ DropOld
  BY <1>13 DEF Watch, Overdue, DropOld, DeleteBestEffort, Deleted
<1>14. CASE RequestTimesOut \/ FailuresInARow \/ LinkNoticed
  BY <1>14 DEF RequestTimesOut, FailuresInARow, LinkNoticed, Abandon
<1>15. CASE PublishUndecodable
  BY <1>15 DEF PublishUndecodable, PollEverything, DeleteBestEffort, Deleted
<1>16. CASE \E s \in DOMAIN subs : Stall(s) \/ StatusChange(s)
  BY <1>16 DEF Stall, StatusChange, Stalls
<1>17. CASE Cut \/ (\E x \in live : Expire(x)) \/ (\E s \in DOMAIN ssubs : Drop(s)) \/ Renumber
  BY <1>17 DEF Cut, Expire, Drop, Renumber, EndSession, Deleted
<1>18. CASE UNCHANGED vars
  BY <1>18 DEF vars
<1> QED
  BY <1>1, <1>2, <1>3, <1>4, <1>5, <1>6, <1>7, <1>8, <1>9, <1>10, <1>11, <1>12, <1>13,
     <1>14, <1>15, <1>16, <1>17, <1>18 DEF Next, RunLoop, Connecting, Transport, Jobs, Publisher,
     Environment

\* Every step leaves every target covered while _ready or running jobs.
LEMMA CoveredStep == TypeOK /\ Readiness /\ SettingUp /\ Recreating /\ Covered /\ [Next]_vars => Covered'
<1> SUFFICES ASSUME TypeOK /\ Readiness /\ SettingUp /\ Recreating /\ Covered, [Next]_vars PROVE Covered'
  OBVIOUS
<1> USE SessionAssumption DEF TypeOK, ControlOK, FlagsOK, CarriedOK, Tracked, PCs, Readiness,
      SettingUp, Recreating, Covered, Sampled, NoSession, NoSubs, Preparing, Subscribing,
      Publishing, Fault, Unanswered, Restrict, control, opening, filling, flags, session, carried,
      indexes, client, sessions, served, server, history
<1>1. CASE Detach \/ Open \/ Unreachable
  BY <1>1 DEF Detach, Open, Unreachable, EndSession, Deleted, Keep, DetachedAgain, Fails, Return
<1>2. CASE Resume \/ ActivateToClose \/ ActivateCut
  BY <1>2 DEF Resume, ActivateToClose, ActivateCut, Established, Fails, Return, PutBack
<1>3. CASE NotActivated \/ CloseOld
  BY <1>3 DEF NotActivated, CloseOld, Dropped, EndSession, Deleted
<1>4. CASE CreateSession \/ CreateSessionCut
  BY <1>4 DEF CreateSession, CreateSessionCut, Established, Fails, Return
<1>5. CASE Check \/ Discover
  BY <1>5 DEF Check, Discover, Decide, Rebind, Rebuild
<1>6. CASE Clear \/ Resolve \/ RequestCut
  BY <1>6 DEF Clear, Resolve, RequestCut, DeleteBestEffort, Deleted, Fails, Return
<1>7. CASE NextGroup
  BY <1>7 DEF NextGroup, Group
<1>8. CASE CreateSubscription \/ CreateCut
  BY <1>8 DEF CreateSubscription, CreateCut, NewSubscription, Extend, Fails, Return
<1>9. CASE CreateRefused
  BY <1>9 DEF CreateRefused, Subscribed, Recreated, Abandon, Return, Without
<1>10. CASE \E refused \in SUBSET batch : CreateItems(refused)
  BY <1>10 DEF CreateItems, Subscribed, Recreated, Abandon, Return, Without
<1>11. CASE DeleteEmpty
  BY <1>11 DEF DeleteEmpty, Subscribed, Recreated, Abandon, Return, Without, Deleted
<1>12. CASE TransportReady
  BY <1>12 DEF TransportReady, Return, PollEverything, DeleteBestEffort, Deleted
<1>13. CASE (\E s \in DOMAIN subs : Watch(s)) \/ DropOld
  BY <1>13 DEF Watch, Overdue, DropOld, DeleteBestEffort, Deleted
<1>14. CASE RequestTimesOut \/ FailuresInARow \/ LinkNoticed
  BY <1>14 DEF RequestTimesOut, FailuresInARow, LinkNoticed, Abandon
<1>15. CASE PublishUndecodable
  BY <1>15 DEF PublishUndecodable, PollEverything, DeleteBestEffort, Deleted
<1>16. CASE \E s \in DOMAIN subs : Stall(s) \/ StatusChange(s)
  BY <1>16 DEF Stall, StatusChange, Stalls
<1>17. CASE Cut \/ (\E x \in live : Expire(x)) \/ (\E s \in DOMAIN ssubs : Drop(s)) \/ Renumber
  BY <1>17 DEF Cut, Expire, Drop, Renumber, EndSession, Deleted
<1>18. CASE UNCHANGED vars
  BY <1>18 DEF vars
<1> QED
  BY <1>1, <1>2, <1>3, <1>4, <1>5, <1>6, <1>7, <1>8, <1>9, <1>10, <1>11, <1>12, <1>13,
     <1>14, <1>15, <1>16, <1>17, <1>18 DEF Next, RunLoop, Connecting, Transport, Jobs, Publisher,
     Environment

\* No step takes a session given up: only _detach, a resume and CreateSession change `token'.
LEMMA AbandonedAct ==
    ASSUME ~TokenStays, TypeOK /\ OneHandle /\ AbandonedUnkept, [Next]_vars
    PROVE  token' # token => token' \notin abandoned
<1> USE SessionAssumption DEF TypeOK, ControlOK, SessionOK, PCs, OneHandle, AbandonedUnkept,
      NoSession, NoSubs, Preparing, Subscribing, Publishing, Fault, Unanswered, Restrict, control,
      opening, filling, flags, session, carried, indexes, client, sessions, served, server,
      history
<1>1. CASE Detach \/ Open \/ Unreachable
  BY <1>1 DEF Detach, Open, Unreachable, EndSession, Deleted, Keep, DetachedAgain, Fails, Return
<1>2. CASE Resume \/ ActivateToClose \/ ActivateCut
  BY <1>2 DEF Resume, ActivateToClose, ActivateCut, Established, Fails, Return, PutBack
<1>3. CASE NotActivated \/ CloseOld
  BY <1>3 DEF NotActivated, CloseOld, Dropped, EndSession, Deleted
<1>4. CASE CreateSession \/ CreateSessionCut
  BY <1>4 DEF CreateSession, CreateSessionCut, Established, Fails, Return
<1>5. CASE Check \/ Discover
  BY <1>5 DEF Check, Discover, Decide, Rebind, Rebuild
<1>6. CASE Clear \/ Resolve \/ RequestCut
  BY <1>6 DEF Clear, Resolve, RequestCut, DeleteBestEffort, Deleted, Fails, Return
<1>7. CASE NextGroup
  BY <1>7 DEF NextGroup, Group
<1>8. CASE CreateSubscription \/ CreateCut
  BY <1>8 DEF CreateSubscription, CreateCut, NewSubscription, Extend, Fails, Return
<1>9. CASE CreateRefused
  BY <1>9 DEF CreateRefused, Subscribed, Recreated, Abandon, Return, Without
<1>10. CASE \E refused \in SUBSET batch : CreateItems(refused)
  BY <1>10 DEF CreateItems, Subscribed, Recreated, Abandon, Return, Without
<1>11. CASE DeleteEmpty
  BY <1>11 DEF DeleteEmpty, Subscribed, Recreated, Abandon, Return, Without, Deleted
<1>12. CASE TransportReady
  BY <1>12 DEF TransportReady, Return, PollEverything, DeleteBestEffort, Deleted
<1>13. CASE (\E s \in DOMAIN subs : Watch(s)) \/ DropOld
  BY <1>13 DEF Watch, Overdue, DropOld, DeleteBestEffort, Deleted
<1>14. CASE RequestTimesOut \/ FailuresInARow \/ LinkNoticed
  BY <1>14 DEF RequestTimesOut, FailuresInARow, LinkNoticed, Abandon
<1>15. CASE PublishUndecodable
  BY <1>15 DEF PublishUndecodable, PollEverything, DeleteBestEffort, Deleted
<1>16. CASE \E s \in DOMAIN subs : Stall(s) \/ StatusChange(s)
  BY <1>16 DEF Stall, StatusChange, Stalls
<1>17. CASE Cut \/ (\E x \in live : Expire(x)) \/ (\E s \in DOMAIN ssubs : Drop(s)) \/ Renumber
  BY <1>17 DEF Cut, Expire, Drop, Renumber, EndSession, Deleted
<1>18. CASE UNCHANGED vars
  BY <1>18 DEF vars
<1> QED
  BY <1>1, <1>2, <1>3, <1>4, <1>5, <1>6, <1>7, <1>8, <1>9, <1>10, <1>11, <1>12, <1>13,
     <1>14, <1>15, <1>16, <1>17, <1>18 DEF Next, RunLoop, Connecting, Transport, Jobs, Publisher,
     Environment

\* The client starts disconnected, with nothing to cover and nothing to account for.
LEMMA InitInv == Init => Inv
<1> SUFFICES ASSUME Init PROVE Inv
  OBVIOUS
<1> USE SessionAssumption DEF Init, NoSession, NoSubs, Subscribing, Preparing
<1>1. TypeOK
  <2>1. FlagsOK
    BY DEF FlagsOK
  <2>2. ControlOK
    BY DEF ControlOK, PCs
  <2>3. SessionOK
    BY DEF SessionOK
  <2>4. CarriedOK
    BY DEF CarriedOK
  <2> QED
    BY <2>1, <2>2, <2>3, <2>4 DEF TypeOK
<1>2. OneHandle /\ AbandonedUnkept
  BY DEF OneHandle, AbandonedUnkept
<1>3. SettingUp /\ Recreating /\ Readiness
  BY DEF SettingUp, Recreating, Readiness
<1>4. Covered /\ SlotsAccounted
  BY DEF Covered, SlotsAccounted
<1> QED
  BY <1>1, <1>2, <1>3, <1>4 DEF Inv

\* Every step keeps the invariant.
LEMMA NextInv == Inv /\ [Next]_vars => Inv'
<1> SUFFICES ASSUME Inv, [Next]_vars PROVE Inv'
  OBVIOUS
<1>1. TypeOK'
  <2>1. FlagsOK' /\ ControlOK'
    BY FlagsTyped, ControlTyped DEF Inv
  <2>2. SessionOK' /\ CarriedOK'
    BY SessionTyped, CarriedTyped DEF Inv
  <2> QED
    BY <2>1, <2>2 DEF TypeOK
<1>2. OneHandle' /\ AbandonedUnkept'
  BY HandleStep, AbandonedStep DEF Inv
<1>3. SlotsAccounted'
  BY SlotsStep DEF Inv
<1>4. Readiness' /\ SettingUp'
  BY ReadyStep, SettingStep DEF Inv
<1>5. Recreating' /\ Covered'
  BY RecreateStep, CoveredStep DEF Inv
<1> QED
  BY <1>1, <1>2, <1>3, <1>4, <1>5 DEF Inv

\* Inv holds in every state the client and the server reach.
THEOREM Invariant == Spec => []Inv
  BY InitInv, NextInv, PTL DEF Spec

\* Type correctness: no variable leaves its type, and a call that has returned left no
\* locals of _start_transport, _subscribe or _recreate behind.
THEOREM TypeCorrect == Spec => []TypeOK
<1>1. Inv => TypeOK
  BY DEF Inv
<1> QED
  BY <1>1, Invariant, PTL

\* No target is silently dropped: while _ready, and whenever jobs run, every mapped target
\* is polled or monitored by a subscription _watch looks at.
THEOREM NoTargetDropped == Spec => []Covered
<1>1. Inv => Covered
  BY DEF Inv
<1> QED
  BY <1>1, Invariant, PTL

\* No session is forgotten: what the server holds, the client can still resume or close,
\* unless the reply that named it, or the request that closed it, was cut or refused.
THEOREM NoSessionForgotten == Spec => []SlotsAccounted
<1>1. Inv => SlotsAccounted
  BY DEF Inv
<1> QED
  BY <1>1, Invariant, PTL

\* A session given up for a fresh one is never the client's session again, if a client object
\* forgets the session it was detached from; else a second _detach would keep it.
THEOREM NeverTakenBack == ASSUME ~TokenStays PROVE Spec => AbandonedForGood
<1>1. Inv /\ [Next]_vars => [token' # token => token' \notin abandoned]_vars
  BY AbandonedAct DEF Inv
<1> QED
  BY <1>1, Invariant, PTL DEF Spec, AbandonedForGood

-----------------------------------------------------------------------------
(* What the client believes of the server's subscriptions *)

\* Sessions are numbered from one, and the server's subscriptions are of sessions it created.
Numbered ==
    /\ \A x \in live : x # 0 /\ x <= nsess
    /\ \A s \in DOMAIN ssubs : ssubs[s].session # 0 /\ ssubs[s].session <= nsess

\* A connection that was not resumed has no subscriptions before its set-up.  What jobs watch
\* is ready, what is ready is watched, and the one being replaced is tracked until everything
\* is polled.
Watching ==
    /\ pc \in {"checking", "discovering"} /\ ~resumed => subs = NoSubs
    /\ pc = "idle" /\ connected /\ watched => ready
    /\ old # 0 => (watched <=> old \in DOMAIN subs)
    /\ ready /\ subs # NoSubs => watched

\* The server's subscriptions in the client's session are tracked, or asked to be deleted;
\* all of them the latter once a rebuild has cleared them, and one being replaced.
Remembered ==
    \A s \in DOMAIN ssubs :
        /\ ssubs[s].session = Home =>
              /\ s \in DOMAIN subs \cup shed
              /\ pc = "resolving" => s \in shed
        /\ pc \in {"create", "items", "empty"} /\ old # 0 /\ s = old => s \in shed

\* `subs' is of the session at hand: a set-up or a recreate fills it, or has filled it.
Held == ready \/ pc \in Subscribing \cup {"dropOld"}

\* No target is in two of them, but for the one being replaced.
Apart ==
    Held =>
        /\ \A s1, s2 \in DOMAIN subs \ {old} : s1 # s2 => subs[s1].items \cap subs[s2].items = {}
        /\ \A s \in DOMAIN subs \ {old, cur} : subs[s].items \cap batch = {}
        /\ pc \in {"items", "empty"} /\ cur \in DOMAIN subs => subs[cur].items = batch

\* BeliefTrue, at every await of a set-up and a recreate: not yet of the one whose items are
\* being requested, no more of the one being replaced.
Vouched(s) ==
    \/ s \in ended /\ s \notin DOMAIN ssubs
    \/ /\ s \in DOMAIN ssubs /\ ssubs[s].session = Home
       /\ (s = cur /\ pc = "items") \/ subs[s].items \cap monitored \subseteq ssubs[s].items
Believed == Held /\ Home \in live => \A s \in DOMAIN subs \ {old} : Vouched(s)

ServedInv == Inv /\ Numbered /\ Watching /\ Remembered /\ Apart /\ Believed

\* The server's subscriptions are some of those it held.
Shrinks == DOMAIN ssubs' \subseteq DOMAIN ssubs /\ \A s \in DOMAIN ssubs' : ssubs'[s] = ssubs[s]

-----------------------------------------------------------------------------
(* What a deletion leaves *)

LEMMA DeletedIs ==
    \A gone : ssubs' = Deleted(gone) => Shrinks /\ DOMAIN ssubs' = DOMAIN ssubs \ gone
  BY DEF Deleted, Restrict, Shrinks

LEMMA EndSessionIs ==
    \A x : EndSession(x) => /\ Shrinks /\ live' = live \ {x}
                            /\ \A s \in DOMAIN ssubs : ssubs[s].session # x => s \in DOMAIN ssubs'
<1> SUFFICES ASSUME NEW x, EndSession(x)
             PROVE  /\ Shrinks /\ live' = live \ {x}
                    /\ \A s \in DOMAIN ssubs : ssubs[s].session # x => s \in DOMAIN ssubs'
  OBVIOUS
<1> DEFINE gone == {s \in DOMAIN ssubs : ssubs[s].session = x}
<1>1. live' = live \ {x} /\ ssubs' = Deleted(gone)
  BY DEF EndSession
<1>2. \A s \in DOMAIN ssubs : s \in gone <=> ssubs[s].session = x
  OBVIOUS
<1> HIDE DEF gone
<1>3. Shrinks /\ DOMAIN ssubs' = DOMAIN ssubs \ gone
  BY <1>1, DeletedIs
<1> QED
  BY <1>1, <1>2, <1>3

LEMMA BestEffortIs ==
    \A ids : DeleteBestEffort(ids) =>
        /\ Shrinks /\ shed \subseteq shed' /\ ids \cap DOMAIN ssubs' \subseteq shed'
        /\ DOMAIN ssubs \ ids \subseteq DOMAIN ssubs'
<1> SUFFICES ASSUME NEW ids, DeleteBestEffort(ids)
             PROVE  /\ Shrinks /\ shed \subseteq shed' /\ ids \cap DOMAIN ssubs' \subseteq shed'
                    /\ DOMAIN ssubs \ ids \subseteq DOMAIN ssubs'
  OBVIOUS
<1> DEFINE gone == {s \in ids \cap DOMAIN ssubs : ssubs[s].session = token}
<1>1. ssubs' = Deleted(gone) \/ ssubs' = ssubs
  BY DEF DeleteBestEffort
<1>2. gone \subseteq ids
  OBVIOUS
<1> HIDE DEF gone
<1>3. Shrinks /\ DOMAIN ssubs \ ids \subseteq DOMAIN ssubs'
  <2>1. CASE ssubs' = Deleted(gone)
    BY <1>2, <2>1, DeletedIs
  <2>2. CASE ssubs' = ssubs
    BY <2>2 DEF Shrinks
  <2> QED
    BY <1>1, <2>1, <2>2
<1> QED
  BY <1>3 DEF DeleteBestEffort

LEMMA PollEverythingIs ==
    PollEverything =>
        /\ Shrinks /\ shed \subseteq shed' /\ DOMAIN subs \cap DOMAIN ssubs' \subseteq shed'
        /\ subs' = NoSubs /\ monitored' = {} /\ watched' = FALSE
  BY BestEffortIs DEF PollEverything

\* A step that changes nothing of a tracked subscription but drop items of it.
Same(s) ==
    /\ s \in DOMAIN subs \ {old} /\ ~(s = cur /\ pc = "items")
    /\ subs'[s].items \cap monitored' \subseteq subs[s].items \cap monitored
    /\ s \in DOMAIN ssubs <=> s \in DOMAIN ssubs'
    /\ s \in DOMAIN ssubs => ssubs'[s] = ssubs[s]

LEMMA BeliefKept ==
    ASSUME Believed, Held' => Held, Home' = Home, live' = live, ended' = ended,
           \A s \in DOMAIN subs' \ {old'} : Same(s) \/ Vouched(s)'
    PROVE  Believed'
<1> SUFFICES ASSUME Held', Home' \in live', NEW s \in DOMAIN subs' \ {old'}, Same(s)
             PROVE  Vouched(s)'
  BY DEF Believed
<1>1. Vouched(s)
  BY DEF Believed, Same
<1> QED
  BY <1>1 DEF Vouched, Same

LEMMA NumberedShrinks ==
    Numbered /\ Shrinks /\ live' \subseteq live /\ nsess' = nsess => Numbered'
  BY DEF Numbered, Shrinks

-----------------------------------------------------------------------------
(* The steps *)

\* Every step numbers sessions from one.
LEMMA NumberedStep == TypeOK /\ OneHandle /\ Numbered /\ [Next]_vars => Numbered'
<1> SUFFICES ASSUME TypeOK /\ OneHandle /\ Numbered, [Next]_vars PROVE Numbered'
  OBVIOUS
<1> USE SessionAssumption DEF TypeOK, ControlOK, FlagsOK, SessionOK, CarriedOK, Tracked, Served,
      PCs, OneHandle, Numbered, NoSession, NoSubs, Preparing, Subscribing, Publishing, Fault,
      Unanswered, Restrict, control, opening, filling, flags, session, carried, indexes, client,
      sessions, served, server, history
<1>1. CASE Detach \/ Open \/ Unreachable
  <2>1. Shrinks /\ live' \subseteq live /\ nsess' = nsess
    <3>1. CASE Detach
      BY <3>1, EndSessionIs DEF Detach, Shrinks
    <3>2. CASE Open \/ Unreachable
      BY <3>2 DEF Open, Unreachable, Shrinks
    <3> QED
      BY <1>1, <3>1, <3>2
  <2> QED
    BY <2>1, NumberedShrinks
<1>2. CASE Resume \/ ActivateToClose \/ ActivateCut
  BY <1>2 DEF Resume, ActivateToClose, ActivateCut, Established, Fails, Return, PutBack
<1>3. CASE NotActivated \/ CloseOld
  BY <1>3 DEF NotActivated, CloseOld, Dropped, EndSession, Deleted
<1>4. CASE CreateSession \/ CreateSessionCut
  <2>1. /\ \/ nsess' = nsess /\ live' = live
           \/ nsess' = nsess + 1 /\ live' = live \cup {nsess + 1}
        /\ ssubs' = ssubs
    <3>1. CASE CreateSession
      BY <3>1 DEF CreateSession
    <3>2. CASE CreateSessionCut
      <4>1. \/ nsess' = nsess /\ live' = live
            \/ nsess' = nsess + 1 /\ live' = live \cup {nsess + 1}
        BY <3>2, Zenon DEF CreateSessionCut, sessions
      <4>2. ssubs' = ssubs
        BY <3>2 DEF CreateSessionCut
      <4> QED
        BY <4>1, <4>2, Zenon
    <3> QED
      BY <1>4, <3>1, <3>2
  <2>2. CASE nsess' = nsess /\ live' = live
    BY <2>1, <2>2
  <2>3. CASE nsess' = nsess + 1 /\ live' = live \cup {nsess + 1}
    BY <2>1, <2>3
  <2> QED
    BY <2>1, <2>2, <2>3
<1>5. CASE Check \/ Discover
  BY <1>5, SMTT(20) DEF Check, Discover, Decide, Rebind, Rebuild
<1>6. CASE Clear \/ Resolve \/ RequestCut
  <2>1. Shrinks /\ live' \subseteq live /\ nsess' = nsess
    BY <1>6, PollEverythingIs, EndSessionIs, BestEffortIs
       DEF Clear, Resolve, RequestCut, server, sessions, served, Shrinks
  <2> QED
    BY <2>1, NumberedShrinks
<1>7. CASE NextGroup
  BY <1>7 DEF NextGroup, Group
<1>8. CASE CreateSubscription \/ CreateCut
  <2>1. nsess' = nsess /\ live' = live
    BY <1>8 DEF CreateSubscription, CreateCut, sessions
  <2>2. ssubs' = ssubs \/ ssubs' = Extend(ssubs, nsub + 1, [session |-> token, items |-> {}])
    BY <1>8 DEF CreateSubscription, CreateCut, NewSubscription, served
  <2>3. token # 0 /\ token <= nsess
    BY <1>8 DEF CreateSubscription, CreateCut
  <2> QED
    BY <2>1, <2>2, <2>3 DEF Extend
<1>9. CASE CreateRefused
  BY <1>9 DEF CreateRefused, Subscribed, Recreated, Abandon, Return, Without
<1>10. CASE \E refused \in SUBSET batch : CreateItems(refused)
  <2>1. nsess' = nsess /\ live' = live /\ DOMAIN ssubs' = DOMAIN ssubs
    BY <1>10 DEF CreateItems, sessions
  <2>2. \A s \in DOMAIN ssubs : ssubs'[s].session = ssubs[s].session
    BY <1>10 DEF CreateItems
  <2> QED
    BY <2>1, <2>2
<1>11. CASE DeleteEmpty
  <2>1. ssubs' = Deleted({cur}) \/ ssubs' = ssubs
    BY <1>11 DEF DeleteEmpty
  <2>2. Shrinks
    <3>1. ssubs' = ssubs => Shrinks
      BY DEF Shrinks
    <3> QED
      BY <2>1, <3>1, DeletedIs, Zenon
  <2>3. live' = live /\ nsess' = nsess
    BY <1>11 DEF DeleteEmpty
  <2> QED
    BY <2>2, <2>3, NumberedShrinks
<1>12. CASE TransportReady
  <2>1. Shrinks /\ live' \subseteq live /\ nsess' = nsess
    BY <1>12, PollEverythingIs, EndSessionIs, BestEffortIs DEF TransportReady, sessions, Shrinks
  <2> QED
    BY <2>1, NumberedShrinks
<1>13. CASE (\E s \in DOMAIN subs : Watch(s)) \/ DropOld
  <2>1. Shrinks /\ live' \subseteq live /\ nsess' = nsess
    BY <1>13, PollEverythingIs, EndSessionIs, BestEffortIs
       DEF Watch, Overdue, DropOld, server, sessions, served, Shrinks
  <2> QED
    BY <2>1, NumberedShrinks
<1>14. CASE RequestTimesOut \/ FailuresInARow \/ LinkNoticed
  BY <1>14 DEF RequestTimesOut, FailuresInARow, LinkNoticed, Abandon
<1>15. CASE PublishUndecodable
  <2>1. Shrinks /\ live' \subseteq live /\ nsess' = nsess
    BY <1>15, PollEverythingIs, EndSessionIs, BestEffortIs DEF PublishUndecodable, sessions, Shrinks
  <2> QED
    BY <2>1, NumberedShrinks
<1>16. CASE \E s \in DOMAIN subs : Stall(s) \/ StatusChange(s)
  <2>1. Shrinks /\ live' \subseteq live /\ nsess' = nsess
    BY <1>16 DEF Stall, StatusChange, Stalls, Shrinks
  <2> QED
    BY <2>1, NumberedShrinks
<1>17. CASE Cut \/ (\E x \in live : Expire(x)) \/ (\E s \in DOMAIN ssubs : Drop(s)) \/ Renumber
  <2>1. Shrinks /\ live' \subseteq live /\ nsess' = nsess
    <3>1. CASE \E x \in live : Expire(x)
      BY <3>1, EndSessionIs DEF Expire
    <3>2. CASE \E s \in DOMAIN ssubs : Drop(s)
      BY <3>2, DeletedIs DEF Drop
    <3>3. CASE Cut \/ Renumber
      BY <3>3 DEF Cut, Renumber, Shrinks
    <3> QED
      BY <1>17, <3>1, <3>2, <3>3
  <2> QED
    BY <2>1, NumberedShrinks
<1>18. CASE UNCHANGED vars
  BY <1>18 DEF vars
<1> QED
  BY <1>1, <1>2, <1>3, <1>4, <1>5, <1>6, <1>7, <1>8, <1>9, <1>10, <1>11, <1>12, <1>13, <1>14, <1>15,
     <1>16, <1>17, <1>18 DEF Next, RunLoop, Connecting, Transport, Jobs, Publisher, Environment

\* Every step leaves _watch to a session that is ready.
LEMMA WatchingStep == TypeOK /\ OneHandle /\ Readiness /\ Watching /\ [Next]_vars => Watching'
<1> SUFFICES ASSUME TypeOK /\ OneHandle /\ Readiness /\ Watching, [Next]_vars PROVE Watching'
  OBVIOUS
<1> USE SessionAssumption DEF TypeOK, ControlOK, FlagsOK, PCs, OneHandle, Readiness, Watching, NoSession, NoSubs, Preparing, Subscribing, Publishing,
      Fault, Unanswered, Restrict, control, opening, filling, flags, session, carried, indexes,
      client, sessions, served, server, history
<1>1. CASE Detach \/ Open \/ Unreachable
  BY <1>1 DEF Detach, Open, Unreachable, EndSession, Deleted, Keep, DetachedAgain, Fails, Return
<1>2. CASE Resume \/ ActivateToClose \/ ActivateCut
  <2>1. CASE Resume
    BY <2>1 DEF Resume, Established
  <2>2. CASE ActivateToClose
    BY <2>2 DEF ActivateToClose
  <2>3. CASE ActivateCut
    BY <2>3 DEF ActivateCut, Fails, Return, PutBack
  <2> QED
    BY <1>2, <2>1, <2>2, <2>3
<1>3. CASE NotActivated \/ CloseOld
  BY <1>3 DEF NotActivated, CloseOld, Dropped, EndSession, Deleted
<1>4. CASE CreateSession \/ CreateSessionCut
  BY <1>4 DEF CreateSession, CreateSessionCut, Established, Fails, Return
<1>5. CASE Check \/ Discover
  BY <1>5 DEF Check, Discover, Decide, Rebind, Rebuild
<1>6. CASE Clear \/ Resolve \/ RequestCut
  <2>1. CASE Clear
    BY <2>1 DEF Clear
  <2>2. CASE Resolve
    BY <2>2 DEF Resolve
  <2>3. CASE RequestCut
    BY <2>3 DEF RequestCut, Fails, Return
  <2> QED
    BY <1>6, <2>1, <2>2, <2>3
<1>7. CASE NextGroup
  BY <1>7 DEF NextGroup, Group
<1>8. CASE CreateSubscription \/ CreateCut
  BY <1>8 DEF CreateSubscription, CreateCut, NewSubscription, Extend, Fails, Return, CarriedOK
<1>9. CASE CreateRefused
  BY <1>9 DEF CreateRefused, Subscribed, Recreated, Abandon, Return, Without
<1>10. CASE \E refused \in SUBSET batch : CreateItems(refused)
  BY <1>10 DEF CreateItems, Subscribed, Recreated, Abandon, Return, Without
<1>11. CASE DeleteEmpty
  BY <1>11 DEF DeleteEmpty, Subscribed, Recreated, Abandon, Return, Without, Deleted
<1>12. CASE TransportReady
  BY <1>12 DEF TransportReady, Return, PollEverything, DeleteBestEffort, Deleted
<1>13. CASE (\E s \in DOMAIN subs : Watch(s)) \/ DropOld
  <2>1. CASE \E s \in DOMAIN subs : Watch(s)
    BY <2>1 DEF Watch
  <2>2. CASE DropOld
    BY <2>2 DEF DropOld
  <2> QED
    BY <1>13, <2>1, <2>2
<1>14. CASE RequestTimesOut \/ FailuresInARow \/ LinkNoticed
  BY <1>14 DEF RequestTimesOut, FailuresInARow, LinkNoticed, Abandon
<1>15. CASE PublishUndecodable
  <2>1. /\ UNCHANGED <<pc, connected, ready, resumed, old>>
        /\ UNCHANGED <<subs, watched>> \/ (subs' = NoSubs /\ watched' = FALSE)
    BY <1>15, PollEverythingIs DEF PublishUndecodable
  <2> QED
    BY <2>1
<1>16. CASE \E s \in DOMAIN subs : Stall(s) \/ StatusChange(s)
  <2>1. DOMAIN subs' = DOMAIN subs
    BY <1>16, StallsIs
  <2>2. UNCHANGED <<pc, connected, watched, ready, resumed, old>>
    BY <1>16 DEF Stall, StatusChange, Stalls
  <2>3. subs = NoSubs => subs' = NoSubs
    BY <2>1, <1>16
  <2>4. subs # NoSubs
    BY <1>16
  <2> QED
    BY <2>1, <2>2, <2>4
<1>17. CASE Cut \/ (\E x \in live : Expire(x)) \/ (\E s \in DOMAIN ssubs : Drop(s)) \/ Renumber
  <2>1. UNCHANGED <<pc, connected, watched, ready, resumed, subs, old>>
    BY <1>17 DEF Cut, Expire, Drop, Renumber
  <2> QED
    BY <2>1
<1>18. CASE UNCHANGED vars
  BY <1>18 DEF vars
<1> QED
  BY <1>1, <1>2, <1>3, <1>4, <1>5, <1>6, <1>7, <1>8, <1>9, <1>10, <1>11, <1>12, <1>13, <1>14, <1>15,
     <1>16, <1>17, <1>18 DEF Next, RunLoop, Connecting, Transport, Jobs, Publisher, Environment

\* Every step tracks what the server serves, or has asked to delete it.
LEMMA RememberedStep ==
    TypeOK /\ OneHandle /\ Readiness /\ Numbered /\ Watching /\ Remembered /\ [Next]_vars => Remembered'
<1> SUFFICES ASSUME TypeOK /\ OneHandle /\ Readiness /\ Numbered /\ Watching /\ Remembered, [Next]_vars
             PROVE  Remembered'
  OBVIOUS
<1> USE SessionAssumption DEF TypeOK, ControlOK, FlagsOK, SessionOK, CarriedOK, Tracked, Served,
      PCs, OneHandle, Readiness, Numbered, Watching, Remembered, Home, NoSession, NoSubs, Preparing,
      Subscribing, Publishing, Fault, Unanswered, Restrict, control, opening, filling, flags,
      session, carried, indexes, client, sessions, served, server, history
<1>1. CASE Detach \/ Open \/ Unreachable
  <2>1. /\ Shrinks /\ UNCHANGED <<old, subs, shed>> /\ pc' \notin {"resolving", "create", "items", "empty"}
        /\ Home' \in {Home, 0}
    <3>1. CASE Detach
      <4>1. Shrinks
        BY <3>1, EndSessionIs DEF Detach, Shrinks
      <4>2. Home' \in {Home, 0}
        <5>1. taken = NoSession /\ taken' = taken /\ token' = 0
          BY <3>1 DEF Detach
        <5>2. CASE token = 0
          <6>1. detached'.token = detached.token
            BY <3>1, <5>2 DEF Detach, DetachedAgain
          <6> QED
            BY <5>1, <5>2, <6>1
        <5>3. CASE token # 0
          <6>1. detached' = detached \/ detached'.token = token
            BY <3>1, <5>3 DEF Detach
          <6> QED
            BY <5>1, <5>3, <6>1
        <5> QED
          BY <5>2, <5>3
      <4>3. UNCHANGED <<old, subs, shed>> /\ pc' = "opening"
        BY <3>1 DEF Detach
      <4> QED
        BY <4>1, <4>2, <4>3
    <3>2. CASE Open \/ Unreachable
      <4>1. UNCHANGED <<ssubs, subs, shed>> /\ pc' \notin {"resolving", "create", "items", "empty"}
        BY <3>2 DEF Open, Unreachable, Fails
      <4>2. Home' = Home
        BY <3>2 DEF Open, Unreachable
      <4>3. old' = 0 /\ old = 0
        BY <3>2 DEF Open, Unreachable, Fails, Return
      <4> QED
        BY <4>1, <4>2, <4>3 DEF Shrinks
    <3> QED
      BY <1>1, <3>1, <3>2
  <2> QED
    BY <2>1 DEF Shrinks
<1>2. CASE Resume \/ ActivateToClose \/ ActivateCut
  <2>1. CASE Resume
    BY <2>1 DEF Resume, Established
  <2>2. CASE ActivateToClose
    BY <2>2 DEF ActivateToClose
  <2>3. CASE ActivateCut
    BY <2>3 DEF ActivateCut, Fails, Return, PutBack
  <2> QED
    BY <1>2, <2>1, <2>2, <2>3
<1>3. CASE NotActivated \/ CloseOld
  BY <1>3 DEF NotActivated, CloseOld, Dropped, EndSession, Deleted
<1>4. CASE CreateSession \/ CreateSessionCut
  BY <1>4, SMTT(20) DEF CreateSession, CreateSessionCut, Established, Fails, Return
<1>5. CASE Check \/ Discover
  BY <1>5 DEF Check, Discover, Decide, Rebind, Rebuild
<1>6. CASE Clear \/ Resolve \/ RequestCut
  BY <1>6, SMTT(20) DEF Clear, Resolve, RequestCut, DeleteBestEffort, Deleted, Fails, Return
<1>7. CASE NextGroup
  BY <1>7 DEF NextGroup, Group
<1>8. CASE CreateSubscription \/ CreateCut
  BY <1>8, SMTT(20) DEF CreateSubscription, CreateCut, NewSubscription, Extend, Fails, Return
<1>9. CASE CreateRefused
  BY <1>9 DEF CreateRefused, Subscribed, Recreated, Abandon, Return, Without
<1>10. CASE \E refused \in SUBSET batch : CreateItems(refused)
  <2>1. PICK refused \in SUBSET batch : CreateItems(refused)
    BY <1>10
  <2>2. /\ DOMAIN ssubs' = DOMAIN ssubs /\ \A s \in DOMAIN ssubs : ssubs'[s].session = ssubs[s].session
        /\ UNCHANGED <<token, taken, detached, shed>>
    BY <2>1 DEF CreateItems
  <2>3. Home' = Home
    BY <2>2
  <2>4. /\ pc' \in {"empty", "subscribe", "idle"}
        /\ old' \in {0, old}
        /\ DOMAIN subs \ {old} \subseteq DOMAIN subs'
    BY <2>1 DEF CreateItems, Subscribed, Recreated, Return, Without
  <2>5. pc = "items"
    BY <2>1 DEF CreateItems
  <2> QED
    BY <2>2, <2>3, <2>4, <2>5
<1>11. CASE DeleteEmpty
  <2>1. /\ UNCHANGED <<token, taken, detached, shed>> /\ pc = "empty"
        /\ pc' \in {"subscribe", "idle"} /\ old' = 0
    BY <1>11 DEF DeleteEmpty, Subscribed, Recreated, Return
  <2>2. Home' = Home
    BY <2>1
  <2>3. /\ Shrinks /\ DOMAIN subs \ {old, cur} \subseteq DOMAIN subs'
        /\ cur \in DOMAIN ssubs' /\ cur \in DOMAIN subs \ {old} => cur \in DOMAIN subs'
    <3>1. CASE ssubs' = Deleted({cur})
      <4>1. Shrinks /\ DOMAIN ssubs' = DOMAIN ssubs \ {cur}
        BY <3>1, DeletedIs, Zenon
      <4>2. DOMAIN subs \ {old, cur} \subseteq DOMAIN subs'
        BY <1>11 DEF DeleteEmpty, Subscribed, Recreated, Without
      <4> QED
        BY <4>1, <4>2
    <3>2. CASE ssubs' = ssubs /\ (Subscribed(subs, batch) \/ Recreated(subs, batch))
      <4>1. DOMAIN subs \ {old} \subseteq DOMAIN subs'
        BY <3>2 DEF Subscribed, Recreated, Without
      <4> QED
        BY <3>2, <4>1 DEF Shrinks
    <3> QED
      BY <1>11, <3>1, <3>2 DEF DeleteEmpty
  <2> QED
    BY <2>1, <2>2, <2>3 DEF Shrinks
<1>12. CASE TransportReady
  BY <1>12 DEF TransportReady, Return, PollEverything, DeleteBestEffort, Deleted
<1>13. CASE (\E s \in DOMAIN subs : Watch(s)) \/ DropOld
  BY <1>13, SMTT(20) DEF Watch, Overdue, DropOld, DeleteBestEffort, Deleted
<1>14. CASE RequestTimesOut \/ FailuresInARow \/ LinkNoticed
  BY <1>14 DEF RequestTimesOut, FailuresInARow, LinkNoticed, Abandon
<1>15. CASE PublishUndecodable
  <2>1. /\ Shrinks /\ shed \subseteq shed' /\ UNCHANGED <<pc, old, token, taken, detached>>
        /\ subs' = subs \/ DOMAIN subs \cap DOMAIN ssubs' \subseteq shed'
    BY <1>15, PollEverythingIs DEF PublishUndecodable, Shrinks
  <2>2. Home' = Home
    BY <2>1
  <2> QED
    BY <2>1, <2>2 DEF Shrinks
<1>16. CASE \E s \in DOMAIN subs : Stall(s) \/ StatusChange(s)
  BY <1>16 DEF Stall, StatusChange, Stalls
<1>17. CASE Cut \/ (\E x \in live : Expire(x)) \/ (\E s \in DOMAIN ssubs : Drop(s)) \/ Renumber
  <2>1. Shrinks /\ UNCHANGED <<pc, old, subs, shed, token, taken, detached>>
    <3>1. CASE \E x \in live : Expire(x)
      BY <3>1, EndSessionIs DEF Expire
    <3>2. CASE \E s \in DOMAIN ssubs : Drop(s)
      BY <3>2, DeletedIs DEF Drop
    <3>3. CASE Cut \/ Renumber
      BY <3>3 DEF Cut, Renumber, Shrinks
    <3> QED
      BY <1>17, <3>1, <3>2, <3>3
  <2> QED
    BY <2>1 DEF Shrinks
<1>18. CASE UNCHANGED vars
  BY <1>18 DEF vars
<1> QED
  BY <1>1, <1>2, <1>3, <1>4, <1>5, <1>6, <1>7, <1>8, <1>9, <1>10, <1>11, <1>12, <1>13, <1>14, <1>15,
     <1>16, <1>17, <1>18 DEF Next, RunLoop, Connecting, Transport, Jobs, Publisher, Environment

\* Every step keeps the tracked subscriptions apart.
LEMMA ApartStep ==
    TypeOK /\ OneHandle /\ Readiness /\ SettingUp /\ Watching /\ Apart /\ [Next]_vars => Apart'
<1> SUFFICES ASSUME TypeOK /\ OneHandle /\ Readiness /\ SettingUp /\ Watching /\ Apart, [Next]_vars
             PROVE  Apart'
  OBVIOUS
<1> USE SessionAssumption DEF TypeOK, ControlOK, FlagsOK, SessionOK, CarriedOK, Tracked, Served,
      PCs, OneHandle, Readiness, SettingUp, Watching, Apart, Held, NoSession, NoSubs, Preparing,
      Subscribing, Publishing, Fault, Unanswered, Restrict, control, opening, filling, flags,
      session, carried, indexes, client, sessions, served, server, history
<1>1. CASE Detach \/ Open \/ Unreachable
  BY <1>1 DEF Detach, Open, Unreachable, EndSession, Deleted, Keep, DetachedAgain, Fails, Return
<1>2. CASE Resume \/ ActivateToClose \/ ActivateCut
  BY <1>2 DEF Resume, ActivateToClose, ActivateCut, Established, Fails, Return, PutBack
<1>3. CASE NotActivated \/ CloseOld
  BY <1>3 DEF NotActivated, CloseOld, Dropped, EndSession, Deleted
<1>4. CASE CreateSession \/ CreateSessionCut
  BY <1>4 DEF CreateSession, CreateSessionCut, Established, Fails, Return
<1>5. CASE Check \/ Discover
  BY <1>5 DEF Check, Discover, Decide, Rebind, Rebuild
<1>6. CASE Clear \/ Resolve \/ RequestCut
  BY <1>6 DEF Clear, Resolve, RequestCut, DeleteBestEffort, Deleted, Fails, Return
<1>7. CASE NextGroup
  <2>1. PICK i \in todo : batch' \subseteq Group(i)
    BY <1>7 DEF NextGroup
  <2>2. /\ UNCHANGED <<subs, ready, old, cur>> /\ old = 0 /\ cur = 0 /\ pc = "subscribe"
        /\ pc' \in {"subscribe", "create"}
    BY <1>7 DEF NextGroup
  <2>3. \A s \in DOMAIN subs : subs[s].items \cap batch' = {}
    BY <2>1, <2>2 DEF Group
  <2> QED
    BY <2>2, <2>3
<1>8. CASE CreateSubscription \/ CreateCut
  <2>1. CASE CreateSubscription
    <3>1. /\ subs' = Extend(subs, nsub + 1, [items |-> batch, stalled |-> FALSE])
          /\ cur' = nsub + 1 /\ cur = 0 /\ UNCHANGED <<batch, old>> /\ Held
      BY <2>1 DEF CreateSubscription
    <3>2. /\ DOMAIN subs' = DOMAIN subs \cup {nsub + 1} /\ nsub + 1 \notin DOMAIN subs /\ nsub + 1 # old
          /\ subs'[nsub + 1].items = batch /\ \A s \in DOMAIN subs : subs'[s] = subs[s]
      BY <3>1 DEF Extend
    <3>3. \A s \in DOMAIN subs \ {old} : subs[s].items \cap batch = {}
      BY <3>1
    <3>4. \A s1, s2 \in DOMAIN subs' \ {old'} : s1 # s2 => subs'[s1].items \cap subs'[s2].items = {}
      <4> SUFFICES ASSUME NEW s1 \in DOMAIN subs' \ {old'}, NEW s2 \in DOMAIN subs' \ {old'}, s1 # s2
                   PROVE  subs'[s1].items \cap subs'[s2].items = {}
        OBVIOUS
      <4>1. CASE s1 \in DOMAIN subs /\ s2 \in DOMAIN subs
        <5>1. subs[s1].items \cap subs[s2].items = {}
          BY <3>1, <4>1
        <5> QED
          BY <3>2, <4>1, <5>1
      <4>2. CASE s1 = nsub + 1 /\ s2 \in DOMAIN subs
        BY <3>1, <3>2, <3>3, <4>2
      <4>3. CASE s2 = nsub + 1 /\ s1 \in DOMAIN subs
        BY <3>1, <3>2, <3>3, <4>3
      <4> QED
        BY <3>2, <4>1, <4>2, <4>3
    <3>5. \A s \in DOMAIN subs' \ {old', cur'} : subs'[s].items \cap batch' = {}
      BY <3>1, <3>2, <3>3
    <3>6. cur' \in DOMAIN subs' => subs'[cur'].items = batch'
      BY <3>1, <3>2
    <3> QED
      BY <3>4, <3>5, <3>6
  <2>2. CASE CreateCut
    <3>1. ~ready' /\ pc' \notin Subscribing \cup {"dropOld"}
      BY <2>2 DEF CreateCut, Fails
    <3> QED
      BY <3>1
  <2> QED
    BY <1>8, <2>1, <2>2
<1>9. CASE CreateRefused
  BY <1>9 DEF CreateRefused, Subscribed, Recreated, Abandon, Return, Without
<1>10. CASE \E refused \in SUBSET batch : CreateItems(refused)
  <2>1. PICK refused \in SUBSET batch : CreateItems(refused)
    BY <1>10
  <2> DEFINE kept    == batch \cap (monitored \ refused)
             tracked == IF cur \in DOMAIN subs THEN [subs EXCEPT ![cur].items = kept] ELSE subs
  <2>2. /\ DOMAIN tracked = DOMAIN subs /\ \A s \in DOMAIN subs \ {cur} : tracked[s] = subs[s]
        /\ cur \in DOMAIN subs => tracked[cur].items \subseteq batch
    OBVIOUS
  <2>3. \/ pc' = "empty" /\ UNCHANGED <<subs, old, cur, batch>>
        \/ subs' = tracked /\ old' = 0 /\ old = 0 /\ cur' = 0 /\ batch' = {} /\ pc' = "subscribe"
        \/ subs' = Without(tracked, old) /\ old' = 0 /\ cur' = 0 /\ batch' = {} /\ pc' = "idle"
    BY <2>1 DEF CreateItems, Subscribed, Recreated, Return
  <2>4. pc = "items" /\ Held
    BY <2>1 DEF CreateItems
  <2> HIDE DEF tracked
  <2>5. \A s1, s2 \in DOMAIN subs \ {old} : s1 # s2 => tracked[s1].items \cap tracked[s2].items = {}
    <3> SUFFICES ASSUME NEW s1 \in DOMAIN subs \ {old}, NEW s2 \in DOMAIN subs \ {old}, s1 # s2
                 PROVE  tracked[s1].items \cap tracked[s2].items = {}
      OBVIOUS
    <3>1. \A s \in DOMAIN subs \ {old, cur} : tracked[s] = subs[s] /\ subs[s].items \cap batch = {}
      BY <2>2, <2>4
    <3>2. subs[s1].items \cap subs[s2].items = {}
      BY <2>4
    <3> QED
      BY <2>2, <3>1, <3>2
  <2>6. DOMAIN Without(tracked, old) = DOMAIN subs \ {old}
        /\ \A s \in DOMAIN subs \ {old} : Without(tracked, old)[s] = tracked[s]
    BY <2>2 DEF Without
  <2>7. CASE pc' = "empty" /\ UNCHANGED <<subs, old, cur, batch>>
    BY <2>4, <2>7
  <2>8. CASE subs' = tracked /\ old' = 0 /\ old = 0 /\ cur' = 0 /\ batch' = {} /\ pc' = "subscribe"
    BY <2>2, <2>5, <2>8
  <2>9. CASE subs' = Without(tracked, old) /\ old' = 0 /\ cur' = 0 /\ batch' = {} /\ pc' = "idle"
    BY <2>5, <2>6, <2>9
  <2> QED
    BY <2>3, <2>7, <2>8, <2>9
<1>11. CASE DeleteEmpty
  <2>1. pc = "empty" /\ Held /\ pc' \in {"subscribe", "idle"} /\ old' = 0 /\ cur' = 0 /\ batch' = {}
    BY <1>11 DEF DeleteEmpty, Subscribed, Recreated, Return
  <2>2. /\ DOMAIN subs' \subseteq DOMAIN subs \ {old}
        /\ \A s \in DOMAIN subs' : subs'[s] = subs[s]
    BY <1>11 DEF DeleteEmpty, Subscribed, Recreated, Without
  <2> QED
    BY <2>1, <2>2
<1>12. CASE TransportReady
  BY <1>12 DEF TransportReady, Return, PollEverything, DeleteBestEffort, Deleted
<1>13. CASE (\E s \in DOMAIN subs : Watch(s)) \/ DropOld
  BY <1>13, SMTT(20) DEF Watch, Overdue, DropOld, DeleteBestEffort, Deleted
<1>14. CASE RequestTimesOut \/ FailuresInARow \/ LinkNoticed
  BY <1>14 DEF RequestTimesOut, FailuresInARow, LinkNoticed, Abandon
<1>15. CASE PublishUndecodable
  <2>1. /\ subs' = subs \/ subs' = NoSubs
        /\ UNCHANGED <<pc, ready, old, cur, batch>>
    BY <1>15, PollEverythingIs DEF PublishUndecodable
  <2> QED
    BY <2>1
<1>16. CASE \E s \in DOMAIN subs : Stall(s) \/ StatusChange(s)
  <2>1. DOMAIN subs' = DOMAIN subs /\ \A s \in DOMAIN subs : subs'[s].items = subs[s].items
    BY <1>16, StallsIs
  <2>2. UNCHANGED <<pc, ready, old, cur, batch>>
    BY <1>16 DEF Stall, StatusChange, Stalls
  <2> QED
    BY <2>1, <2>2
<1>17. CASE Cut \/ (\E x \in live : Expire(x)) \/ (\E s \in DOMAIN ssubs : Drop(s)) \/ Renumber
  BY <1>17 DEF Cut, Expire, Drop, Renumber, EndSession, Deleted
<1>18. CASE UNCHANGED vars
  BY <1>18 DEF vars
<1> QED
  BY <1>1, <1>2, <1>3, <1>4, <1>5, <1>6, <1>7, <1>8, <1>9, <1>10, <1>11, <1>12, <1>13, <1>14, <1>15,
     <1>16, <1>17, <1>18 DEF Next, RunLoop, Connecting, Transport, Jobs, Publisher, Environment

\* Every step leaves the client's belief true.
LEMMA BelievedStep ==
    TypeOK /\ OneHandle /\ Readiness /\ Numbered /\ Watching /\ Apart /\ Believed /\ [Next]_vars => Believed'
<1> SUFFICES ASSUME TypeOK /\ OneHandle /\ Readiness /\ Numbered /\ Watching /\ Apart /\ Believed, [Next]_vars
             PROVE  Believed'
  OBVIOUS
<1> USE SessionAssumption DEF TypeOK, ControlOK, FlagsOK, SessionOK, CarriedOK, Tracked, Served,
      PCs, OneHandle, Readiness, Numbered, Watching, Apart, Held, Home, NoSession, NoSubs,
      Preparing, Subscribing, Publishing, Fault, Unanswered, Restrict, control, opening, filling,
      flags, session, carried, indexes, client, sessions, served, server, history
<1>1. CASE Detach \/ Open \/ Unreachable
  <2>1. CASE Detach /\ token # 0 /\ detached' = detached
    <3>1. Home' = 0 /\ live' \subseteq live
      BY <2>1, EndSessionIs DEF Detach
    <3>2. 0 \notin live
      BY DEF Numbered
    <3> QED
      BY <3>1, <3>2 DEF Believed
  <2>2. CASE Detach /\ ~(token # 0 /\ detached' = detached)
    <3>1. /\ UNCHANGED <<subs, ssubs, ended, monitored, live, ready, old, cur>>
          /\ pc = "idle" /\ pc' = "opening"
      BY <2>2 DEF Detach
    <3>2. taken = NoSession /\ taken' = taken /\ token' = 0
      BY <2>2 DEF Detach
    <3>3. detached'.token = IF token # 0 THEN token ELSE detached.token
      BY <2>2 DEF Detach, DetachedAgain
    <3>4. Home' = Home
      BY <3>2, <3>3
    <3>5. \A s \in DOMAIN subs' \ {old'} : Same(s)
      BY <3>1 DEF Same
    <3> QED
      BY <3>1, <3>4, <3>5, BeliefKept
  <2>3. CASE Open \/ Unreachable
    <3>1. /\ UNCHANGED <<subs, ssubs, ended, monitored, live>> /\ (ready' => ready)
          /\ pc = "opening" /\ pc' \notin Subscribing \cup {"dropOld"}
          /\ old = 0 /\ old' = 0
      BY <2>3 DEF Open, Unreachable, Fails, Return
    <3>2. Home' = Home
      BY <2>3 DEF Open, Unreachable
    <3>3. \A s \in DOMAIN subs' \ {old'} : Same(s)
      BY <3>1 DEF Same
    <3> QED
      BY <3>1, <3>2, <3>3, BeliefKept
  <2> QED
    BY <1>1, <2>1, <2>2, <2>3
<1>2. CASE Resume \/ ActivateToClose \/ ActivateCut
  BY <1>2, SMTT(20) DEF Resume, ActivateToClose, ActivateCut, Established, Fails, Return, PutBack, Believed, Vouched
<1>3. CASE NotActivated \/ CloseOld
  BY <1>3 DEF NotActivated, CloseOld, Dropped, EndSession, Deleted, Believed, Vouched
<1>4. CASE CreateSession \/ CreateSessionCut
  BY <1>4 DEF CreateSession, CreateSessionCut, Established, Fails, Return, Believed, Vouched
<1>5. CASE Check \/ Discover
  <2>1. /\ UNCHANGED <<subs, ssubs, ended, monitored, live, token, taken, detached, old, cur>>
        /\ pc' \notin Subscribing \cup {"dropOld"} /\ (ready' => ready)
    BY <1>5 DEF Check, Discover, Decide, Rebind, Rebuild
  <2>2. pc # "items"
    BY <1>5 DEF Check, Discover
  <2>3. \A s \in DOMAIN subs' \ {old'} : Same(s)
    BY <2>1, <2>2 DEF Same
  <2> QED
    BY <2>1, <2>3, BeliefKept
<1>6. CASE Clear \/ Resolve \/ RequestCut
  <2>1. CASE Clear
    <3>1. ~ready' /\ pc' = "resolving"
      BY <2>1 DEF Clear
    <3> QED
      BY <3>1 DEF Believed
  <2>2. CASE Resolve
    BY <2>2 DEF Resolve, Believed
  <2>3. CASE RequestCut
    <3>1. /\ UNCHANGED <<ready, subs, ssubs, ended, monitored, live, token, taken, detached>>
          /\ pc' \notin Subscribing \cup {"dropOld"} /\ old' = 0
      BY <2>3 DEF RequestCut, Fails, Return
    <3>2. ready => old = 0 /\ pc # "items"
      BY <2>3 DEF RequestCut
    <3>3. ready => \A s \in DOMAIN subs' \ {old'} : Same(s)
      BY <3>1, <3>2 DEF Same
    <3>4. ready' => Believed'
      BY <3>1, <3>3, BeliefKept
    <3> QED
      BY <3>1, <3>4 DEF Believed
  <2> QED
    BY <1>6, <2>1, <2>2, <2>3
<1>7. CASE NextGroup
  BY <1>7 DEF NextGroup, Group, Believed, Vouched
<1>8. CASE CreateSubscription \/ CreateCut
  <2>1. CASE CreateSubscription
    <3>0. PICK new \in Nat : new = nsub + 1
      OBVIOUS
    <3>1. /\ subs' = Extend(subs, new, [items |-> batch, stalled |-> FALSE])
          /\ ssubs' = Extend(ssubs, new, [session |-> token, items |-> {}])
          /\ cur' = new /\ pc' = "items" /\ pc = "create" /\ monitored' = monitored \cup batch
          /\ UNCHANGED <<old, live, ended, token, taken, detached>>
      BY <2>1, <3>0 DEF CreateSubscription, NewSubscription
    <3>2. Home' = Home /\ Home = token
      BY <3>1
    <3>3. DOMAIN subs' = DOMAIN subs \cup {new} /\ new \notin DOMAIN subs
      BY <3>0, <3>1 DEF Extend
    <3>4. Vouched(new)'
      <4>1. new \in DOMAIN ssubs' /\ ssubs'[new].session = token
        BY <3>1 DEF Extend
      <4> QED
        BY <3>1, <3>2, <4>1 DEF Vouched
    <3>5. ASSUME NEW s \in DOMAIN subs \ {old} PROVE Same(s)
      <4>1. s # new /\ subs'[s] = subs[s]
        BY <3>1, <3>3 DEF Extend
      <4>2. (s \in DOMAIN ssubs <=> s \in DOMAIN ssubs') /\ (s \in DOMAIN ssubs => ssubs'[s] = ssubs[s])
        BY <3>1, <4>1 DEF Extend
      <4>3. subs[s].items \cap batch = {}
        BY <3>1
      <4> QED
        BY <3>1, <4>1, <4>2, <4>3 DEF Same
    <3>6. \A s \in DOMAIN subs' \ {old'} : Same(s) \/ Vouched(s)'
      BY <3>1, <3>3, <3>4, <3>5, Zenon
    <3> QED
      BY <3>1, <3>2, <3>6, BeliefKept
  <2>2. CASE CreateCut
    <3>1. ~ready' /\ pc' \notin Subscribing \cup {"dropOld"}
      BY <2>2 DEF CreateCut, Fails
    <3> QED
      BY <3>1 DEF Believed
  <2> QED
    BY <1>8, <2>1, <2>2
<1>9. CASE CreateRefused
  BY <1>9 DEF CreateRefused, Subscribed, Recreated, Abandon, Return, Without, Believed, Vouched
<1>10. CASE \E refused \in SUBSET batch : CreateItems(refused)
  <2>1. PICK refused \in SUBSET batch : CreateItems(refused)
    BY <1>10
  <2> DEFINE kept    == batch \cap (monitored \ refused)
             tracked == IF cur \in DOMAIN subs THEN [subs EXCEPT ![cur].items = kept] ELSE subs
  <2>2. /\ DOMAIN ssubs' = DOMAIN ssubs /\ \A s \in DOMAIN ssubs \ {cur} : ssubs'[s] = ssubs[s]
        /\ \A s \in DOMAIN ssubs : ssubs'[s].session = ssubs[s].session
        /\ cur \in DOMAIN ssubs => ssubs'[cur].items = batch \ refused
        /\ monitored' = monitored \ refused
        /\ UNCHANGED <<live, ended, token, taken, detached>>
    BY <2>1 DEF CreateItems
  <2>3. Home' = Home
    BY <2>2
  <2>4. DOMAIN tracked = DOMAIN subs /\ \A s \in DOMAIN subs \ {cur} : tracked[s] = subs[s]
    OBVIOUS
  <2>5. cur \in DOMAIN subs => tracked[cur].items = kept
    OBVIOUS
  <2>6. \/ pc' = "empty" /\ refused = batch /\ UNCHANGED <<subs, old, cur>>
        \/ subs' = tracked /\ old' = 0 /\ old = 0 /\ pc' = "subscribe"
        \/ subs' = Without(tracked, old) /\ old' = 0 /\ pc' = "idle"
    BY <2>1 DEF CreateItems, Subscribed, Recreated, Return
  <2>7. DOMAIN Without(tracked, old) = DOMAIN subs \ {old}
        /\ \A s \in DOMAIN subs \ {old} : Without(tracked, old)[s] = tracked[s]
    BY <2>4 DEF Without
  <2> HIDE DEF tracked
  <2>8. pc = "items"
    BY <2>1 DEF CreateItems
  <2>9. /\ DOMAIN subs' \ {old'} \subseteq DOMAIN subs \ {old}
        /\ \A s \in DOMAIN subs' \ {old', cur} : subs'[s] = subs[s]
        /\ cur \in DOMAIN subs' => subs'[cur].items \cap monitored' \subseteq batch \ refused
    <3>1. CASE pc' = "empty" /\ refused = batch /\ UNCHANGED <<subs, old, cur>>
      BY <2>2, <2>8, <3>1
    <3>2. CASE subs' = tracked /\ old' = 0 /\ old = 0 /\ pc' = "subscribe"
      BY <2>2, <2>4, <2>5, <3>2
    <3>3. CASE subs' = Without(tracked, old) /\ old' = 0 /\ pc' = "idle"
      BY <2>2, <2>4, <2>5, <2>7, <2>8, <3>3
    <3> QED
      BY <2>6, <3>1, <3>2, <3>3
  <2> SUFFICES ASSUME Held', Home' \in live', NEW s \in DOMAIN subs' \ {old'} PROVE Vouched(s)'
    BY DEF Believed
  <2>10. Held /\ Home \in live /\ s \in DOMAIN subs \ {old}
    BY <2>2, <2>3, <2>8, <2>9
  <2>11. Vouched(s)
    BY <2>10 DEF Believed
  <2>12. CASE s = cur
    <3>1. subs'[s].items \cap monitored' \subseteq batch \ refused
      BY <2>9, <2>12
    <3> QED
      BY <2>2, <2>3, <2>11, <2>12, <3>1 DEF Vouched
  <2>13. CASE s # cur
    <3>1. subs'[s] = subs[s] /\ monitored' \subseteq monitored
      BY <2>2, <2>9, <2>13
    <3>2. /\ s \in DOMAIN ssubs <=> s \in DOMAIN ssubs'
          /\ s \in DOMAIN ssubs => ssubs'[s] = ssubs[s]
      BY <2>2, <2>13
    <3> QED
      BY <2>2, <2>3, <2>11, <2>13, <3>1, <3>2 DEF Vouched
  <2> QED
    BY <2>12, <2>13
<1>11. CASE DeleteEmpty
  <2>1. /\ pc = "empty" /\ pc' \in {"subscribe", "idle"} /\ old' = 0
        /\ UNCHANGED <<monitored, live, ended, token, taken, detached>>
    BY <1>11 DEF DeleteEmpty, Subscribed, Recreated, Return
  <2>2. Home' = Home
    BY <2>1
  <2>3. CASE ssubs' = Deleted({cur}) /\ (Subscribed(Without(subs, cur), batch) \/ Recreated(Without(subs, cur), batch))
    <3>1. /\ DOMAIN ssubs' = DOMAIN ssubs \ {cur} /\ \A s \in DOMAIN ssubs' : ssubs'[s] = ssubs[s]
      BY <2>3, DeletedIs DEF Shrinks
    <3>2. /\ DOMAIN subs' \subseteq DOMAIN subs \ {old, cur} /\ \A s \in DOMAIN subs' : subs'[s] = subs[s]
      BY <2>3 DEF Subscribed, Recreated, Without
    <3>3. \A s \in DOMAIN subs' \ {old'} : Same(s)
      BY <2>1, <3>1, <3>2 DEF Same
    <3> QED
      BY <2>1, <2>2, <3>3, BeliefKept
  <2>4. CASE ssubs' = ssubs /\ (Subscribed(subs, batch) \/ Recreated(subs, batch))
    <3>1. /\ DOMAIN subs' \subseteq DOMAIN subs \ {old} /\ \A s \in DOMAIN subs' : subs'[s] = subs[s]
      BY <2>4 DEF Subscribed, Recreated, Without
    <3>2. \A s \in DOMAIN subs' \ {old'} : Same(s)
      BY <2>1, <2>4, <3>1 DEF Same
    <3> QED
      BY <2>1, <2>2, <3>2, BeliefKept
  <2> QED
    BY <1>11, <2>3, <2>4 DEF DeleteEmpty
<1>12. CASE TransportReady
  BY <1>12 DEF TransportReady, Return, PollEverything, DeleteBestEffort, Deleted, Believed, Vouched
<1>13. CASE (\E s \in DOMAIN subs : Watch(s)) \/ DropOld
  <2>1. CASE \E s \in DOMAIN subs : Watch(s)
    <3>1. PICK s \in DOMAIN subs : Watch(s)
      BY <2>1
    <3>2. /\ UNCHANGED <<ssubs, ended, monitored, live, token, taken, detached, cur>> /\ pc = "idle"
          /\ subs' = [subs EXCEPT ![s].stalled = TRUE] /\ old' = s /\ ready
      BY <3>1 DEF Watch
    <3>3. old = 0
      BY <3>2
    <3>4. \A r \in DOMAIN subs' \ {old'} : Same(r)
      BY <3>2, <3>3 DEF Same
    <3> QED
      BY <3>2, <3>4, BeliefKept
  <2>2. CASE DropOld
    <3>1. /\ UNCHANGED <<subs, monitored, ended, live, token, taken, detached, old, cur>>
          /\ pc = "dropOld" /\ DeleteBestEffort({old})
      BY <2>2 DEF DropOld
    <3>2. Shrinks /\ DOMAIN ssubs \ {old} \subseteq DOMAIN ssubs'
      BY <3>1, BestEffortIs
    <3>3. \A s \in DOMAIN subs' \ {old'} : Same(s)
      BY <3>1, <3>2 DEF Same, Shrinks
    <3> QED
      BY <3>1, <3>3, BeliefKept
  <2> QED
    BY <1>13, <2>1, <2>2
<1>14. CASE RequestTimesOut \/ FailuresInARow \/ LinkNoticed
  <2>1. UNCHANGED <<pc, subs, ssubs, ended, monitored, live, ready, token, taken, detached, old, cur>>
    BY <1>14 DEF RequestTimesOut, FailuresInARow, LinkNoticed, Abandon
  <2> QED
    BY <2>1 DEF Believed, Vouched
<1>15. CASE PublishUndecodable
  <2>1. CASE subs' = NoSubs
    BY <2>1 DEF Believed
  <2>2. CASE UNCHANGED <<subs, ssubs, monitored>>
    <3>1. UNCHANGED <<pc, live, ended, ready, token, taken, detached, old, cur>>
      BY <1>15 DEF PublishUndecodable
    <3> QED
      BY <2>2, <3>1 DEF Believed, Vouched
  <2> QED
    BY <1>15, <2>1, <2>2 DEF PublishUndecodable, PollEverything
<1>16. CASE \E s \in DOMAIN subs : Stall(s) \/ StatusChange(s)
  <2>1. PICK s \in DOMAIN subs : Stall(s) \/ StatusChange(s)
    BY <1>16
  <2>2. /\ DOMAIN subs' = DOMAIN subs
        /\ \A r \in DOMAIN subs : subs'[r].items = subs[r].items
    BY <2>1, StallsIs
  <2>3. UNCHANGED <<pc, ready, old, cur, monitored, live, ssubs, ended, token, taken, detached>>
    BY <2>1 DEF Stall, StatusChange, Stalls
  <2>4. Home' = Home
    BY <2>3
  <2> QED
    BY <2>2, <2>3, <2>4 DEF Believed, Vouched
<1>17. CASE Cut \/ (\E x \in live : Expire(x)) \/ (\E s \in DOMAIN ssubs : Drop(s)) \/ Renumber
  <2>1. UNCHANGED <<pc, ready, old, cur, subs, monitored, token, taken, detached>>
    BY <1>17 DEF Cut, Expire, Drop, Renumber
  <2>2. Home' = Home
    BY <2>1
  <2>3. CASE \E x \in live : Expire(x)
    <3>1. PICK x : EndSession(x) /\ UNCHANGED ended
      BY <2>3 DEF Expire
    <3>2. /\ Shrinks /\ live' = live \ {x}
          /\ \A s \in DOMAIN ssubs : ssubs[s].session # x => s \in DOMAIN ssubs'
      BY <3>1, EndSessionIs
    <3>3. \A s \in DOMAIN ssubs : ssubs[s].session = Home /\ Home \in live' => s \in DOMAIN ssubs'
      BY <3>2
    <3> QED
      BY <2>1, <2>2, <3>1, <3>2, <3>3, SMTT(20) DEF Shrinks, Believed, Vouched
  <2>4. CASE \E s \in DOMAIN ssubs : Drop(s)
    <3>1. PICK x \in DOMAIN ssubs : Drop(x)
      BY <2>4
    <3>2. live' = live /\ ended' = ended \cup {x} /\ ssubs' = Deleted({x})
      BY <3>1 DEF Drop
    <3>3. /\ DOMAIN ssubs' = DOMAIN ssubs \ {x}
          /\ \A s \in DOMAIN ssubs' : ssubs'[s] = ssubs[s]
      BY <3>2, DeletedIs DEF Shrinks
    <3> SUFFICES ASSUME Held, Home \in live, NEW s \in DOMAIN subs \ {old} PROVE Vouched(s)'
      BY <2>1, <2>2, <3>2 DEF Believed
    <3>4. Vouched(s)
      BY DEF Believed
    <3>5. CASE s = x \/ s \notin DOMAIN ssubs
      BY <3>2, <3>3, <3>4, <3>5 DEF Vouched
    <3>6. CASE s # x /\ s \in DOMAIN ssubs
      <4>1. s \in DOMAIN ssubs' /\ ssubs'[s] = ssubs[s]
        BY <3>3, <3>6
      <4> QED
        BY <2>1, <2>2, <3>4, <3>6, <4>1 DEF Vouched
    <3> QED
      BY <3>5, <3>6
  <2>5. CASE Cut \/ Renumber
    <3>1. UNCHANGED <<live, ssubs, ended>>
      BY <2>5 DEF Cut, Renumber
    <3> QED
      BY <2>1, <2>2, <3>1 DEF Believed, Vouched
  <2> QED
    BY <1>17, <2>3, <2>4, <2>5
<1>18. CASE UNCHANGED vars
  BY <1>18, SMTT(20) DEF vars, Believed, Vouched
<1> QED
  BY <1>1, <1>2, <1>3, <1>4, <1>5, <1>6, <1>7, <1>8, <1>9, <1>10, <1>11, <1>12, <1>13, <1>14, <1>15,
     <1>16, <1>17, <1>18 DEF Next, RunLoop, Connecting, Transport, Jobs, Publisher, Environment

-----------------------------------------------------------------------------
LEMMA InitServed == Init => ServedInv
<1> SUFFICES ASSUME Init PROVE ServedInv
  OBVIOUS
<1>1. Inv
  BY InitInv
<1>2. Numbered /\ Watching /\ Remembered
  BY DEF Init, Numbered, Watching, Remembered, NoSubs
<1>3. Apart /\ Believed
  BY DEF Init, Apart, Believed, Held, NoSubs, Subscribing
<1> QED
  BY <1>1, <1>2, <1>3 DEF ServedInv

LEMMA NextServed == ServedInv /\ [Next]_vars => ServedInv'
<1> SUFFICES ASSUME ServedInv, [Next]_vars PROVE ServedInv'
  OBVIOUS
<1>1. Inv'
  BY NextInv DEF ServedInv
<1>2. Numbered' /\ Watching'
  BY NumberedStep, WatchingStep DEF ServedInv, Inv
<1>3. Remembered' /\ Apart' /\ Believed'
  BY RememberedStep, ApartStep, BelievedStep DEF ServedInv, Inv
<1> QED
  BY <1>1, <1>2, <1>3 DEF ServedInv

\* ServedInv holds in every state the client and the server reach.
THEOREM ServedInvariant == Spec => []ServedInv
  BY InitServed, NextServed, PTL DEF Spec

\* What the client believes it subscribed is what the server serves: while _ready, across
\* stalls, refusals, recreations, resumes and rebuilds, a tracked subscription is served by
\* the client's own session with every monitored item, or the server ended it by itself and
\* the job that notices its silence is there.
THEOREM BeliefHolds == Spec => []BeliefTrue
<1>1. ServedInv => BeliefTrue
  <2> SUFFICES ASSUME ServedInv, ready, Home \in live, NEW s \in DOMAIN subs
               PROVE  \/ s \in ended /\ s \notin DOMAIN ssubs /\ watched
                      \/ /\ s \in DOMAIN ssubs /\ ssubs[s].session = Home
                         /\ subs[s].items \cap monitored \subseteq ssubs[s].items
    BY DEF BeliefTrue
  <2>1. pc \notin Subscribing \cup {"dropOld"}
    BY DEF ServedInv, Inv, Readiness
  <2>2. old = 0 /\ pc # "items" /\ s # 0
    BY <2>1 DEF ServedInv, Inv, TypeOK, ControlOK, Readiness, Subscribing
  <2>3. watched
    BY DEF ServedInv, Watching, NoSubs
  <2> QED
    BY <2>2, <2>3 DEF ServedInv, Believed, Vouched, Held
<1> QED
  BY <1>1, ServedInvariant, PTL

\* No subscription slot is forgotten: once jobs run, what the server holds in the client's
\* session is tracked, or its deletion was requested and not answered.
THEOREM NoSubscriptionForgotten == Spec => []NothingForgotten
<1>1. ServedInv => NothingForgotten
  BY DEF ServedInv, Inv, OneHandle, Remembered, Home, NothingForgotten
<1> QED
  BY <1>1, ServedInvariant, PTL
=============================================================================
