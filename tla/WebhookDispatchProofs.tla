--------------------------- MODULE WebhookDispatchProofs ---------------------------
(***********************************************************************************)
(* Theorems about WebhookDispatch, for any number of endpoints and attempts and    *)
(* whatever the operator does meanwhile.                                           *)
(***********************************************************************************)
EXTENDS WebhookDispatch, TLAPS

Rows == deliveries \cup inserted \cup batch \cup pending

\* Before the endpoints are read nothing has happened.
NotBegun ==
    dispatch = "scheduled" => targets = {} /\ Rows = {} /\ flushing = Nobody /\ ~broken

\* Each target has a coroutine, which has counted an attempt once it has left its first
\* POST, and has one left whenever it POSTs.
Coroutines ==
    \A e \in Endpoint :
        /\ co[e] # "idle" <=> e \in targets
        /\ co[e] \in {"posting", "backoff"} => attempts[e] < MaxAttempts
        /\ co[e] \in {"flushing", "backoff", "returned", "abandoned"} => attempts[e] > 0

\* One coroutine at most is inside a flush, and only a flush has a batch.
OneFlush ==
    /\ flushing # Nobody => co[flushing] = "flushing" /\ dispatch = "running"
    /\ flushing = Nobody => batch = {}

\* Rows are numbered by the attempts they record, the latest of which has the latest
\* answer; a coroutine that will POST again has seen nothing but failures.
RowsTell ==
    \A row \in Rows :
        /\ row.attempt <= attempts[row.endpoint]
        /\ row.attempt = attempts[row.endpoint] => row.answer = answer[row.endpoint]
        /\ co[row.endpoint] \in {"posting", "backoff"} => row.answer = "retry"

\* Until a rollback every attempt has its row somewhere in the session.
NothingLost ==
    dispatch = "running" /\ ~broken =>
        \A e \in targets : \A n \in 1..attempts[e] :
            \E row \in inserted \cup batch \cup pending : row.endpoint = e /\ row.attempt = n

\* Whatever is POSTed to, or will be, has passed the guard.
Pinned ==
    \A e \in Endpoint :
        /\ pinned[e] = "private" => PrivateAllowed
        /\ co[e] \in {"posting", "backoff"} \/ answer[e] = "retry" => pinned[e] # "none"

IInv ==
    /\ TypeOK /\ NotBegun /\ Coroutines /\ OneFlush /\ RowsTell /\ NothingLost /\ Pinned
    /\ NoOrphanRows /\ FinalAnswerIsLast /\ CommittedIsComplete /\ EveryTargetTried /\ OnlyCheckedAddress

----------------------------------------------------------------------------------
LEMMA InitIInv == Init => IInv
<1> SUFFICES ASSUME Init PROVE IInv
  OBVIOUS
<1>1. TypeOK
  <2>1. /\ endpoint \in [Endpoint -> {"absent", "active", "inactive", "deleted"}]
        /\ co \in [Endpoint -> {"idle", "posting", "flushing", "backoff", "returned", "abandoned"}]
        /\ attempts \in [Endpoint -> 0..MaxAttempts]
        /\ answer \in [Endpoint -> Answers \cup {"none"}]
    BY DispatchAssumption DEF Init
  <2>2. pinned \in [Endpoint -> Address \cup {"none"}] /\ contacted \in [Endpoint -> SUBSET Address]
    BY DEF Init
  <2>3. /\ deliveries \subseteq Delivery /\ batch \subseteq Delivery /\ pending \subseteq Delivery
        /\ inserted \subseteq Delivery /\ targets \subseteq Endpoint
    BY DEF Init
  <2>4. edits \in 0..MaxEdits /\ dispatch = "scheduled" /\ flushing = Nobody /\ broken = FALSE
    BY DispatchAssumption DEF Init
  <2> QED
    BY <2>1, <2>2, <2>3, <2>4 DEF TypeOK
<1>2. Rows = {} /\ NotBegun /\ Coroutines /\ OneFlush /\ RowsTell /\ NothingLost /\ Pinned
  BY DEF Init, Rows, NotBegun, Coroutines, OneFlush, RowsTell, NothingLost, Pinned
<1>3. NoOrphanRows /\ FinalAnswerIsLast /\ CommittedIsComplete /\ EveryTargetTried /\ OnlyCheckedAddress
  BY DEF Init, NoOrphanRows, FinalAnswerIsLast, CommittedIsComplete, EveryTargetTried, OnlyCheckedAddress
<1> QED
  BY <1>1, <1>2, <1>3 DEF IInv

\* Only addresses that are checked are pinned.
LEMMA PinIsChecked ==
    ASSUME NEW addresses \in SUBSET Address, NEW a \in pin_target(addresses)
    PROVE  a \in Address \cup {"none"} /\ (a = "private" => PrivateAllowed)
  BY DEF pin_target, Safe, Address

\* The coroutines start with nothing but the refusals of the guard to record.
LEMMA MatchIInv == ASSUME IInv, Match PROVE IInv'
<1> DEFINE refused == {e \in targets' : pinned'[e] = "none"}
<1>1. dispatch = "scheduled" /\ Rows = {} /\ flushing = Nobody /\ ~broken
  BY DEF Match, IInv, NotBegun
<1>2. /\ targets' \subseteq Endpoint
      /\ dispatch' = IF targets' = {} THEN "committed" ELSE "running"
      /\ UNCHANGED <<endpoint, deliveries, edits, inserted, broken>>
  BY DEF Match
<1>3. PICK pin \in [targets' -> UNION {pin_target(addresses) : addresses \in SUBSET Address}] :
        /\ pinned' = [e \in Endpoint |-> IF e \in targets' THEN pin[e] ELSE "none"]
        /\ contacted' = [e \in Endpoint |-> {pinned'[e]} \ {"none"}]
        /\ Guard({e \in targets' : pin[e] = "none"})
  BY DEF Match
<1>4. refused = {e \in targets' : pin[e] = "none"} /\ refused \subseteq targets'
  BY <1>2, <1>3
<1>5. Guard(refused)
  BY <1>3, <1>4
<1>6. PICK first \in IF refused = {} THEN {Nobody} ELSE refused :
        /\ flushing' = first
        /\ batch' = {Row(e, 1, "refused") : e \in refused \cap {first}}
        /\ pending' = {Row(e, 1, "refused") : e \in refused \ {first}}
        /\ co' = [e \in Endpoint |->
                     IF e = first THEN "flushing"
                     ELSE IF e \in refused THEN "abandoned"
                     ELSE IF e \in targets' THEN "posting" ELSE "idle"]
  BY <1>5 DEF Guard
<1>7. /\ attempts' = [e \in Endpoint |-> IF e \in refused THEN 1 ELSE 0]
      /\ answer' = [e \in Endpoint |-> IF e \in refused THEN "refused" ELSE "none"]
  BY <1>5 DEF Guard
<1>8. \A e \in Endpoint : pinned'[e] \in Address \cup {"none"} /\ (pinned'[e] = "private" => PrivateAllowed)
  BY <1>2, <1>3, PinIsChecked
<1>9. /\ first \in refused \/ (first = Nobody /\ first \notin Endpoint /\ refused = {})
      /\ Rows' = batch' \cup pending' /\ inserted' = {} /\ deliveries' = {}
      /\ batch' \cup pending' = {Row(e, 1, "refused") : e \in refused}
  BY <1>1, <1>2, <1>6, DispatchAssumption DEF Rows
<1>10. \A row \in Rows' : /\ row.endpoint \in refused /\ row.attempt = 1 /\ row.answer = "refused"
                          /\ row = Row(row.endpoint, 1, "refused")
  BY <1>9 DEF Row
<1>11. TypeOK'
  <2>1. Rows' \subseteq Delivery
    BY <1>9, <1>10, <1>2, <1>4, DispatchAssumption DEF Delivery, Row, Answers
  <2>2. pinned' \in [Endpoint -> Address \cup {"none"}] /\ contacted' \in [Endpoint -> SUBSET Address]
    BY <1>3, <1>8
  <2>3. co' \in [Endpoint -> {"idle", "posting", "flushing", "backoff", "returned", "abandoned"}]
    BY <1>6
  <2>4. attempts' \in [Endpoint -> 0..MaxAttempts] /\ answer' \in [Endpoint -> Answers \cup {"none"}]
    BY <1>7, DispatchAssumption DEF Answers
  <2>5. flushing' \in Endpoint \cup {Nobody}
    BY <1>6, <1>4, <1>2
  <2> QED
    BY <1>2, <2>1, <2>2, <2>3, <2>4, <2>5 DEF IInv, TypeOK, Ended, Rows
<1>12. NotBegun' /\ NothingLost' /\ RowsTell' /\ FinalAnswerIsLast'
  <2>1. NotBegun'
    BY <1>2 DEF NotBegun
  <2>2. NothingLost'
    <3> SUFFICES ASSUME NEW e \in targets', NEW n \in 1..attempts'[e]
                 PROVE  \E row \in inserted' \cup batch' \cup pending' : row.endpoint = e /\ row.attempt = n
      BY DEF NothingLost
    <3>1. e \in refused /\ n = 1
      BY <1>2, <1>7
    <3>2. Row(e, 1, "refused") \in batch' \cup pending'
      BY <3>1, <1>9
    <3> QED
      BY <3>1, <3>2 DEF Row
  <2>3. RowsTell'
    BY <1>2, <1>4, <1>6, <1>7, <1>10 DEF RowsTell
  <2>4. FinalAnswerIsLast'
    BY <1>2, <1>4, <1>7, <1>10 DEF FinalAnswerIsLast, Rows
  <2> QED
    BY <2>1, <2>2, <2>3, <2>4
<1>13. Coroutines' /\ OneFlush'
  <2>1. Coroutines'
    BY <1>2, <1>4, <1>6, <1>7, <1>9, DispatchAssumption DEF Coroutines
  <2>2. OneFlush'
    BY <1>2, <1>4, <1>6, <1>9, DispatchAssumption DEF OneFlush
  <2> QED
    BY <2>1, <2>2
<1>14. Pinned' /\ OnlyCheckedAddress'
  <2>1. Pinned'
    BY <1>2, <1>4, <1>6, <1>7, <1>8, <1>9 DEF Pinned
  <2>2. OnlyCheckedAddress'
    BY <1>3, <1>8 DEF OnlyCheckedAddress
  <2> QED
    BY <2>1, <2>2
<1>15. NoOrphanRows' /\ CommittedIsComplete' /\ EveryTargetTried'
  BY <1>2, <1>9 DEF NoOrphanRows, CommittedIsComplete, EveryTargetTried
<1> QED
  BY <1>11, <1>12, <1>13, <1>14, <1>15 DEF IInv

\* An attempt gets the next number, and its row joins the session whatever becomes of
\* the flush.
LEMMA AnsweredIInv == ASSUME IInv, NEW e \in Endpoint, Answered(e) PROVE IInv'
<1>1. PICK a \in {"ok", "rejected", "retry"} : Record(e, a)
  BY DEF Answered
<1> DEFINE row == Row(e, attempts[e] + 1, a)
<1>2. dispatch = "running" /\ co[e] = "posting" /\ attempts[e] < MaxAttempts /\ e \in targets /\ flushing # e
  BY DispatchAssumption DEF Answered, IInv, Coroutines, OneFlush
<1>3. /\ attempts' = [attempts EXCEPT ![e] = @ + 1] /\ answer' = [answer EXCEPT ![e] = a]
      /\ UNCHANGED <<endpoint, deliveries, edits, dispatch, targets, pinned, contacted, inserted, broken>>
  BY <1>1 DEF Record, aim
<1>4. \/ /\ flushing = Nobody /\ ~broken /\ co' = [co EXCEPT ![e] = "flushing"] /\ flushing' = e
         /\ batch' = pending \cup {row} /\ pending' = {} /\ batch = {}
      \/ /\ co' = [co EXCEPT ![e] = "abandoned"] /\ pending' = pending \cup {row}
         /\ UNCHANGED <<flushing, batch>>
  BY <1>1 DEF Record, IInv, OneFlush
<1>5. batch' \cup pending' = batch \cup pending \cup {row} /\ Rows' = Rows \cup {row}
  BY <1>3, <1>4 DEF Rows
<1>6. /\ row.endpoint = e /\ row.attempt = attempts[e] + 1 /\ row.answer = a
      /\ attempts \in [Endpoint -> 0..MaxAttempts] /\ attempts[e] \in Nat /\ attempts'[e] = attempts[e] + 1
      /\ answer'[e] = a /\ co'[e] \in {"flushing", "abandoned"}
  BY <1>3, <1>4, DispatchAssumption DEF Row, IInv, TypeOK
<1>7. \A f \in Endpoint \ {e} : attempts'[f] = attempts[f] /\ answer'[f] = answer[f] /\ co'[f] = co[f]
  BY <1>3, <1>4 DEF IInv, TypeOK
<1>8. \A x \in Rows : x.endpoint \in Endpoint /\ x.attempt \in Nat
  BY DispatchAssumption DEF Rows, IInv, TypeOK, Delivery
<1>9. TypeOK'
  <2>1. row \in Delivery
    BY <1>2, <1>6, DispatchAssumption DEF Row, Delivery, Answers
  <2>2. batch' \subseteq Delivery /\ pending' \subseteq Delivery /\ flushing' \in Endpoint \cup {Nobody}
    BY <1>4, <2>1 DEF IInv, TypeOK
  <2>3. co' \in [Endpoint -> {"idle", "posting", "flushing", "backoff", "returned", "abandoned"}]
    BY <1>4 DEF IInv, TypeOK
  <2>4. attempts' \in [Endpoint -> 0..MaxAttempts] /\ answer' \in [Endpoint -> Answers \cup {"none"}]
    BY <1>2, <1>3, <1>6, DispatchAssumption DEF IInv, TypeOK, Answers
  <2> QED
    BY <1>3, <2>2, <2>3, <2>4 DEF IInv, TypeOK
<1>10. NotBegun' /\ OneFlush'
  <2>1. NotBegun'
    BY <1>2, <1>3 DEF NotBegun
  <2>2. OneFlush'
    BY <1>2, <1>3, <1>4, <1>6, <1>7, DispatchAssumption DEF IInv, TypeOK, OneFlush
  <2> QED
    BY <2>1, <2>2
<1>11. Coroutines'
  BY <1>2, <1>3, <1>6, <1>7 DEF IInv, Coroutines
<1>12. RowsTell' /\ FinalAnswerIsLast'
  <2>1. ASSUME NEW x \in Rows, x.endpoint = e PROVE x.answer = "retry" /\ x.attempt <= attempts[e]
    BY <1>2, <2>1 DEF IInv, RowsTell
  <2>2. RowsTell'
    <3> SUFFICES ASSUME NEW x \in Rows \cup {row}
                 PROVE  /\ x.attempt <= attempts'[x.endpoint]
                        /\ x.attempt = attempts'[x.endpoint] => x.answer = answer'[x.endpoint]
                        /\ co'[x.endpoint] \in {"posting", "backoff"} => x.answer = "retry"
      BY <1>5 DEF RowsTell
    <3>1. CASE x = row
      BY <3>1, <1>6
    <3>2. CASE x \in Rows /\ x.endpoint = e
      BY <3>2, <2>1, <1>6, <1>8
    <3>3. CASE x \in Rows /\ x.endpoint # e
      BY <3>3, <1>7, <1>8 DEF IInv, RowsTell
    <3> QED
      BY <3>1, <3>2, <3>3
  <2>3. FinalAnswerIsLast'
    <3> SUFFICES ASSUME NEW x \in Rows \cup {row}, x.answer # "retry"
                 PROVE  x.attempt = attempts'[x.endpoint]
      BY <1>5 DEF FinalAnswerIsLast, Rows
    <3>1. CASE x = row
      BY <3>1, <1>6
    <3>2. CASE x \in Rows
      <4>1. x.endpoint # e
        BY <3>2, <2>1
      <4>2. x.attempt = attempts[x.endpoint]
        BY <3>2 DEF IInv, FinalAnswerIsLast, Rows
      <4> QED
        BY <3>2, <4>1, <4>2, <1>7, <1>8
    <3> QED
      BY <3>1, <3>2
  <2> QED
    BY <2>2, <2>3
<1>13. NothingLost'
  <2> SUFFICES ASSUME ~broken, NEW f \in targets, NEW n \in 1..attempts'[f]
               PROVE  \E x \in inserted \cup batch' \cup pending' : x.endpoint = f /\ x.attempt = n
    BY <1>3 DEF NothingLost
  <2>1. CASE f = e /\ n = attempts[e] + 1
    BY <2>1, <1>5, <1>6
  <2>2. CASE ~(f = e /\ n = attempts[e] + 1)
    <3>1. f \in Endpoint
      BY DEF IInv, TypeOK
    <3>2. n \in 1..attempts[f]
      BY <2>2, <3>1, <1>6, <1>7
    <3>3. \E x \in inserted \cup batch \cup pending : x.endpoint = f /\ x.attempt = n
      BY <3>2, <1>2 DEF IInv, NothingLost
    <3> QED
      BY <3>3, <1>5
  <2> QED
    BY <2>1, <2>2
<1>14. Pinned'
  BY <1>2, <1>3, <1>6, <1>7 DEF IInv, Pinned
<1>15. NoOrphanRows' /\ CommittedIsComplete' /\ EveryTargetTried' /\ OnlyCheckedAddress'
  BY <1>2, <1>3 DEF IInv, NoOrphanRows, CommittedIsComplete, EveryTargetTried, OnlyCheckedAddress
<1> QED
  BY <1>9, <1>10, <1>11, <1>12, <1>13, <1>14, <1>15 DEF IInv

\* The next attempt goes where the last one went.
LEMMA WakeIInv == ASSUME IInv, NEW e \in Endpoint, Wake(e) PROVE IInv'
<1>1. /\ dispatch = "running" /\ co[e] = "backoff" /\ e \in targets /\ flushing # e
      /\ attempts[e] < MaxAttempts /\ attempts[e] > 0 /\ pinned[e] # "none"
  BY DispatchAssumption DEF Wake, IInv, Coroutines, OneFlush, Pinned
<1>2. /\ co' = [co EXCEPT ![e] = IF broken THEN "abandoned" ELSE "posting"]
      /\ contacted' = [contacted EXCEPT ![e] = IF broken THEN @ ELSE @ \cup {pinned[e]}]
      /\ UNCHANGED <<endpoint, deliveries, edits, dispatch, targets, pinned, attempts, answer,
                     flushing, batch, pending, inserted, broken>>
  BY DEF Wake, Target, session
<1>3. Rows' = Rows
  BY <1>2 DEF Rows
<1>4. \A f \in Endpoint : co'[f] # co[f] => f = e /\ co'[f] \in {"abandoned", "posting"}
  BY <1>2 DEF IInv, TypeOK
<1>5. TypeOK'
  <2>1. co' \in [Endpoint -> {"idle", "posting", "flushing", "backoff", "returned", "abandoned"}]
    BY <1>2 DEF IInv, TypeOK
  <2>2. contacted' \in [Endpoint -> SUBSET Address]
    BY <1>1, <1>2 DEF IInv, TypeOK
  <2> QED
    BY <1>2, <2>1, <2>2 DEF IInv, TypeOK
<1>6. NotBegun' /\ Coroutines' /\ OneFlush'
  <2>1. NotBegun' /\ OneFlush'
    BY <1>1, <1>2, <1>3 DEF IInv, TypeOK, NotBegun, OneFlush
  <2>2. Coroutines'
    BY <1>1, <1>2, <1>4 DEF IInv, Coroutines
  <2> QED
    BY <2>1, <2>2
<1>7. RowsTell' /\ FinalAnswerIsLast'
  <2>1. \A x \in Rows : x.endpoint \in Endpoint
    BY DEF Rows, IInv, TypeOK, Delivery
  <2>2. RowsTell'
    BY <1>1, <1>2, <1>3, <1>4, <2>1 DEF IInv, RowsTell
  <2>3. FinalAnswerIsLast'
    BY <1>2 DEF IInv, FinalAnswerIsLast
  <2> QED
    BY <2>2, <2>3
<1>8. NothingLost' /\ Pinned'
  <2>1. NothingLost'
    BY <1>2 DEF IInv, NothingLost
  <2>2. Pinned'
    BY <1>1, <1>2, <1>4 DEF IInv, Pinned
  <2> QED
    BY <2>1, <2>2
<1>9. OnlyCheckedAddress'
  BY <1>2 DEF IInv, TypeOK, Pinned, OnlyCheckedAddress
<1>10. NoOrphanRows' /\ CommittedIsComplete' /\ EveryTargetTried'
  BY <1>2 DEF IInv, NoOrphanRows, CommittedIsComplete, EveryTargetTried
<1> QED
  BY <1>5, <1>6, <1>7, <1>8, <1>9, <1>10 DEF IInv

\* A flush ends with its rows inserted, or with the session emptied by the rollback.
LEMMA FlushEndsIInv == ASSUME IInv, NEW e \in Endpoint, FlushEnds(e) PROVE IInv'
<1>1. /\ dispatch = "running" /\ flushing = e /\ co[e] = "flushing" /\ e \in targets /\ attempts[e] > 0
      /\ flushing' = Nobody /\ batch' = {}
      /\ UNCHANGED <<endpoint, deliveries, edits, dispatch, targets, pinned, contacted, attempts, answer>>
  BY DispatchAssumption DEF FlushEnds, aim, IInv, Coroutines, OneFlush
<1>2. \/ /\ Insertable(batch) /\ inserted' = inserted \cup batch /\ UNCHANGED <<broken, pending>>
         /\ co' = [co EXCEPT ![e] = IF Retries(e) THEN "backoff" ELSE "returned"]
      \/ /\ inserted' = {} /\ pending' = {} /\ broken' = TRUE
         /\ co' = [co EXCEPT ![e] = "abandoned"]
  BY DEF FlushEnds
<1>3. Rows' \subseteq Rows
  BY <1>1, <1>2 DEF Rows
<1>4. \A f \in Endpoint : co'[f] # co[f] =>
          f = e /\ (co'[f] \in {"abandoned", "returned"} \/ (co'[f] = "backoff" /\ Retries(e)))
  BY <1>1, <1>2 DEF IInv, TypeOK
<1>5. TypeOK'
  <2>1. co' \in [Endpoint -> {"idle", "posting", "flushing", "backoff", "returned", "abandoned"}]
    BY <1>2 DEF IInv, TypeOK
  <2>2. inserted' \subseteq Delivery /\ pending' \subseteq Delivery /\ broken' \in BOOLEAN
    BY <1>2 DEF IInv, TypeOK
  <2> QED
    BY <1>1, <2>1, <2>2 DEF IInv, TypeOK
<1>6. NotBegun' /\ OneFlush' /\ Coroutines'
  <2>1. NotBegun' /\ OneFlush'
    BY <1>1 DEF NotBegun, OneFlush
  <2>2. Coroutines'
    BY <1>1, <1>4 DEF IInv, Coroutines, Retries
  <2> QED
    BY <2>1, <2>2
<1>7. RowsTell'
  <2> SUFFICES ASSUME NEW x \in Rows
               PROVE  /\ x.attempt <= attempts[x.endpoint]
                      /\ x.attempt = attempts[x.endpoint] => x.answer = answer[x.endpoint]
                      /\ co'[x.endpoint] \in {"posting", "backoff"} => x.answer = "retry"
    BY <1>1, <1>3 DEF RowsTell
  <2>1. x.endpoint \in Endpoint
    BY DEF Rows, IInv, TypeOK, Delivery
  <2>2. /\ x.attempt <= attempts[x.endpoint]
        /\ x.attempt = attempts[x.endpoint] => x.answer = answer[x.endpoint]
        /\ co[x.endpoint] \in {"posting", "backoff"} => x.answer = "retry"
    BY DEF IInv, RowsTell
  <2>3. x.answer # "retry" => x.attempt = attempts[x.endpoint]
    BY DEF Rows, IInv, FinalAnswerIsLast
  <2> QED
    BY <2>1, <2>2, <2>3, <1>4 DEF Retries
<1>8. FinalAnswerIsLast'
  BY <1>1, <1>3 DEF Rows, IInv, FinalAnswerIsLast
<1>9. NothingLost'
  BY <1>1, <1>2 DEF IInv, NothingLost
<1>10. Pinned'
  BY <1>1, <1>4 DEF IInv, Pinned, Retries
<1>11. NoOrphanRows'
  BY <1>1, <1>2 DEF IInv, NoOrphanRows, Insertable
<1>12. CommittedIsComplete' /\ EveryTargetTried' /\ OnlyCheckedAddress'
  BY <1>1 DEF IInv, CommittedIsComplete, EveryTargetTried, OnlyCheckedAddress
<1> QED
  BY <1>5, <1>6, <1>7, <1>8, <1>9, <1>10, <1>11, <1>12 DEF IInv

\* The final commit finds nobody flushing: all that was recorded is inserted or pending.
LEMMA FinishIInv == ASSUME IInv, Finish PROVE IInv'
<1>1. /\ dispatch = "running" /\ Gathered /\ dispatch' \in {"committed", "failed"}
      /\ inserted' = {} /\ pending' = {}
      /\ UNCHANGED <<endpoint, edits, targets, pinned, contacted, co, attempts, answer, flushing, batch, broken>>
  BY DEF Finish, aim
<1>2. \/ /\ ~broken /\ Insertable(inserted \cup pending) /\ dispatch' = "committed"
         /\ deliveries' = deliveries \cup inserted \cup pending
      \/ dispatch' = "failed" /\ deliveries' = deliveries
  BY DEF Finish, CommitWrites
<1>3. flushing = Nobody /\ batch = {}
  BY <1>1 DEF Gathered, IInv, TypeOK, Coroutines, OneFlush
<1>4. Rows' \subseteq Rows
  BY <1>1, <1>2 DEF Rows
<1>5. TypeOK'
  <2>1. deliveries' \subseteq Delivery
    BY <1>2 DEF IInv, TypeOK
  <2> QED
    BY <1>1, <2>1 DEF IInv, TypeOK, Ended
<1>6. NotBegun' /\ OneFlush' /\ Coroutines' /\ NothingLost' /\ Pinned'
  BY <1>1, <1>3 DEF IInv, NotBegun, OneFlush, Coroutines, NothingLost, Pinned
<1>7. RowsTell' /\ FinalAnswerIsLast'
  BY <1>1, <1>4 DEF Rows, IInv, RowsTell, FinalAnswerIsLast
<1>8. NoOrphanRows'
  BY <1>1, <1>2 DEF IInv, NoOrphanRows, Insertable
<1>9. CommittedIsComplete'
  <2> SUFFICES ASSUME dispatch' = "committed", NEW e \in targets, NEW n \in 1..attempts[e]
               PROVE  \E row \in deliveries' : row.endpoint = e /\ row.attempt = n
    BY <1>1 DEF CommittedIsComplete
  <2>1. \E row \in inserted \cup batch \cup pending : row.endpoint = e /\ row.attempt = n
    BY <1>1, <1>2 DEF IInv, NothingLost
  <2> QED
    BY <2>1, <1>2, <1>3
<1>10. EveryTargetTried'
  BY <1>1 DEF IInv, TypeOK, Gathered, Coroutines, EveryTargetTried
<1>11. OnlyCheckedAddress'
  BY <1>1 DEF IInv, OnlyCheckedAddress
<1> QED
  BY <1>5, <1>6, <1>7, <1>8, <1>9, <1>10, <1>11 DEF IInv

LEMMA CrashIInv == ASSUME IInv, Crash PROVE IInv'
<1>1. /\ dispatch' = "crashed" /\ flushing' = Nobody /\ batch' = {} /\ pending' = {} /\ inserted' = {}
      /\ UNCHANGED <<endpoint, deliveries, edits, targets, pinned, contacted, co, attempts, answer, broken>>
  BY DEF Crash, aim
<1>2. Rows' \subseteq Rows
  BY <1>1 DEF Rows
<1>3. TypeOK' /\ NotBegun' /\ OneFlush' /\ Coroutines' /\ NothingLost' /\ Pinned'
  BY <1>1 DEF IInv, TypeOK, Ended, NotBegun, OneFlush, Coroutines, NothingLost, Pinned
<1>4. RowsTell' /\ FinalAnswerIsLast'
  BY <1>1, <1>2 DEF Rows, IInv, RowsTell, FinalAnswerIsLast
<1>5. NoOrphanRows' /\ CommittedIsComplete' /\ EveryTargetTried' /\ OnlyCheckedAddress'
  BY <1>1 DEF IInv, NoOrphanRows, CommittedIsComplete, EveryTargetTried, OnlyCheckedAddress
<1> QED
  BY <1>3, <1>4, <1>5 DEF IInv

\* The operator's requests touch the endpoints, and with one its deliveries.
LEMMA OperatorIInv ==
    ASSUME IInv, NEW e \in Endpoint, Register(e) \/ Toggle(e) \/ DeleteEndpoint(e)
    PROVE  IInv'
<1>1. /\ edits < MaxEdits /\ edits' = edits + 1
      /\ UNCHANGED <<dispatch, targets, pinned, contacted, co, attempts, answer,
                     flushing, batch, pending, inserted, broken>>
  BY DEF Register, Toggle, DeleteEndpoint, aim, session
<1>2. \/ /\ \E to \in {"active", "inactive"} : endpoint' = [endpoint EXCEPT ![e] = to]
         /\ endpoint[e] # "deleted" /\ deliveries' = deliveries
      \/ /\ endpoint' = [endpoint EXCEPT ![e] = "deleted"]
         /\ deliveries' = {row \in deliveries : row.endpoint # e}
         /\ \A row \in inserted : row.endpoint # e
  BY DEF Register, Toggle, DeleteEndpoint, DeleteAllowed
<1>3. Rows' \subseteq Rows
  BY <1>1, <1>2 DEF Rows
<1>4. TypeOK'
  <2>1. endpoint' \in [Endpoint -> {"absent", "active", "inactive", "deleted"}]
    BY <1>2 DEF IInv, TypeOK
  <2>2. deliveries' \subseteq Delivery
    BY <1>2 DEF IInv, TypeOK
  <2>3. edits' \in 0..MaxEdits
    BY <1>1, DispatchAssumption DEF IInv, TypeOK
  <2> QED
    BY <1>1, <2>1, <2>2, <2>3 DEF IInv, TypeOK
<1>5. NotBegun' /\ OneFlush' /\ Coroutines' /\ NothingLost' /\ Pinned'
  BY <1>1, <1>3 DEF IInv, NotBegun, OneFlush, Coroutines, NothingLost, Pinned
<1>6. RowsTell' /\ FinalAnswerIsLast'
  BY <1>1, <1>3 DEF Rows, IInv, RowsTell, FinalAnswerIsLast
<1>7. NoOrphanRows'
  <2>1. \A row \in deliveries \cup inserted : row.endpoint \in Endpoint /\ endpoint[row.endpoint] # "deleted"
    BY DEF IInv, TypeOK, Delivery, NoOrphanRows
  <2> QED
    BY <1>1, <1>2, <2>1 DEF IInv, TypeOK, NoOrphanRows
<1>8. CommittedIsComplete'
  <2> SUFFICES ASSUME dispatch = "committed", NEW f \in targets, endpoint'[f] # "deleted", NEW n \in 1..attempts[f]
               PROVE  \E row \in deliveries' : row.endpoint = f /\ row.attempt = n
    BY <1>1 DEF CommittedIsComplete
  <2>1. f \in Endpoint /\ endpoint[f] # "deleted"
    BY <1>2 DEF IInv, TypeOK
  <2>2. PICK row \in deliveries : row.endpoint = f /\ row.attempt = n
    BY <2>1 DEF IInv, CommittedIsComplete
  <2>3. row \in deliveries'
    BY <1>2, <2>1, <2>2 DEF IInv, TypeOK
  <2> QED
    BY <2>2, <2>3
<1>9. EveryTargetTried' /\ OnlyCheckedAddress'
  BY <1>1 DEF IInv, EveryTargetTried, OnlyCheckedAddress
<1> QED
  BY <1>4, <1>5, <1>6, <1>7, <1>8, <1>9 DEF IInv

LEMMA NextIInv == IInv /\ [Next]_vars => IInv'
<1> SUFFICES ASSUME IInv, [Next]_vars PROVE IInv'
  OBVIOUS
<1>1. CASE Match
  BY <1>1, MatchIInv
<1>2. CASE Finish
  BY <1>2, FinishIInv
<1>3. ASSUME NEW e \in Endpoint, Answered(e) PROVE IInv'
  BY <1>3, AnsweredIInv
<1>4. ASSUME NEW e \in Endpoint, Wake(e) PROVE IInv'
  BY <1>4, WakeIInv
<1>5. ASSUME NEW e \in Endpoint, FlushEnds(e) PROVE IInv'
  BY <1>5, FlushEndsIInv
<1>6. CASE Crash
  BY <1>6, CrashIInv
<1>7. ASSUME NEW e \in Endpoint, Register(e) \/ Toggle(e) \/ DeleteEndpoint(e) PROVE IInv'
  BY <1>7, OperatorIInv
<1>8. CASE UNCHANGED vars
  BY <1>8 DEF vars, IInv, TypeOK, Rows, NotBegun, Coroutines, OneFlush, RowsTell, NothingLost, Pinned,
     NoOrphanRows, FinalAnswerIsLast, CommittedIsComplete, EveryTargetTried, OnlyCheckedAddress
<1> QED
  BY <1>1, <1>2, <1>3, <1>4, <1>5, <1>6, <1>7, <1>8 DEF Next, Dispatcher, Done

LEMMA Invariance == Spec => []IInv
<1> QED
  BY InitIInv, NextIInv, PTL DEF Spec

----------------------------------------------------------------------------------
\* Whatever endpoints the operator registers, switches or deletes while the coroutines
\* of a dispatch share their session, the delivery rows stay typed and have an endpoint.
THEOREM DeliveriesStayConsistent == Spec => []DeliveriesConsistent
<1>1. IInv => DeliveriesConsistent
  BY DEF IInv, DeliveriesConsistent
<1> QED
  BY <1>1, Invariance, PTL

\* A dispatch that commits has recorded every attempt of every endpoint that is left, in
\* spite of the flushes that collided.
THEOREM CommitsAreComplete == Spec => []CommittedIsComplete
<1>1. IInv => CommittedIsComplete
  BY DEF IInv
<1> QED
  BY <1>1, Invariance, PTL

\* No endpoint is left out because of its neighbours.
THEOREM TargetsAreTried == Spec => []EveryTargetTried
<1>1. IInv => EveryTargetTried
  BY DEF IInv
<1> QED
  BY <1>1, Invariance, PTL

\* No attempt follows a success or a rejection.
THEOREM FinalAnswersStayLast == Spec => []FinalAnswerIsLast
<1>1. IInv => FinalAnswerIsLast
  BY DEF IInv
<1> QED
  BY <1>1, Invariance, PTL

\* Retries and names that resolve differently each time never lead to an address the
\* guard has not checked for this dispatch.
THEOREM ContactsAreChecked == Spec => []OnlyCheckedAddress
<1>1. IInv => OnlyCheckedAddress
  BY DEF IInv
<1> QED
  BY <1>1, Invariance, PTL
===================================================================================
