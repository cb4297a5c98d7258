-------------------------- MODULE RtpServers_proofs --------------------------
(***************************************************************************)
(* What holds of the RTP servers for any number of requests and names: a   *)
(* server that was started reports its timeout once, and a request that    *)
(* failed does not keep its name occupied.                                 *)
(*                                                                         *)
(* Both are about entries that are erased by name: the argument follows a  *)
(* server from its one Emplace through the calls of onDetach().            *)
(***************************************************************************)
EXTENDS RtpServers, TLAPS

\* The request has not put its server into the table yet.
Early(s) == pc[s] \in {"new", "starting", "started"}

\* A server is in the table, or is dialled, only after its own request has placed it there, and
\* it has its _on_detach unless that request is between the two.
Placed ==
  /\ \A n \in Names : table[n] # None => NameOf[table[n]] = n
  /\ \A s \in Opens : Listed(s) \/ (\E h \in Opens : dialed[h] = s)
       => ~ Early(s) /\ (pc[s] = "emplaced" \/ s \in wired)

\* A request that is answered is over; one that has died in start() never gets its _on_detach.
Answered ==
  \A h \in Opens :
    /\ reply[h] # "none" => pc[h] = "done"
    /\ h \in wired => pc[h] \in {"wired", "dialing", "failed", "lost", "done"}
    /\ h \in orphans => pc[h] = "done" /\ h \notin wired

\* Calls of onDetach(): of servers that have their callback, or nobody to take them down; the
\* table entry first, the event after it.
Detaching ==
  /\ \A d \in detaches :
       /\ d.of \in wired \cup orphans
       /\ d.step = "tell" => d.cause = "timeout"
  /\ \A d, e \in detaches : d.of = e.of /\ d.cause = "timeout" /\ e.cause = "timeout" => d = e

\* A started server that has reported its timeout, or is about to, is out of the table.
OutByThen ==
  \A s \in Opens \ orphans :
    /\ \A d \in detaches :
         /\ d.of = s /\ d.cause = "timeout" => timeouts[s] = 0
         /\ d.of = s /\ d.step = "tell" => ~ Listed(s)
    /\ timeouts[s] > 0 => ~ Listed(s) /\ ~ Early(s)
    /\ timeouts[s] <= 1

IInv == TypeOK /\ Placed /\ Answered /\ Detaching /\ OutByThen /\ FailureFreesName

----------------------------------------------------------------------------
(* Each part is kept by every step                                         *)

\* Every step keeps the types.
LEMMA TypeKept ==
  ASSUME TypeOK, [Next]_vars
  PROVE  TypeOK'
<1> USE DEF handlerVars, processVars
<1>1. ASSUME NEW h \in Opens, Find(h) PROVE TypeOK'
  BY <1>1, Assumption DEF Find, Answer, Goto, TypeOK
<1>2. ASSUME NEW h \in Opens, StartFails(h) PROVE TypeOK'
  BY <1>2, Assumption DEF StartFails, Answer, TypeOK
<1>3. ASSUME NEW h \in Opens, ListenFails(h) PROVE TypeOK'
  BY <1>3, Assumption DEF ListenFails, Answer, TypeOK
<1>4. ASSUME NEW h \in Opens, Start(h) PROVE TypeOK'
  BY <1>4, Assumption DEF Start, Goto, TypeOK
<1>5. ASSUME NEW h \in Opens, Emplace(h) PROVE TypeOK'
  BY <1>5, Assumption DEF Emplace, Goto, TypeOK
<1>6. ASSUME NEW h \in Opens, SetOnDetach(h) PROVE TypeOK'
  BY <1>6, Assumption DEF SetOnDetach, Goto, TypeOK
<1>7. ASSUME NEW h \in Opens, ReplyPort(h) PROVE TypeOK'
  BY <1>7, Assumption DEF ReplyPort, Answer, TypeOK
<1>8. ASSUME NEW h \in Opens, Dial(h) PROVE TypeOK'
  <2>1. CASE table[NameOf[h]] = None
    BY <1>8, <2>1, Assumption DEF Dial, Answer, TypeOK
  <2>2. CASE table[NameOf[h]] # None
    BY <1>8, <2>2, Assumption DEF Dial, Goto, TypeOK
  <2> QED
    BY <2>1, <2>2
<1>9. ASSUME NEW h \in Opens, NEW ok \in BOOLEAN, Connected(h, ok) PROVE TypeOK'
  BY <1>9, Assumption DEF Connected, Answer, Goto, TypeOK
<1>10. ASSUME NEW h \in Opens, DropFailed(h) PROVE TypeOK'
  BY <1>10, Assumption DEF DropFailed, Erase, Answer, TypeOK
<1>11. ASSUME NEW s \in Opens, TimedOut(s) PROVE TypeOK'
  BY <1>11, Assumption DEF TimedOut, Detach, TypeOK
<1>12. ASSUME NEW s \in Opens, Errs(s) PROVE TypeOK'
  BY <1>12, Assumption DEF Errs, Detach, TypeOK
<1>13. ASSUME NEW s \in Opens, DetachErases(s) PROVE TypeOK'
  BY <1>13, Assumption DEF DetachErases, Erase, TypeOK
<1>14. ASSUME NEW s \in Opens, DetachTells(s) PROVE TypeOK'
  BY <1>14, Assumption DEF DetachTells, TypeOK
<1>15. ASSUME NEW s \in Opens, Feed(s) PROVE TypeOK'
  BY <1>15, Assumption DEF Feed, TypeOK
<1>16. ASSUME NEW s \in Opens, Starve(s) PROVE TypeOK'
  BY <1>16, Assumption DEF Starve, TypeOK
<1>17. ASSUME NEW s \in Opens, Pause(s) PROVE TypeOK'
  BY <1>17, Assumption DEF Pause, TypeOK
<1>18. ASSUME NEW s \in Opens, PauseEnds(s) PROVE TypeOK'
  BY <1>18, Assumption DEF PauseEnds, TypeOK
<1>19. ASSUME NEW n \in Names, Close(n) PROVE TypeOK'
  BY <1>19, Assumption DEF Close, Erase, TypeOK
<1>20. ASSUME UNCHANGED vars PROVE TypeOK'
  BY <1>20 DEF vars, TypeOK
<1> QED
  BY <1>1, <1>2, <1>3, <1>4, <1>5, <1>6, <1>7, <1>8, <1>9, <1>10, <1>11, <1>12, <1>13, <1>14,
     <1>15, <1>16, <1>17, <1>18, <1>19, <1>20 DEF Next, Handler, Ending, Device

\* Only Emplace puts a server into the table, and only its own.
LEMMA PlacedKept ==
  ASSUME TypeOK, Placed, Answered, [Next]_vars
  PROVE  Placed'
<1> USE DEF handlerVars, processVars
<1>1. ASSUME UNCHANGED << table, pc, dialed, wired >> PROVE Placed'
  BY <1>1 DEF TypeOK, Placed, Answered, Early, Listed
<1>2. ASSUME NEW h \in Opens, Find(h) PROVE Placed'
  BY <1>2, Assumption DEF Find, Answer, Goto, TypeOK, Placed, Answered, Early, Listed
<1>3. ASSUME NEW h \in Opens, StartFails(h) PROVE Placed'
  BY <1>3, Assumption DEF StartFails, Answer, TypeOK, Placed, Answered, Early, Listed
<1>4. ASSUME NEW h \in Opens, ListenFails(h) PROVE Placed'
  BY <1>4, Assumption DEF ListenFails, Answer, TypeOK, Placed, Answered, Early, Listed
<1>5. ASSUME NEW h \in Opens, Start(h) PROVE Placed'
  BY <1>5, Assumption DEF Start, Goto, TypeOK, Placed, Answered, Early, Listed
<1>6. ASSUME NEW h \in Opens, Emplace(h) PROVE Placed'
  BY <1>6, Assumption DEF Emplace, Goto, TypeOK, Placed, Answered, Early, Listed
<1>7. ASSUME NEW h \in Opens, SetOnDetach(h) PROVE Placed'
  BY <1>7, Assumption DEF SetOnDetach, Goto, TypeOK, Placed, Answered, Early, Listed
<1>8. ASSUME NEW h \in Opens, ReplyPort(h) PROVE Placed'
  BY <1>8, Assumption DEF ReplyPort, Answer, TypeOK, Placed, Answered, Early, Listed
<1>9. ASSUME NEW h \in Opens, Dial(h) PROVE Placed'
  <2>1. /\ table' = table /\ wired' = wired
        /\ \A s \in Opens : Early(s)' = Early(s) /\ (pc[s] = "emplaced" => pc'[s] = "emplaced")
        /\ \A g \in Opens : dialed'[g] = IF g = h THEN table[NameOf[h]] ELSE dialed[g]
    BY <1>9 DEF Dial, Answer, Goto, TypeOK, Early
  <2>2. table[NameOf[h]] # None => Listed(table[NameOf[h]])
    BY Assumption DEF Placed, Listed
  <2>3. \A s \in Opens : Listed(s)' = Listed(s)
    BY <2>1 DEF Listed
  <2>4. ASSUME NEW s \in Opens, NEW g \in Opens, dialed'[g] = s
        PROVE  Listed(s) \/ \E k \in Opens : dialed[k] = s
    BY <2>1, <2>2, <2>4, Assumption
  <2> QED
    BY <2>1, <2>3, <2>4 DEF Placed
<1>10. ASSUME NEW h \in Opens, NEW ok \in BOOLEAN, Connected(h, ok) PROVE Placed'
  BY <1>10, Assumption DEF Connected, Answer, Goto, TypeOK, Placed, Answered, Early, Listed
<1>11. ASSUME NEW h \in Opens, DropFailed(h) PROVE Placed'
  BY <1>11, Assumption DEF DropFailed, Erase, Answer, TypeOK, Placed, Answered, Early, Listed
<1>12. ASSUME NEW s \in Opens, DetachErases(s) PROVE Placed'
  BY <1>12, Assumption DEF DetachErases, Erase, TypeOK, Placed, Answered, Early, Listed
<1>13. ASSUME NEW n \in Names, Close(n) PROVE Placed'
  BY <1>13, Assumption DEF Close, Erase, TypeOK, Placed, Answered, Early, Listed
<1> QED
  BY <1>1, <1>2, <1>3, <1>4, <1>5, <1>6, <1>7, <1>8, <1>9, <1>10, <1>11, <1>12, <1>13 DEF Next,
     Handler, Ending, Device, vars, TimedOut, Errs, DetachTells, Feed, Starve, Pause, PauseEnds

\* No request is answered before its end.
LEMMA AnsweredKept ==
  ASSUME TypeOK, Answered, [Next]_vars
  PROVE  Answered'
<1> USE DEF handlerVars, processVars
<1>1. ASSUME UNCHANGED << pc, reply, wired, orphans >> PROVE Answered'
  BY <1>1 DEF TypeOK, Answered
<1>2. ASSUME NEW h \in Opens, Find(h) PROVE Answered'
  BY <1>2, Assumption DEF Find, Answer, Goto, TypeOK, Answered
<1>3. ASSUME NEW h \in Opens, StartFails(h) PROVE Answered'
  BY <1>3, Assumption DEF StartFails, Answer, TypeOK, Answered
<1>4. ASSUME NEW h \in Opens, ListenFails(h) PROVE Answered'
  BY <1>4, Assumption DEF ListenFails, Answer, TypeOK, Answered
<1>5. ASSUME NEW h \in Opens, Start(h) PROVE Answered'
  BY <1>5, Assumption DEF Start, Goto, TypeOK, Answered
<1>6. ASSUME NEW h \in Opens, Emplace(h) PROVE Answered'
  BY <1>6, Assumption DEF Emplace, Goto, TypeOK, Answered
<1>7. ASSUME NEW h \in Opens, SetOnDetach(h) PROVE Answered'
  BY <1>7, Assumption DEF SetOnDetach, Goto, TypeOK, Answered
<1>8. ASSUME NEW h \in Opens, ReplyPort(h) PROVE Answered'
  BY <1>8, Assumption DEF ReplyPort, Answer, TypeOK, Answered
<1>9. ASSUME NEW h \in Opens, Dial(h) PROVE Answered'
  BY <1>9, Assumption DEF Dial, Answer, Goto, TypeOK, Answered
<1>10. ASSUME NEW h \in Opens, NEW ok \in BOOLEAN, Connected(h, ok) PROVE Answered'
  BY <1>10, Assumption DEF Connected, Answer, Goto, TypeOK, Answered
<1>11. ASSUME NEW h \in Opens, DropFailed(h) PROVE Answered'
  BY <1>11, Assumption DEF DropFailed, Erase, Answer, TypeOK, Answered
<1> QED
  BY <1>1, <1>2, <1>3, <1>4, <1>5, <1>6, <1>7, <1>8, <1>9, <1>10, <1>11 DEF Next, Handler, Ending,
     Device, vars, TimedOut, Errs, DetachErases, DetachTells, Feed, Starve, Pause, PauseEnds,
     Close

\* A server that can time out, or err, has its callback.
LEMMA DetachingKept ==
  ASSUME TypeOK, Placed, Answered, Detaching, [Next]_vars
  PROVE  Detaching'
<1> USE DEF handlerVars, processVars
<1>1. ASSUME UNCHANGED << detaches, wired, orphans >> PROVE Detaching'
  BY <1>1 DEF TypeOK, Placed, Answered, Detaching, Early, Listed
<1>2. ASSUME NEW h \in Opens, ListenFails(h) PROVE Detaching'
  BY <1>2, Assumption DEF ListenFails, Answer, TypeOK, Placed, Answered, Detaching, Early, Listed
<1>3. ASSUME NEW h \in Opens, SetOnDetach(h) PROVE Detaching'
  BY <1>3, Assumption DEF SetOnDetach, Goto, TypeOK, Placed, Answered, Detaching, Early, Listed
<1>4. ASSUME NEW s \in Opens, TimedOut(s) PROVE Detaching'
  BY <1>4, Assumption DEF TimedOut, ProcessLives, Alive, Held, Detach, TypeOK, Placed, Answered,
     Detaching, Early, Listed
<1>5. ASSUME NEW s \in Opens, Errs(s) PROVE Detaching'
  BY <1>5, Assumption DEF Errs, ProcessLives, Alive, Held, Detach, TypeOK, Placed, Answered,
     Detaching, Early, Listed
<1>6. ASSUME NEW s \in Opens, DetachErases(s) PROVE Detaching'
  BY <1>6, Assumption DEF DetachErases, Erase, TypeOK, Placed, Answered, Detaching, Early, Listed
<1>7. ASSUME NEW s \in Opens, DetachTells(s) PROVE Detaching'
  BY <1>7, Assumption DEF DetachTells, TypeOK, Placed, Answered, Detaching, Early, Listed
<1> QED
  BY <1>1, <1>2, <1>3, <1>4, <1>5, <1>6, <1>7 DEF Next, Handler, Ending, Device, vars, Find,
     StartFails, Start, Emplace, ReplyPort, Dial, Connected, DropFailed, Feed, Starve, Pause,
     PauseEnds, Close

\* What a started server reports comes after its entry is gone, and the entry does not come back.
LEMMA OutKept ==
  ASSUME TypeOK, Placed, Answered, Detaching, OutByThen, [Next]_vars
  PROVE  OutByThen'
<1> USE DEF handlerVars, processVars
<1>1. ASSUME UNCHANGED << table, pc, detaches, orphans, timeouts >> PROVE OutByThen'
  BY <1>1 DEF TypeOK, Placed, Answered, Detaching, OutByThen, Early, Listed
<1>2. ASSUME NEW h \in Opens, Find(h) PROVE OutByThen'
  BY <1>2, Assumption DEF Find, Answer, Goto, TypeOK, Placed, Answered, Detaching, OutByThen,
     Early, Listed
<1>3. ASSUME NEW h \in Opens, StartFails(h) PROVE OutByThen'
  BY <1>3, Assumption DEF StartFails, Answer, TypeOK, Placed, Answered, Detaching, OutByThen,
     Early, Listed
<1>4. ASSUME NEW h \in Opens, ListenFails(h) PROVE OutByThen'
  BY <1>4, Assumption DEF ListenFails, Answer, TypeOK, Placed, Answered, Detaching, OutByThen,
     Early, Listed
<1>5. ASSUME NEW h \in Opens, Start(h) PROVE OutByThen'
  BY <1>5, Assumption DEF Start, Goto, TypeOK, Placed, Answered, Detaching, OutByThen, Early,
     Listed
<1>6. ASSUME NEW h \in Opens, Emplace(h) PROVE OutByThen'
  BY <1>6, Assumption DEF Emplace, Goto, TypeOK, Placed, Answered, Detaching, OutByThen, Early,
     Listed
<1>7. ASSUME NEW h \in Opens, SetOnDetach(h) PROVE OutByThen'
  BY <1>7, Assumption DEF SetOnDetach, Goto, TypeOK, Placed, Answered, Detaching, OutByThen,
     Early, Listed
<1>8. ASSUME NEW h \in Opens, ReplyPort(h) PROVE OutByThen'
  BY <1>8, Assumption DEF ReplyPort, Answer, TypeOK, Placed, Answered, Detaching, OutByThen,
     Early, Listed
<1>9. ASSUME NEW h \in Opens, Dial(h) PROVE OutByThen'
  BY <1>9, Assumption DEF Dial, Answer, Goto, TypeOK, Placed, Answered, Detaching, OutByThen,
     Early, Listed
<1>10. ASSUME NEW h \in Opens, NEW ok \in BOOLEAN, Connected(h, ok) PROVE OutByThen'
  BY <1>10, Assumption DEF Connected, Answer, Goto, TypeOK, Placed, Answered, Detaching,
     OutByThen, Early, Listed
<1>11. ASSUME NEW h \in Opens, DropFailed(h) PROVE OutByThen'
  BY <1>11, Assumption DEF DropFailed, Erase, Answer, TypeOK, Placed, Answered, Detaching,
     OutByThen, Early, Listed
<1>12. ASSUME NEW s \in Opens, TimedOut(s) PROVE OutByThen'
  BY <1>12, Assumption DEF TimedOut, ProcessLives, Alive, Held, Detach, TypeOK, Placed, Answered,
     Detaching, OutByThen, Early, Listed
<1>13. ASSUME NEW s \in Opens, Errs(s) PROVE OutByThen'
  BY <1>13, Assumption DEF Errs, ProcessLives, Alive, Held, Detach, TypeOK, Placed, Answered,
     Detaching, OutByThen, Early, Listed
<1>14. ASSUME NEW s \in Opens, DetachErases(s) PROVE OutByThen'
  BY <1>14, Assumption DEF DetachErases, Erase, TypeOK, Placed, Answered, Detaching, OutByThen,
     Early, Listed
<1>15. ASSUME NEW s \in Opens, DetachTells(s) PROVE OutByThen'
  BY <1>15, Assumption DEF DetachTells, TypeOK, Placed, Answered, Detaching, OutByThen, Early,
     Listed
<1>16. ASSUME NEW n \in Names, Close(n) PROVE OutByThen'
  BY <1>16, Assumption DEF Close, Erase, TypeOK, Placed, Answered, Detaching, OutByThen, Early,
     Listed
<1> QED
  BY <1>1, <1>2, <1>3, <1>4, <1>5, <1>6, <1>7, <1>8, <1>9, <1>10, <1>11, <1>12, <1>13, <1>14,
     <1>15, <1>16 DEF Next, Handler, Ending, Device, vars, Feed, Starve, Pause, PauseEnds

\* A failure is replied when the entry is away.
LEMMA NameKept ==
  ASSUME TypeOK, Placed, Answered, FailureFreesName, [Next]_vars
  PROVE  FailureFreesName'
<1> USE DEF handlerVars, processVars
<1>1. ASSUME UNCHANGED << table, pc, reply >> PROVE FailureFreesName'
  BY <1>1 DEF TypeOK, Placed, Answered, FailureFreesName, Early, Listed
<1>2. ASSUME NEW h \in Opens, Find(h) PROVE FailureFreesName'
  BY <1>2, Assumption DEF Find, Answer, Goto, TypeOK, Placed, Answered, FailureFreesName, Early,
     Listed
<1>3. ASSUME NEW h \in Opens, StartFails(h) PROVE FailureFreesName'
  BY <1>3, Assumption DEF StartFails, Answer, TypeOK, Placed, Answered, FailureFreesName, Early,
     Listed
<1>4. ASSUME NEW h \in Opens, ListenFails(h) PROVE FailureFreesName'
  BY <1>4, Assumption DEF ListenFails, Answer, TypeOK, Placed, Answered, FailureFreesName, Early,
     Listed
<1>5. ASSUME NEW h \in Opens, Start(h) PROVE FailureFreesName'
  BY <1>5, Assumption DEF Start, Goto, TypeOK, Placed, Answered, FailureFreesName, Early, Listed
<1>6. ASSUME NEW h \in Opens, Emplace(h) PROVE FailureFreesName'
  BY <1>6, Assumption DEF Emplace, Goto, TypeOK, Placed, Answered, FailureFreesName, Early, Listed
<1>7. ASSUME NEW h \in Opens, SetOnDetach(h) PROVE FailureFreesName'
  BY <1>7, Assumption DEF SetOnDetach, Goto, TypeOK, Placed, Answered, FailureFreesName, Early,
     Listed
<1>8. ASSUME NEW h \in Opens, ReplyPort(h) PROVE FailureFreesName'
  BY <1>8, Assumption DEF ReplyPort, Answer, TypeOK, Placed, Answered, FailureFreesName, Early,
     Listed
<1>9. ASSUME NEW h \in Opens, Dial(h) PROVE FailureFreesName'
  BY <1>9, Assumption DEF Dial, Answer, Goto, TypeOK, Placed, Answered, FailureFreesName, Early,
     Listed
<1>10. ASSUME NEW h \in Opens, NEW ok \in BOOLEAN, Connected(h, ok) PROVE FailureFreesName'
  BY <1>10, Assumption DEF Connected, Answer, Goto, TypeOK, Placed, Answered, FailureFreesName,
     Early, Listed
<1>11. ASSUME NEW h \in Opens, DropFailed(h) PROVE FailureFreesName'
  <2>1. /\ table' = [table EXCEPT ![NameOf[h]] = None]
        /\ reply' = [reply EXCEPT ![h] = "error"]
    BY <1>11 DEF DropFailed, Erase, Answer
  <2>2. ~ Listed(h)'
    BY <2>1, Assumption DEF TypeOK, Listed
  <2>3. \A s \in Opens \ {h} : reply'[s] = reply[s] /\ (Listed(s)' => Listed(s))
    BY <2>1, Assumption DEF TypeOK, Listed
  <2> QED
    BY <2>2, <2>3 DEF FailureFreesName
<1>12. ASSUME NEW s \in Opens, DetachErases(s) PROVE FailureFreesName'
  BY <1>12, Assumption DEF DetachErases, Erase, TypeOK, Placed, Answered, FailureFreesName, Early,
     Listed
<1>13. ASSUME NEW n \in Names, Close(n) PROVE FailureFreesName'
  BY <1>13, Assumption DEF Close, Erase, TypeOK, Placed, Answered, FailureFreesName, Early, Listed
<1> QED
  BY <1>1, <1>2, <1>3, <1>4, <1>5, <1>6, <1>7, <1>8, <1>9, <1>10, <1>11, <1>12, <1>13 DEF Next,
     Handler, Ending, Device, vars, TimedOut, Errs, DetachTells, Feed, Starve, Pause, PauseEnds

----------------------------------------------------------------------------
LEMMA Initially == Init => IInv
  BY Assumption DEF Init, IInv, TypeOK, Placed, Answered, Detaching, OutByThen, FailureFreesName,
     Early, Listed

\* The invariant holds in every state, whatever the servers, their modes and the order of
\* requests, closes, errors, timeouts and connect results.
THEOREM Invariant == Spec => []IInv
<1>1. IInv /\ [Next]_vars => IInv'
  BY TypeKept, PlacedKept, AnsweredKept, DetachingKept, OutKept, NameKept DEF IInv
<1> QED
  BY <1>1, Initially, PTL DEF Spec

----------------------------------------------------------------------------
(* Theorems                                                                *)

\* Every variable of the RTP server interface has its type.
THEOREM ServerTyping == Spec => []TypeOK
<1>1. IInv => TypeOK
  BY DEF IInv
<1> QED
  BY <1>1, Invariant, PTL

\* However the watchdog, an error, closeRtpServer and a new openRtpServer of the same name
\* race, a server that was started reports on_rtp_server_timeout at most once.
THEOREM TimesOutOnce == Spec => []StartedTimesOutOnce
<1>1. IInv => StartedTimesOutOnce
  BY DEF IInv, OutByThen, StartedTimesOutOnce
<1> QED
  BY <1>1, Invariant, PTL

\* An openRtpServer request that was answered with an error has left no server of its own in
\* the table, and none gets there later.
THEOREM FailedIsFree == Spec => []FailureFreesName
<1>1. IInv => FailureFreesName
  BY DEF IInv
<1> QED
  BY <1>1, Invariant, PTL
=============================================================================
