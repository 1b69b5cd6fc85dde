------------------------- MODULE SenderServiceProofs -------------------------
(***************************************************************************)
(* Proofs about SenderService, for any number of receivers and of starts   *)
(* of the service in one process: the session count and the mDNS flag of   *)
(* the diagnostic line, and the list onDestroy stops the sessions of.      *)
(***************************************************************************)
EXTENDS SenderService, FiniteSetTheorems, SequenceTheorems, TLAPS

(* The accept loop holds a connection it has not started a thread for. *)
Holding == {"count", "snapshot", "notify", "add", "spawn"}

(* What an accept loop holds is its own, accepted, and has no thread yet;   *)
(* before it starts one it has listed it, unless onDestroy has begun.       *)
HeldInv ==
    \A i \in Instances :
        /\ acceptPc[i] \in Holding <=> client[i] # NoConn
        /\ client[i] # NoConn =>
              /\ conn[client[i]] = "accepted" /\ owner[client[i]] = i
              /\ sessPc[client[i]] = "none"
        /\ acceptPc[i] = "spawn" /\ mainPc = "up" /\ i = inst => client[i] \in sessions[i]

(* Only an instance that was created has a listener, an accept loop or a    *)
(* registration.                                                            *)
FreshInv ==
    \A i \in Instances : i > inst => server[i] = "none" /\ acceptPc[i] = "none" /\ nsd[i] = "none"

(* A connection belongs to an instance that was created, and has a thread   *)
(* only once it was accepted.                                               *)
ConnInv ==
    \A c \in Conns :
        /\ conn[c] = "unborn" <=> owner[c] = 0
        /\ owner[c] <= inst
        /\ sessPc[c] # "none" => conn[c] = "accepted"

(* A listed connection without a thread is just about to get one. *)
ListInv ==
    /\ SessionsTracked
    /\ \A i \in Instances : \A c \in sessions[i] :
          sessPc[c] = "none" => client[i] = c /\ acceptPc[i] = "spawn"

CountInv ==
    /\ NoPhantomSession /\ CountExact
    /\ inst = 0 => count = 0

(* The last word of NsdManager, said or still queued, is true. *)
MdnsInv ==
    (IF nsdQ = <<>> THEN mdnsRegistered ELSE nsdQ[Len(nsdQ)] = "registered")
        => \E i \in Instances : nsd[i] = "registered"

SInv == TypeOK /\ HeldInv /\ FreshInv /\ ConnInv /\ ListInv /\ CountInv /\ MdnsInv

-----------------------------------------------------------------------------
(* What the diagnostic line and the lists say of a service not yet created. *)
LEMMA InitInv == Init => SInv
<1> SUFFICES ASSUME Init PROVE SInv
  OBVIOUS
<1>1. TypeOK
  <2>1. nsdQ \in Seq({"registered", "failed", "unregistered"})
    BY EmptySeq DEF Init
  <2>2. notif \in Nat \cup {-1}
    BY DEF Init
  <2>3. /\ acceptLoopAlive \in [Instances -> BOOLEAN] /\ open \in [Conns -> BOOLEAN]
        /\ mdnsRegistered \in BOOLEAN /\ crashed \in BOOLEAN
    BY DEF Init
  <2>4. inst \in 0 .. MaxInst /\ owner \in [Conns -> 0 .. MaxInst]
    BY ServiceAssumption DEF Init
  <2> QED
    BY <2>1, <2>2, <2>3, <2>4 DEF Init, TypeOK
<1>2. HeldInv /\ FreshInv /\ ConnInv /\ ListInv /\ MdnsInv
  BY ServiceAssumption DEF Init, HeldInv, Holding, FreshInv, ConnInv, ListInv,
     SessionsTracked, MdnsInv, Instances
<1>3. Counted = {}
  BY ServiceAssumption DEF Init, Counted, Accepting
<1>4. CountInv
  BY <1>3, FS_EmptySet DEF Init, CountInv, NoPhantomSession, CountExact
<1> QED
  BY <1>1, <1>2, <1>4 DEF SInv

(* Every step keeps the types. *)
LEMMA TypeStep == SInv /\ [Next]_vars => TypeOK'
<1> SUFFICES ASSUME SInv, [Next]_vars PROVE TypeOK'
  OBVIOUS
<1> USE ServiceAssumption DEF SInv, Instances
<1>1. CASE OnCreate
  <2>1. inst + 1 \in 1 .. MaxInst /\ inst' = inst + 1
    BY <1>1 DEF OnCreate, TypeOK
  <2>2. notif' \in Nat \cup {-1}
    BY <1>1 DEF OnCreate
  <2>3. server' \in [Instances -> {"none", "open", "closed"}]
    BY <1>1 DEF OnCreate, TypeOK
  <2>4. nsd' \in [Instances -> {"none", "pending", "registered"}]
    <3>1. nsd' = nsd \/ nsd' = [nsd EXCEPT ![inst + 1] = "pending"]
      BY <1>1 DEF OnCreate
    <3>2. nsd \in [Instances -> {"none", "pending", "registered"}]
      BY DEF TypeOK
    <3> QED
      BY <3>1, <3>2
  <2>5. acceptPc' \in [Instances -> {"none", "loop", "accept", "count", "snapshot", "notify",
                                     "add", "spawn", "ended"}]
    BY <1>1 DEF OnCreate, TypeOK
  <2> QED
    BY <1>1, <2>1, <2>2, <2>3, <2>4, <2>5 DEF OnCreate, TypeOK, connVars
<1>2. CASE DestroyFlag
  <2>1. nsdQ' \in Seq({"registered", "failed", "unregistered"})
    <3>1. nsdQ' = nsdQ \/ nsdQ' = Append(nsdQ, "unregistered")
      BY <1>2 DEF DestroyFlag
    <3>2. nsdQ \in Seq({"registered", "failed", "unregistered"})
      BY DEF TypeOK
    <3> QED
      BY <3>1, <3>2
  <2>2. nsd' \in [Instances -> {"none", "pending", "registered"}]
    BY <1>2 DEF DestroyFlag, TypeOK
  <2> QED
    BY <1>2, <2>1, <2>2 DEF DestroyFlag, TypeOK, connVars
<1>3. CASE DestroyClose
  BY <1>3 DEF DestroyClose, nsdVars, TypeOK
<1>4. CASE DestroyStop
  BY <1>4 DEF DestroyStop, loopVars, nsdVars, TypeOK
<1>5. CASE DestroyClear
  BY <1>5 DEF DestroyClear, connVars, nsdVars, TypeOK
<1>6. CASE DestroyReset
  BY <1>6 DEF DestroyReset, loopVars, connVars, TypeOK
<1>7. CASE OnServiceRegistered
  <2>1. nsdQ' \in Seq({"registered", "failed", "unregistered"})
    BY <1>7, HeadTailProperties DEF OnServiceRegistered, TypeOK
  <2> QED
    BY <1>7, <2>1 DEF OnServiceRegistered, TypeOK, mainVars, loopVars, connVars
<1>8. CASE OnRegistrationFailed
  <2>1. nsdQ' \in Seq({"registered", "failed", "unregistered"})
    BY <1>8, HeadTailProperties DEF OnRegistrationFailed, TypeOK
  <2>2. notif' \in Nat \cup {-1}
    BY <1>8 DEF OnRegistrationFailed
  <2> QED
    BY <1>8, <2>1, <2>2 DEF OnRegistrationFailed, TypeOK, mainVars, loopVars, connVars
<1>9. CASE OnServiceUnregistered
  <2>1. nsdQ' \in Seq({"registered", "failed", "unregistered"})
    BY <1>9, HeadTailProperties DEF OnServiceUnregistered, TypeOK
  <2> QED
    BY <1>9, <2>1 DEF OnServiceUnregistered, TypeOK, mainVars, loopVars, connVars
<1>10. ASSUME NEW i \in Instances, ALoop(i) PROVE TypeOK'
  BY <1>10 DEF ALoop, AGoto, mainVars, connVars, nsdVars, TypeOK
<1>11. ASSUME NEW i \in Instances, AAccept(i) PROVE TypeOK'
  BY <1>11 DEF AAccept, AGoto, mainVars, nsdVars, TypeOK
<1>12. ASSUME NEW i \in Instances, AClosed(i) PROVE TypeOK'
  BY <1>12 DEF AClosed, AGoto, mainVars, connVars, nsdVars, TypeOK
<1>13. ASSUME NEW i \in Instances, AFails(i) PROVE TypeOK'
  BY <1>13 DEF AFails, AGoto, mainVars, connVars, nsdVars, TypeOK
<1>14. ASSUME NEW i \in Instances, ACount(i) PROVE TypeOK'
  BY <1>14 DEF ACount, AGoto, mainVars, connVars, nsdVars, TypeOK
<1>15. ASSUME NEW i \in Instances, ASnapshot(i) PROVE TypeOK'
  BY <1>15 DEF ASnapshot, AGoto, mainVars, connVars, nsdVars, TypeOK
<1>16. ASSUME NEW i \in Instances, ANotify(i) PROVE TypeOK'
  BY <1>16 DEF ANotify, AGoto, mainVars, connVars, nsdVars, TypeOK
<1>17. ASSUME NEW i \in Instances, AAdd(i) PROVE TypeOK'
  <2>1. client[i] \in Conns
    BY <1>17 DEF AAdd, TypeOK, HeldInv, Holding
  <2> QED
    BY <1>17, <2>1 DEF AAdd, AGoto, TypeOK, mainVars, connVars, nsdVars
<1>18. ASSUME NEW i \in Instances, ASpawn(i) PROVE TypeOK'
  BY <1>18 DEF ASpawn, AGoto, mainVars, nsdVars, TypeOK
<1>19. ASSUME NEW i \in Instances, NsdAnswers(i) PROVE TypeOK'
  <2>1. nsdQ' \in Seq({"registered", "failed", "unregistered"})
    <3>1. nsdQ' = nsdQ \/ nsdQ' = Append(nsdQ, "registered") \/ nsdQ' = Append(nsdQ, "failed")
      BY <1>19 DEF NsdAnswers
    <3>2. nsdQ \in Seq({"registered", "failed", "unregistered"})
      BY DEF TypeOK
    <3> QED
      BY <3>1, <3>2
  <2>2. nsd' \in [Instances -> {"none", "pending", "registered"}]
    BY <1>19 DEF NsdAnswers, TypeOK
  <2> QED
    BY <1>19, <2>1, <2>2 DEF NsdAnswers, TypeOK, mainVars, loopVars, connVars
<1>20. ASSUME NEW c \in Conns, TStart(c) PROVE TypeOK'
  BY <1>20 DEF TStart, TGoto, mainVars, loopVars, nsdVars, TypeOK
<1>21. ASSUME NEW c \in Conns, TRun(c) PROVE TypeOK'
  BY <1>21 DEF TRun, TGoto, mainVars, loopVars, nsdVars, TypeOK
<1>22. ASSUME NEW c \in Conns, TRemove(c) PROVE TypeOK'
  BY <1>22 DEF TRemove, TGoto, mainVars, nsdVars, TypeOK
<1>23. ASSUME NEW c \in Conns, TDec(c) PROVE TypeOK'
  BY <1>23 DEF TDec, Decremented, TGoto, TypeOK, mainVars, loopVars, nsdVars
<1>24. ASSUME NEW c \in Conns, TSnapshot(c) PROVE TypeOK'
  BY <1>24 DEF TSnapshot, TGoto, mainVars, loopVars, nsdVars, TypeOK
<1>25. ASSUME NEW c \in Conns, TNotify(c) PROVE TypeOK'
  BY <1>25 DEF TNotify, TGoto, mainVars, loopVars, nsdVars, TypeOK
<1>26. ASSUME NEW c \in Conns, TThrow(c) PROVE TypeOK'
  BY <1>26 DEF TThrow, TGoto, mainVars, loopVars, nsdVars, TypeOK
<1>27. ASSUME NEW c \in Conns, Connect(c) PROVE TypeOK'
  BY <1>27 DEF Connect, mainVars, loopVars, nsdVars, TypeOK
<1>28. CASE UNCHANGED vars
  BY <1>28 DEF vars, TypeOK, mainVars, loopVars, connVars, nsdVars
<1> QED
  BY <1>1, <1>2, <1>3, <1>4, <1>5, <1>6, <1>7, <1>8, <1>9, <1>10, <1>11, <1>12, <1>13, <1>14,
     <1>15, <1>16, <1>17, <1>18, <1>19, <1>20, <1>21, <1>22, <1>23, <1>24, <1>25, <1>26, <1>27,
     <1>28
  DEF Next, Main, AcceptLoop, SessionThread, Callbacks

(* What the accept loops hold, and the connections. *)
LEMMA HeldStep == SInv /\ [Next]_vars => HeldInv' /\ FreshInv' /\ ConnInv'
<1> SUFFICES ASSUME SInv, [Next]_vars PROVE HeldInv' /\ FreshInv' /\ ConnInv'
  OBVIOUS
<1> USE ServiceAssumption DEF Instances, Holding, SInv, TypeOK, HeldInv, FreshInv, ConnInv
<1>1. CASE OnCreate
  <2>1. /\ inst + 1 \in 1 .. MaxInst /\ inst' = inst + 1
        /\ \A i \in Instances : i # inst + 1 =>
              server'[i] = server[i] /\ acceptPc'[i] = acceptPc[i] /\ nsd'[i] = nsd[i]
        /\ acceptPc[inst + 1] = "none" /\ acceptPc'[inst + 1] \in {"none", "loop"}
        /\ UNCHANGED <<client, conn, owner, sessPc, sessions>>
    BY <1>1 DEF OnCreate, connVars
  <2> QED
    BY <2>1
<1>2. CASE DestroyFlag
  BY <1>2 DEF DestroyFlag, connVars
<1>3. CASE DestroyClose
  BY <1>3 DEF DestroyClose, nsdVars
<1>4. CASE DestroyStop
  BY <1>4 DEF DestroyStop, loopVars, nsdVars
<1>5. CASE DestroyClear
  BY <1>5 DEF DestroyClear, connVars, nsdVars
<1>6. CASE DestroyReset
  BY <1>6 DEF DestroyReset, loopVars, connVars
<1>7. CASE OnServiceRegistered
  BY <1>7 DEF OnServiceRegistered, mainVars, loopVars, connVars
<1>8. CASE OnRegistrationFailed
  BY <1>8 DEF OnRegistrationFailed, mainVars, loopVars, connVars
<1>9. CASE OnServiceUnregistered
  BY <1>9 DEF OnServiceUnregistered, mainVars, loopVars, connVars
<1>10. ASSUME NEW i \in Instances, ALoop(i) PROVE HeldInv' /\ FreshInv' /\ ConnInv'
  <2>1. /\ acceptPc[i] \notin Holding /\ acceptPc'[i] \notin Holding /\ i <= inst
        /\ \A j \in Instances : j # i => acceptPc'[j] = acceptPc[j]
        /\ UNCHANGED <<mainPc, inst, client, conn, owner, sessPc, sessions, server, nsd>>
    BY <1>10 DEF ALoop, AGoto, mainVars, connVars, nsdVars
  <2> QED
    BY <2>1
<1>11. ASSUME NEW i \in Instances, AAccept(i) PROVE HeldInv' /\ FreshInv' /\ ConnInv'
  BY <1>11 DEF AAccept, AGoto, mainVars, nsdVars
<1>12. ASSUME NEW i \in Instances, AClosed(i) PROVE HeldInv' /\ FreshInv' /\ ConnInv'
  <2>1. /\ acceptPc[i] \notin Holding /\ acceptPc'[i] \notin Holding /\ i <= inst
        /\ \A j \in Instances : j # i => acceptPc'[j] = acceptPc[j]
        /\ UNCHANGED <<mainPc, inst, client, conn, owner, sessPc, sessions, server, nsd>>
    BY <1>12 DEF AClosed, AGoto, mainVars, connVars, nsdVars
  <2> QED
    BY <2>1
<1>13. ASSUME NEW i \in Instances, AFails(i) PROVE HeldInv' /\ FreshInv' /\ ConnInv'
  <2>1. /\ acceptPc[i] \notin Holding /\ acceptPc'[i] \notin Holding /\ i <= inst
        /\ \A j \in Instances : j # i => acceptPc'[j] = acceptPc[j]
        /\ UNCHANGED <<mainPc, inst, client, conn, owner, sessPc, sessions, server, nsd>>
    BY <1>13 DEF AFails, AGoto, mainVars, connVars, nsdVars
  <2> QED
    BY <2>1
<1>14. ASSUME NEW i \in Instances, ACount(i) PROVE HeldInv' /\ FreshInv' /\ ConnInv'
  BY <1>14 DEF ACount, AGoto, mainVars, connVars, nsdVars
<1>15. ASSUME NEW i \in Instances, ASnapshot(i) PROVE HeldInv' /\ FreshInv' /\ ConnInv'
  BY <1>15 DEF ASnapshot, AGoto, mainVars, connVars, nsdVars
<1>16. ASSUME NEW i \in Instances, ANotify(i) PROVE HeldInv' /\ FreshInv' /\ ConnInv'
  BY <1>16 DEF ANotify, AGoto, mainVars, connVars, nsdVars
<1>17. ASSUME NEW i \in Instances, AAdd(i) PROVE HeldInv' /\ FreshInv' /\ ConnInv'
  BY <1>17 DEF AAdd, AGoto, mainVars, connVars, nsdVars
<1>18. ASSUME NEW i \in Instances, ASpawn(i) PROVE HeldInv' /\ FreshInv' /\ ConnInv'
  BY <1>18 DEF ASpawn, AGoto, mainVars, nsdVars
<1>19. ASSUME NEW i \in Instances, NsdAnswers(i) PROVE HeldInv' /\ FreshInv' /\ ConnInv'
  <2>1. /\ i <= inst
        /\ \A j \in Instances : j # i => nsd'[j] = nsd[j]
        /\ UNCHANGED <<mainPc, inst, acceptPc, client, conn, owner, sessPc, sessions, server>>
    BY <1>19 DEF NsdAnswers, mainVars, loopVars, connVars
  <2> QED
    BY <2>1
<1>20. ASSUME NEW c \in Conns, TStart(c) PROVE HeldInv' /\ FreshInv' /\ ConnInv'
  BY <1>20 DEF TStart, TGoto, mainVars, loopVars, nsdVars
<1>21. ASSUME NEW c \in Conns, TRun(c) PROVE HeldInv' /\ FreshInv' /\ ConnInv'
  BY <1>21 DEF TRun, TGoto, mainVars, loopVars, nsdVars
<1>22. ASSUME NEW c \in Conns, TRemove(c) PROVE HeldInv' /\ FreshInv' /\ ConnInv'
  BY <1>22 DEF TRemove, TGoto, mainVars, nsdVars
<1>23. ASSUME NEW c \in Conns, TDec(c) PROVE HeldInv' /\ FreshInv' /\ ConnInv'
  BY <1>23 DEF TDec, TGoto, mainVars, loopVars, nsdVars
<1>24. ASSUME NEW c \in Conns, TSnapshot(c) PROVE HeldInv' /\ FreshInv' /\ ConnInv'
  BY <1>24 DEF TSnapshot, TGoto, mainVars, loopVars, nsdVars
<1>25. ASSUME NEW c \in Conns, TNotify(c) PROVE HeldInv' /\ FreshInv' /\ ConnInv'
  BY <1>25 DEF TNotify, TGoto, mainVars, loopVars, nsdVars
<1>26. ASSUME NEW c \in Conns, TThrow(c) PROVE HeldInv' /\ FreshInv' /\ ConnInv'
  BY <1>26 DEF TThrow, TGoto, mainVars, loopVars, nsdVars
<1>27. ASSUME NEW c \in Conns, Connect(c) PROVE HeldInv' /\ FreshInv' /\ ConnInv'
  BY <1>27 DEF Connect, mainVars, loopVars, nsdVars
<1>28. CASE UNCHANGED vars
  BY <1>28 DEF vars, mainVars, loopVars, connVars, nsdVars
<1> QED
  BY <1>1, <1>2, <1>3, <1>4, <1>5, <1>6, <1>7, <1>8, <1>9, <1>10, <1>11, <1>12, <1>13, <1>14,
     <1>15, <1>16, <1>17, <1>18, <1>19, <1>20, <1>21, <1>22, <1>23, <1>24, <1>25, <1>26, <1>27,
     <1>28
  DEF Next, Main, AcceptLoop, SessionThread, Callbacks

(* The list of sessions. *)
LEMMA ListStep == SInv /\ [Next]_vars => ListInv'
<1> SUFFICES ASSUME SInv, [Next]_vars PROVE ListInv'
  OBVIOUS
<1> USE ServiceAssumption
DEF Instances, Holding, SInv, TypeOK, HeldInv, FreshInv, ConnInv, ListInv, SessionsTracked
<1>1. CASE OnCreate
  BY <1>1 DEF OnCreate, connVars
<1>2. CASE DestroyFlag
  BY <1>2 DEF DestroyFlag, connVars
<1>3. CASE DestroyClose
  BY <1>3 DEF DestroyClose, nsdVars
<1>4. CASE DestroyStop
  BY <1>4 DEF DestroyStop, loopVars, nsdVars
<1>5. CASE DestroyClear
  BY <1>5 DEF DestroyClear, connVars, nsdVars
<1>6. CASE DestroyReset
  BY <1>6 DEF DestroyReset, loopVars, connVars
<1>7. CASE OnServiceRegistered
  BY <1>7 DEF OnServiceRegistered, mainVars, loopVars, connVars
<1>8. CASE OnRegistrationFailed
  BY <1>8 DEF OnRegistrationFailed, mainVars, loopVars, connVars
<1>9. CASE OnServiceUnregistered
  BY <1>9 DEF OnServiceUnregistered, mainVars, loopVars, connVars
<1>10. ASSUME NEW i \in Instances, ALoop(i) PROVE ListInv'
  BY <1>10 DEF ALoop, AGoto, mainVars, connVars, nsdVars
<1>11. ASSUME NEW i \in Instances, AAccept(i) PROVE ListInv'
  BY <1>11 DEF AAccept, AGoto, mainVars, nsdVars
<1>12. ASSUME NEW i \in Instances, AClosed(i) PROVE ListInv'
  BY <1>12 DEF AClosed, AGoto, mainVars, connVars, nsdVars
<1>13. ASSUME NEW i \in Instances, AFails(i) PROVE ListInv'
  BY <1>13 DEF AFails, AGoto, mainVars, connVars, nsdVars
<1>14. ASSUME NEW i \in Instances, ACount(i) PROVE ListInv'
  BY <1>14 DEF ACount, AGoto, mainVars, connVars, nsdVars
<1>15. ASSUME NEW i \in Instances, ASnapshot(i) PROVE ListInv'
  BY <1>15 DEF ASnapshot, AGoto, mainVars, connVars, nsdVars
<1>16. ASSUME NEW i \in Instances, ANotify(i) PROVE ListInv'
  BY <1>16 DEF ANotify, AGoto, mainVars, connVars, nsdVars
<1>17. ASSUME NEW i \in Instances, AAdd(i) PROVE ListInv'
  BY <1>17 DEF AAdd, AGoto, mainVars, connVars, nsdVars
<1>18. ASSUME NEW i \in Instances, ASpawn(i) PROVE ListInv'
  BY <1>18 DEF ASpawn, AGoto, mainVars, nsdVars
<1>19. ASSUME NEW i \in Instances, NsdAnswers(i) PROVE ListInv'
  BY <1>19 DEF NsdAnswers, mainVars, loopVars, connVars
<1>20. ASSUME NEW c \in Conns, TStart(c) PROVE ListInv'
  BY <1>20 DEF TStart, TGoto, mainVars, loopVars, nsdVars
<1>21. ASSUME NEW c \in Conns, TRun(c) PROVE ListInv'
  BY <1>21 DEF TRun, TGoto, mainVars, loopVars, nsdVars
<1>22. ASSUME NEW c \in Conns, TRemove(c) PROVE ListInv'
  BY <1>22 DEF TRemove, TGoto, mainVars, nsdVars
<1>23. ASSUME NEW c \in Conns, TDec(c) PROVE ListInv'
  BY <1>23 DEF TDec, TGoto, mainVars, loopVars, nsdVars
<1>24. ASSUME NEW c \in Conns, TSnapshot(c) PROVE ListInv'
  BY <1>24 DEF TSnapshot, TGoto, mainVars, loopVars, nsdVars
<1>25. ASSUME NEW c \in Conns, TNotify(c) PROVE ListInv'
  BY <1>25 DEF TNotify, TGoto, mainVars, loopVars, nsdVars
<1>26. ASSUME NEW c \in Conns, TThrow(c) PROVE ListInv'
  BY <1>26 DEF TThrow, TGoto, mainVars, loopVars, nsdVars
<1>27. ASSUME NEW c \in Conns, Connect(c) PROVE ListInv'
  <2>1. /\ owner[c] = 0 /\ sessPc[c] = "none" /\ \A i \in Instances : c \notin sessions[i]
        /\ \A d \in Conns : d # c => owner'[d] = owner[d]
        /\ UNCHANGED <<mainPc, inst, sessions, sessPc, client, acceptPc>>
    BY <1>27 DEF Connect, mainVars, loopVars
  <2>2. \A i \in Instances : \A d \in sessions[i] : d \in Conns /\ d # c
    <3>1. \A i \in Instances : sessions[i] \subseteq Conns
      OBVIOUS
    <3> QED
      BY <2>1, <3>1
  <2>3. \A i \in Instances : \A d \in sessions'[i] :
           /\ owner'[d] = i /\ sessPc'[d] \in {"none", "start", "run", "remove", "throw_remove"}
           /\ sessPc'[d] = "none" => client'[i] = d /\ acceptPc'[i] = "spawn"
    BY <2>1, <2>2
  <2>4. \A d \in Conns : (mainPc' = "up" /\ owner'[d] = inst' /\ sessPc'[d] \in {"start", "run"})
                            => d \in sessions'[inst']
    BY <2>1
  <2> QED
    BY <2>3, <2>4
<1>28. CASE UNCHANGED vars
  BY <1>28 DEF vars, mainVars, loopVars, connVars, nsdVars
<1> QED
  BY <1>1, <1>2, <1>3, <1>4, <1>5, <1>6, <1>7, <1>8, <1>9, <1>10, <1>11, <1>12, <1>13, <1>14,
     <1>15, <1>16, <1>17, <1>18, <1>19, <1>20, <1>21, <1>22, <1>23, <1>24, <1>25, <1>26, <1>27,
     <1>28
  DEF Next, Main, AcceptLoop, SessionThread, Callbacks

(* The last callback of a queue from which one is taken. *)
LEMMA LastOfTail ==
    ASSUME NEW S, NEW q \in Seq(S), q # <<>>
    PROVE  /\ Tail(q) = <<>> => Len(q) = 1
           /\ Tail(q) # <<>> => Tail(q)[Len(Tail(q))] = q[Len(q)]
<1>1. /\ Tail(q) \in Seq(S) /\ Len(Tail(q)) = Len(q) - 1
      /\ \A i \in 1 .. Len(Tail(q)) : Tail(q)[i] = q[i + 1]
  BY HeadTailProperties
<1>2. Len(q) \in Nat /\ Len(Tail(q)) \in Nat /\ (Tail(q) = <<>> <=> Len(Tail(q)) = 0)
  BY <1>1, EmptySeq, LenProperties
<1> QED
  BY <1>1, <1>2

(* The mDNS flag. *)
LEMMA MdnsStep == SInv /\ [Next]_vars => MdnsInv'
<1> SUFFICES ASSUME SInv, [Next]_vars PROVE MdnsInv'
  OBVIOUS
<1> USE ServiceAssumption DEF SInv, TypeOK, MdnsInv, FreshInv, Instances
<1>1. CASE OnCreate
  <2>1. nsd[inst + 1] = "none" /\ inst + 1 \in Instances
    BY <1>1 DEF OnCreate
  <2>2. \A i \in Instances : nsd[i] = "registered" => nsd'[i] = "registered"
    BY <1>1, <2>1 DEF OnCreate
  <2> QED
    BY <1>1, <2>2 DEF OnCreate
<1>2. CASE DestroyFlag
  BY <1>2 DEF DestroyFlag, connVars
<1>3. CASE DestroyClose
  BY <1>3 DEF DestroyClose, nsdVars
<1>4. CASE DestroyStop
  BY <1>4 DEF DestroyStop, loopVars, nsdVars
<1>5. CASE DestroyClear
  BY <1>5 DEF DestroyClear, connVars, nsdVars
<1>6. CASE DestroyReset
  BY <1>6 DEF DestroyReset, loopVars, connVars
<1>7. CASE OnServiceRegistered
  <2>1. nsdQ # <<>> /\ nsdQ' = Tail(nsdQ) /\ Head(nsdQ) = nsdQ[1] /\ nsd' = nsd
    BY <1>7 DEF OnServiceRegistered
  <2>2. nsdQ' = <<>> => nsdQ[Len(nsdQ)] = Head(nsdQ)
    BY <2>1, LastOfTail
  <2>3. nsdQ' # <<>> => nsdQ'[Len(nsdQ')] = nsdQ[Len(nsdQ)]
    BY <2>1, LastOfTail
  <2> QED
    BY <1>7, <2>1, <2>2, <2>3 DEF OnServiceRegistered
<1>8. CASE OnRegistrationFailed
  <2>1. nsdQ # <<>> /\ nsdQ' = Tail(nsdQ) /\ Head(nsdQ) = nsdQ[1] /\ nsd' = nsd
    BY <1>8 DEF OnRegistrationFailed
  <2>2. nsdQ' = <<>> => nsdQ[Len(nsdQ)] = Head(nsdQ)
    BY <2>1, LastOfTail
  <2>3. nsdQ' # <<>> => nsdQ'[Len(nsdQ')] = nsdQ[Len(nsdQ)]
    BY <2>1, LastOfTail
  <2> QED
    BY <1>8, <2>1, <2>2, <2>3 DEF OnRegistrationFailed
<1>9. CASE OnServiceUnregistered
  <2>1. nsdQ # <<>> /\ nsdQ' = Tail(nsdQ) /\ Head(nsdQ) = nsdQ[1] /\ nsd' = nsd
    BY <1>9 DEF OnServiceUnregistered
  <2>2. nsdQ' = <<>> => nsdQ[Len(nsdQ)] = Head(nsdQ)
    BY <2>1, LastOfTail
  <2>3. nsdQ' # <<>> => nsdQ'[Len(nsdQ')] = nsdQ[Len(nsdQ)]
    BY <2>1, LastOfTail
  <2> QED
    BY <1>9, <2>1, <2>2, <2>3 DEF OnServiceUnregistered
<1>10. ASSUME NEW i \in Instances, ALoop(i) PROVE MdnsInv'
  BY <1>10 DEF ALoop, AGoto, mainVars, connVars, nsdVars
<1>11. ASSUME NEW i \in Instances, AAccept(i) PROVE MdnsInv'
  BY <1>11 DEF AAccept, AGoto, mainVars, nsdVars
<1>12. ASSUME NEW i \in Instances, AClosed(i) PROVE MdnsInv'
  BY <1>12 DEF AClosed, AGoto, mainVars, connVars, nsdVars
<1>13. ASSUME NEW i \in Instances, AFails(i) PROVE MdnsInv'
  BY <1>13 DEF AFails, AGoto, mainVars, connVars, nsdVars
<1>14. ASSUME NEW i \in Instances, ACount(i) PROVE MdnsInv'
  BY <1>14 DEF ACount, AGoto, mainVars, connVars, nsdVars
<1>15. ASSUME NEW i \in Instances, ASnapshot(i) PROVE MdnsInv'
  BY <1>15 DEF ASnapshot, AGoto, mainVars, connVars, nsdVars
<1>16. ASSUME NEW i \in Instances, ANotify(i) PROVE MdnsInv'
  BY <1>16 DEF ANotify, AGoto, mainVars, connVars, nsdVars
<1>17. ASSUME NEW i \in Instances, AAdd(i) PROVE MdnsInv'
  BY <1>17 DEF AAdd, AGoto, mainVars, connVars, nsdVars
<1>18. ASSUME NEW i \in Instances, ASpawn(i) PROVE MdnsInv'
  BY <1>18 DEF ASpawn, AGoto, mainVars, nsdVars
<1>19. ASSUME NEW i \in Instances, NsdAnswers(i) PROVE MdnsInv'
  BY <1>19 DEF NsdAnswers, mainVars, loopVars, connVars
<1>20. ASSUME NEW c \in Conns, TStart(c) PROVE MdnsInv'
  BY <1>20 DEF TStart, TGoto, mainVars, loopVars, nsdVars
<1>21. ASSUME NEW c \in Conns, TRun(c) PROVE MdnsInv'
  BY <1>21 DEF TRun, TGoto, mainVars, loopVars, nsdVars
<1>22. ASSUME NEW c \in Conns, TRemove(c) PROVE MdnsInv'
  BY <1>22 DEF TRemove, TGoto, mainVars, nsdVars
<1>23. ASSUME NEW c \in Conns, TDec(c) PROVE MdnsInv'
  BY <1>23 DEF TDec, TGoto, mainVars, loopVars, nsdVars
<1>24. ASSUME NEW c \in Conns, TSnapshot(c) PROVE MdnsInv'
  BY <1>24 DEF TSnapshot, TGoto, mainVars, loopVars, nsdVars
<1>25. ASSUME NEW c \in Conns, TNotify(c) PROVE MdnsInv'
  BY <1>25 DEF TNotify, TGoto, mainVars, loopVars, nsdVars
<1>26. ASSUME NEW c \in Conns, TThrow(c) PROVE MdnsInv'
  BY <1>26 DEF TThrow, TGoto, mainVars, loopVars, nsdVars
<1>27. ASSUME NEW c \in Conns, Connect(c) PROVE MdnsInv'
  BY <1>27 DEF Connect, mainVars, loopVars, nsdVars
<1>28. CASE UNCHANGED vars
  BY <1>28 DEF vars, mainVars, loopVars, connVars, nsdVars
<1> QED
  BY <1>1, <1>2, <1>3, <1>4, <1>5, <1>6, <1>7, <1>8, <1>9, <1>10, <1>11, <1>12, <1>13, <1>14,
     <1>15, <1>16, <1>17, <1>18, <1>19, <1>20, <1>21, <1>22, <1>23, <1>24, <1>25, <1>26, <1>27,
     <1>28
  DEF Next, Main, AcceptLoop, SessionThread, Callbacks

-----------------------------------------------------------------------------
(* The count. *)

LEMMA CountedFinite == IsFiniteSet(Counted) /\ Cardinality(Counted) \in Nat
<1>1. Counted \subseteq Conns
  BY DEF Counted
<1> QED
  BY <1>1, ServiceAssumption, FS_Subset, FS_CardinalityType

(* Connections between incSessions() and decSessions() and the count, of a  *)
(* step that changes neither.                                               *)
LEMMA CountKept ==
    ASSUME SInv, Counted' = Counted, count' = count,
           inst' = inst, mainPc' # "none" => mainPc # "none"
    PROVE  CountInv'
BY DEF SInv, CountInv, NoPhantomSession, CountExact

(* The accept loop counts the connection it holds, which was not counted.   *)
LEMMA CountedAfterInc ==
    ASSUME SInv, NEW i \in Instances, ACount(i)
    PROVE  Counted' = Counted \cup {client[i]} /\ client[i] \in Conns \ Counted
<1> USE DEF ACount, AGoto, connVars
<1>1. /\ client[i] \in Conns /\ sessPc[client[i]] = "none" /\ owner[client[i]] = i
      /\ acceptPc'[i] = "snapshot" /\ acceptPc[i] = "count"
      /\ \A j \in Instances : j # i => acceptPc'[j] = acceptPc[j]
      /\ \A j \in Instances : client[j] # NoConn => owner[client[j]] = j
      /\ client' = client /\ sessPc' = sessPc
  BY DEF SInv, TypeOK, HeldInv, Holding
<1>2. client[i] \notin Counted
  BY <1>1, ServiceAssumption DEF Counted, Accepting
<1>3. \A c \in Conns : c \in Counted' <=> c \in Counted \/ c = client[i]
  BY <1>1, ServiceAssumption DEF Counted, Accepting
<1> QED
  BY <1>1, <1>2, <1>3 DEF Counted

(* The session thread takes its own connection from the count. *)
LEMMA CountedAfterDec ==
    ASSUME SInv, NEW c \in Conns, TDec(c)
    PROVE  Counted' = Counted \ {c} /\ c \in Counted
<1> USE DEF TDec, TGoto, loopVars
<1>1. /\ sessPc[c] \in {"dec", "throw_dec"}
      /\ sessPc'[c] \notin {"start", "run", "remove", "dec", "throw_remove", "throw_dec"}
      /\ \A d \in Conns : d # c => sessPc'[d] = sessPc[d]
      /\ UNCHANGED <<client, acceptPc>>
  BY DEF SInv, TypeOK
<1>c. \A j \in Instances : client[j] # c
  BY <1>1, ServiceAssumption DEF SInv, HeldInv
<1>2. \A d \in Conns : d \in Counted' <=> d \in Counted /\ d # c
  BY <1>1, <1>c DEF Counted, Accepting
<1>3. c \in Counted
  BY <1>1 DEF Counted
<1> QED
  BY <1>2, <1>3 DEF Counted

(* Steps that leave the threads where they are, or move one of them within  *)
(* or outside the counted part.                                             *)
LEMMA CountedSame ==
    ASSUME SInv,
           \/ UNCHANGED <<client, acceptPc, sessPc>>
           \/ \E i \in Instances :
                 ALoop(i) \/ AAccept(i) \/ AClosed(i) \/ AFails(i) \/ ASnapshot(i) \/ ANotify(i)
                   \/ AAdd(i) \/ ASpawn(i)
           \/ \E c \in Conns :
                 TStart(c) \/ TRun(c) \/ TRemove(c) \/ TSnapshot(c) \/ TNotify(c) \/ TThrow(c)
    PROVE  Counted' = Counted
<1> SUFFICES \A d \in Conns : d \in Counted' <=> d \in Counted
  BY DEF Counted
<1> USE ServiceAssumption DEF Counted, Accepting
<1>1. CASE UNCHANGED <<client, acceptPc, sessPc>>
  BY <1>1
<1>2. ASSUME NEW i \in Instances,
             ALoop(i) \/ AClosed(i) \/ AFails(i) \/ ASnapshot(i) \/ ANotify(i) \/ AAdd(i)
      PROVE  \A d \in Conns : d \in Counted' <=> d \in Counted
  <2>1. /\ UNCHANGED <<client, sessPc>>
        /\ Accepting(i)' <=> Accepting(i)
        /\ \A j \in Instances : j # i => acceptPc'[j] = acceptPc[j]
    BY <1>2 DEF SInv, TypeOK, ALoop, AClosed, AFails, ASnapshot, ANotify, AAdd, AGoto, connVars
  <2> QED
    BY <2>1
<1>3. ASSUME NEW i \in Instances, AAccept(i)
      PROVE  \A d \in Conns : d \in Counted' <=> d \in Counted
  <2>1. /\ sessPc' = sessPc
        /\ ~Accepting(i)' /\ ~Accepting(i)
        /\ \A j \in Instances : j # i => acceptPc'[j] = acceptPc[j] /\ client'[j] = client[j]
    BY <1>3 DEF SInv, TypeOK, AAccept, AGoto
  <2> QED
    BY <2>1
<1>4. ASSUME NEW i \in Instances, ASpawn(i)
      PROVE  \A d \in Conns : d \in Counted' <=> d \in Counted
  <2>1. /\ client[i] \in Conns /\ sessPc'[client[i]] = "start"
        /\ ~Accepting(i)' /\ Accepting(i)
        /\ \A j \in Instances : j # i => acceptPc'[j] = acceptPc[j] /\ client'[j] = client[j]
        /\ \A d \in Conns : d # client[i] => sessPc'[d] = sessPc[d]
    BY <1>4 DEF SInv, TypeOK, HeldInv, Holding, ASpawn, AGoto
  <2> QED
    BY <2>1
<1>5. ASSUME NEW c \in Conns,
             TStart(c) \/ TRun(c) \/ TRemove(c) \/ TSnapshot(c) \/ TNotify(c) \/ TThrow(c)
      PROVE  \A d \in Conns : d \in Counted' <=> d \in Counted
  <2> DEFINE InCount == {"start", "run", "remove", "dec", "throw_remove", "throw_dec"}
  <2>1. /\ UNCHANGED <<client, acceptPc>>
        /\ sessPc'[c] \in InCount <=> sessPc[c] \in InCount
        /\ \A d \in Conns : d # c => sessPc'[d] = sessPc[d]
    BY <1>5 DEF SInv, TypeOK, TStart, TRun, TRemove, TSnapshot, TNotify, TThrow, TGoto, loopVars
  <2> QED
    BY <2>1
<1> QED
  BY <1>1, <1>2, <1>3, <1>4, <1>5

LEMMA CountStep == SInv /\ [Next]_vars => CountInv'
<1> SUFFICES ASSUME SInv, [Next]_vars PROVE CountInv'
  OBVIOUS
<1>n. count \in Nat /\ inst \in Nat
  BY ServiceAssumption DEF SInv, TypeOK
<1>f. IsFiniteSet(Counted) /\ Cardinality(Counted) \in Nat
  BY CountedFinite
<1>1. CASE OnCreate
  <2>1. Counted' = Counted
    <3>1. /\ inst + 1 \in Instances /\ acceptPc[inst + 1] = "none"
          /\ acceptPc'[inst + 1] \in {"none", "loop"}
          /\ \A j \in Instances : j # inst + 1 => acceptPc'[j] = acceptPc[j]
          /\ UNCHANGED <<client, sessPc>>
      BY <1>1, ServiceAssumption DEF SInv, TypeOK, FreshInv, OnCreate, Instances, connVars
    <3> QED
      BY <3>1 DEF Counted, Accepting
  <2>2. inst = 0 => Counted = {}
    <3> SUFFICES ASSUME inst = 0, NEW c \in Counted PROVE FALSE
      OBVIOUS
    <3>1. c \in Conns /\ owner[c] \in 0 .. MaxInst /\ owner[c] <= 0
      BY DEF SInv, TypeOK, ConnInv, Counted
    <3>2. conn[c] = "unborn"
      BY <3>1, ServiceAssumption DEF SInv, ConnInv
    <3>3. sessPc[c] = "none" /\ \A i \in Instances : client[i] # c
      BY <3>1, <3>2, ServiceAssumption DEF SInv, ConnInv, HeldInv, TypeOK
    <3> QED
      BY <3>3 DEF Counted
  <2> QED
    BY <1>1, <1>n, <2>1, <2>2, FS_EmptySet
    DEF OnCreate, SInv, CountInv, NoPhantomSession, CountExact
<1>2. CASE DestroyReset
  <2>1. Counted' = Counted
    BY <1>2, CountedSame DEF DestroyReset, loopVars, connVars
  <2> QED
    BY <1>2, <1>f, <2>1 DEF DestroyReset, CountInv, NoPhantomSession, CountExact
<1>3. ASSUME NEW i \in Instances, ACount(i) PROVE CountInv'
  <2>1. Cardinality(Counted') = Cardinality(Counted) + 1
    BY <1>3, <1>f, CountedAfterInc, FS_AddElement
  <2>2. inst # 0
    BY <1>3, ServiceAssumption DEF ACount, SInv, FreshInv, TypeOK, Instances
  <2> QED
    BY <1>3, <1>n, <1>f, <2>1, <2>2
    DEF ACount, mainVars, SInv, CountInv, NoPhantomSession, CountExact
<1>4. ASSUME NEW c \in Conns, TDec(c) PROVE CountInv'
  <2>1. Cardinality(Counted') = Cardinality(Counted) - 1
    BY <1>4, <1>f, CountedAfterDec, FS_RemoveElement
  <2>2. Cardinality(Counted) # 0
    BY <1>4, <1>f, CountedAfterDec, FS_EmptySet
  <2> QED
    BY <1>4, <1>n, <1>f, <2>1, <2>2
    DEF TDec, Decremented, mainVars, SInv, CountInv, NoPhantomSession, CountExact
<1>5. ASSUME \/ DestroyFlag \/ DestroyClose \/ DestroyStop \/ DestroyClear \/ Callbacks
             \/ \E i \in Instances : NsdAnswers(i)
             \/ \E c \in Conns : Connect(c)
             \/ UNCHANGED vars
      PROVE  CountInv'
  <2>1. /\ UNCHANGED <<client, acceptPc, sessPc, count, inst>>
        /\ mainPc' # "none" => mainPc # "none"
    BY <1>5 DEF DestroyFlag, DestroyClose, DestroyStop, DestroyClear, Callbacks,
       OnServiceRegistered, OnRegistrationFailed, OnServiceUnregistered, NsdAnswers, Connect,
       vars, mainVars, loopVars, connVars
  <2> QED
    BY <2>1, CountedSame, CountKept
<1>6. ASSUME NEW i \in Instances,
             ALoop(i) \/ AAccept(i) \/ AClosed(i) \/ AFails(i) \/ ASnapshot(i) \/ ANotify(i)
               \/ AAdd(i) \/ ASpawn(i)
      PROVE  CountInv'
  <2>1. UNCHANGED <<count, inst, mainPc>>
    BY <1>6 DEF ALoop, AAccept, AClosed, AFails, ASnapshot, ANotify, AAdd, ASpawn, mainVars
  <2> QED
    BY <1>6, <2>1, CountedSame, CountKept
<1>7. ASSUME NEW c \in Conns,
             TStart(c) \/ TRun(c) \/ TRemove(c) \/ TSnapshot(c) \/ TNotify(c) \/ TThrow(c)
      PROVE  CountInv'
  <2>1. UNCHANGED <<count, inst, mainPc>>
    BY <1>7 DEF TStart, TRun, TRemove, TSnapshot, TNotify, TThrow, mainVars
  <2> QED
    BY <1>7, <2>1, CountedSame, CountKept
<1> QED
  BY <1>1, <1>2, <1>3, <1>4, <1>5, <1>6, <1>7 DEF Next, Main, AcceptLoop, SessionThread

-----------------------------------------------------------------------------
(* SInv holds whatever the main thread, the accept loops, the session       *)
(* threads and the callbacks of NsdManager do, one after another: each      *)
(* accept loop holds a connection of its own, each thread was listed before *)
(* it was started, and the count and the mDNS flag follow what happened.    *)
THEOREM Invariance == Spec => []SInv
<1>1. SInv /\ [Next]_vars => SInv'
  BY TypeStep, HeldStep, ListStep, CountStep, MdnsStep DEF SInv
<1> QED
  BY <1>1, InitInv, PTL DEF Spec

(* However many receivers come and go and however often the service is      *)
(* restarted over sessions of its earlier instances, the diagnostic line    *)
(* (incSessions, decSessions, reset) never shows a session that is not      *)
(* there.                                                                   *)
THEOREM NeverPhantom == Spec => []NoPhantomSession
<1>1. SInv => NoPhantomSession
  BY DEF SInv, CountInv
<1> QED
  BY <1>1, Invariance, PTL

(* In the first life of the service incSessions and decSessions leave       *)
(* exactly the number of sessions that were accepted and have not ended.    *)
THEOREM FirstCountExact == Spec => []CountExact
<1>1. SInv => CountExact
  BY DEF SInv, CountInv
<1> QED
  BY <1>1, Invariance, PTL

(* The list onDestroy iterates over has every started session of its        *)
(* instance, and none whose thread has left it.                             *)
THEOREM AllTracked == Spec => []SessionsTracked
<1>1. SInv => SessionsTracked
  BY DEF SInv, ListInv
<1> QED
  BY <1>1, Invariance, PTL

(* "mDNS" in the diagnostic line is true once the callbacks of NsdManager   *)
(* have run: some instance of the service is then registered.               *)
THEOREM MdnsTrue == Spec => []MdnsHonest
<1>1. SInv => MdnsHonest
  BY DEF SInv, MdnsInv, MdnsHonest
<1> QED
  BY <1>1, Invariance, PTL
=============================================================================
