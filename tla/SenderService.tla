---------------------------- MODULE SenderService ----------------------------
(***************************************************************************)
(* The Android foreground service: the main thread that creates and        *)
(* destroys it, the accept loop of each instance, one thread per accepted  *)
(* connection (ReceiverSession.run, taken here as a whole: HidSession is   *)
(* about its inside), and the NsdManager callbacks.  The service may be    *)
(* started again in the same process, which keeps the ServiceState of the  *)
(* companion object and the threads of earlier instances.                  *)
(***************************************************************************)
EXTENDS Integers, Sequences, FiniteSets

CONSTANTS
    Conns,      \* the connections receivers will ever make
    NoConn,     \* no connection
    MaxInst     \* how many times the service is created in one process

ASSUME ServiceAssumption ==
    /\ IsFiniteSet(Conns)
    /\ NoConn \notin Conns
    /\ MaxInst \in Nat \ {0}

Instances == 1 .. MaxInst

VARIABLES
    (* main thread *)
    mainPc,    \* none, up, or the next step of onDestroy: close, stop, clear, reset
    inst,      \* number of the latest instance
    toStop,    \* what sessions.forEach has left to stop
    (* one per instance *)
    acceptLoopAlive, server, sessions, acceptPc,
    client, seen,  \* its locals, cleared when they go out of scope
    (* one per connection *)
    conn,      \* unborn, backlog, reset (the listener closed first), accepted
    owner,     \* the instance it reached, 0 before that
    open,      \* client socket not closed by this process
    sessPc,    \* its session thread
    shown,     \* the count read for the notification, by its thread
    (* process-global ServiceState, notification, NsdManager *)
    count, mdnsRegistered,
    notif,     \* -1 starting or failed, 0 "Idle", n > 0 "Connected: n session(s)"
    nsd,       \* per instance: what NsdManager holds: none, pending, registered
    nsdQ,      \* callbacks not yet run, in order
    crashed    \* an exception left a thread: Android ends the process

mainVars == <<mainPc, inst, toStop>>
loopVars == <<acceptLoopAlive, server, sessions, acceptPc, client, seen>>
connVars == <<conn, owner, open, sessPc, shown>>
nsdVars  == <<mdnsRegistered, nsd, nsdQ>>
vars == <<mainVars, loopVars, connVars, nsdVars, count, notif, crashed>>

Init ==
    /\ mainPc = "none" /\ inst = 0 /\ toStop = {}
    /\ acceptLoopAlive = [i \in Instances |-> TRUE]
    /\ server = [i \in Instances |-> "none"]
    /\ sessions = [i \in Instances |-> {}]
    /\ acceptPc = [i \in Instances |-> "none"]
    /\ client = [i \in Instances |-> NoConn]
    /\ seen = [i \in Instances |-> 0]
    /\ conn = [c \in Conns |-> "unborn"]
    /\ owner = [c \in Conns |-> 0]
    /\ open = [c \in Conns |-> TRUE]
    /\ sessPc = [c \in Conns |-> "none"]
    /\ shown = [c \in Conns |-> 0]
    /\ count = 0 /\ mdnsRegistered = FALSE
    /\ notif = -1
    /\ nsd = [i \in Instances |-> "none"]
    /\ nsdQ = <<>>
    /\ crashed = FALSE

-----------------------------------------------------------------------------
(* Main thread. *)

(* onCreate.  Binding the port may fail; so may the call of registerService *)
(* after it, and then the bound listener has no accept loop.                *)
OnCreate ==
    /\ mainPc = "none" /\ inst < MaxInst
    /\ mainPc' = "up"
    /\ inst' = inst + 1
    /\ notif' = -1
    /\ \/ /\ server' = [server EXCEPT ![inst + 1] = "open"]
          /\ nsd' = [nsd EXCEPT ![inst + 1] = "pending"]
          /\ acceptPc' = [acceptPc EXCEPT ![inst + 1] = "loop"]
       \/ /\ server' = [server EXCEPT ![inst + 1] = "open"]
          /\ UNCHANGED <<nsd, acceptPc>>
       \/ UNCHANGED <<server, nsd, acceptPc>>
    /\ UNCHANGED <<toStop, acceptLoopAlive, sessions, client, seen, connVars, count,
                   mdnsRegistered, nsdQ, crashed>>

(* onDestroy, first steps: the flag, unregisterService.  NsdManager answers *)
(* later; it may fail to unregister.                                        *)
DestroyFlag ==
    /\ mainPc = "up"
    /\ mainPc' = "close"
    /\ acceptLoopAlive' = [acceptLoopAlive EXCEPT ![inst] = FALSE]
    /\ \/ /\ nsd[inst] # "none"
          /\ nsd' = [nsd EXCEPT ![inst] = "none"]
          /\ nsdQ' = Append(nsdQ, "unregistered")
       \/ UNCHANGED <<nsd, nsdQ>>
    /\ UNCHANGED <<inst, toStop, server, sessions, acceptPc, client, seen, connVars, count,
                   notif, mdnsRegistered, crashed>>

DestroyCloseKeepsListening ==   \* mutant of DestroyClose: the listener is left to the flag
    /\ mainPc = "close"
    /\ mainPc' = "stop"
    /\ toStop' = sessions[inst]
    /\ UNCHANGED <<inst, loopVars, connVars, nsdVars, count, notif, crashed>>

(* serverSocket.close() resets what waits in the backlog; sessions.forEach  *)
(* then iterates over the list as it is now (CopyOnWriteArrayList).         *)
DestroyClose ==
    /\ mainPc = "close"
    /\ mainPc' = "stop"
    /\ server' = [server EXCEPT ![inst] = IF @ = "open" THEN "closed" ELSE @]
    /\ conn' = [c \in Conns |->
                  IF conn[c] = "backlog" /\ owner[c] = inst THEN "reset" ELSE conn[c]]
    /\ toStop' = sessions[inst]
    /\ UNCHANGED <<inst, acceptLoopAlive, sessions, acceptPc, client, seen, owner, open,
                   sessPc, shown, nsdVars, count, notif, crashed>>

DestroyStopFlagOnly ==          \* mutant of DestroyStop: stop() does not close the socket
    /\ mainPc = "stop" /\ toStop # {}
    /\ \E c \in toStop : toStop' = toStop \ {c}
    /\ UNCHANGED <<mainPc, inst, loopVars, connVars, nsdVars, count, notif, crashed>>

(* One it.stop(). *)
DestroyStop ==
    /\ mainPc = "stop" /\ toStop # {}
    /\ \E c \in toStop :
         /\ toStop' = toStop \ {c}
         /\ open' = [open EXCEPT ![c] = FALSE]
    /\ UNCHANGED <<mainPc, inst, loopVars, conn, owner, sessPc, shown, nsdVars, count,
                   notif, crashed>>

(* sessions.clear() *)
DestroyClear ==
    /\ mainPc = "stop" /\ toStop = {}
    /\ mainPc' = "reset"
    /\ sessions' = [sessions EXCEPT ![inst] = {}]
    /\ UNCHANGED <<inst, toStop, acceptLoopAlive, server, acceptPc, client, seen, connVars,
                   nsdVars, count, notif, crashed>>

(* state.reset(), the end of onDestroy. *)
DestroyReset ==
    /\ mainPc = "reset"
    /\ mainPc' = "none"
    /\ count' = 0 /\ mdnsRegistered' = FALSE
    /\ UNCHANGED <<inst, toStop, loopVars, connVars, notif, nsd, nsdQ, crashed>>

-----------------------------------------------------------------------------
(* The accept loop of instance i. *)

AGoto(i, pc) == acceptPc' = [acceptPc EXCEPT ![i] = pc]

ALoop(i) ==
    /\ acceptPc[i] = "loop"
    /\ AGoto(i, IF acceptLoopAlive[i] /\ server[i] = "open" THEN "accept" ELSE "ended")
    /\ UNCHANGED <<mainVars, acceptLoopAlive, server, sessions, client, seen, connVars,
                   nsdVars, count, notif, crashed>>

AAccept(i) ==
    /\ acceptPc[i] = "accept" /\ server[i] = "open"
    /\ \E c \in Conns :
         /\ conn[c] = "backlog" /\ owner[c] = i
         /\ conn' = [conn EXCEPT ![c] = "accepted"]
         /\ client' = [client EXCEPT ![i] = c]
    /\ AGoto(i, "count")
    /\ UNCHANGED <<mainVars, acceptLoopAlive, server, sessions, seen, owner, open, sessPc,
                   shown, nsdVars, count, notif, crashed>>

(* accept() throws: the listener was closed.                                *)
AClosed(i) ==
    /\ acceptPc[i] = "accept" /\ server[i] = "closed"
    /\ AGoto(i, "ended")
    /\ UNCHANGED <<mainVars, acceptLoopAlive, server, sessions, client, seen, connVars,
                   nsdVars, count, notif, crashed>>

(* accept() throws for another reason (no descriptor left, connection       *)
(* aborted): the loop is left as well, the listener stays bound.            *)
AFails(i) ==
    /\ acceptPc[i] = "accept" /\ server[i] = "open"
    /\ AGoto(i, "ended")
    /\ UNCHANGED <<mainVars, acceptLoopAlive, server, sessions, client, seen, connVars,
                   nsdVars, count, notif, crashed>>

ACountRecomputed(i) ==          \* mutant of ACount: the count is taken from the list
    /\ acceptPc[i] = "count"
    /\ count' = Cardinality(sessions[i]) + 1
    /\ AGoto(i, "snapshot")
    /\ UNCHANGED <<mainVars, acceptLoopAlive, server, sessions, client, seen, connVars,
                   nsdVars, notif, crashed>>

(* state.incSessions() *)
ACount(i) ==
    /\ acceptPc[i] = "count"
    /\ count' = count + 1
    /\ AGoto(i, "snapshot")
    /\ UNCHANGED <<mainVars, acceptLoopAlive, server, sessions, client, seen, connVars,
                   nsdVars, notif, crashed>>

(* state.snapshot().sessions, then the notification. *)
ASnapshot(i) ==
    /\ acceptPc[i] = "snapshot"
    /\ seen' = [seen EXCEPT ![i] = count]
    /\ AGoto(i, "notify")
    /\ UNCHANGED <<mainVars, acceptLoopAlive, server, sessions, client, connVars,
                   nsdVars, count, notif, crashed>>

ANotify(i) ==
    /\ acceptPc[i] = "notify"
    /\ notif' = seen[i] /\ seen' = [seen EXCEPT ![i] = 0]
    /\ AGoto(i, "add")
    /\ UNCHANGED <<mainVars, acceptLoopAlive, server, sessions, client, connVars,
                   nsdVars, count, crashed>>

(* sessions.add(session) *)
AAdd(i) ==
    /\ acceptPc[i] = "add"
    /\ sessions' = [sessions EXCEPT ![i] = @ \cup {client[i]}]
    /\ AGoto(i, "spawn")
    /\ UNCHANGED <<mainVars, acceptLoopAlive, server, client, seen, connVars,
                   nsdVars, count, notif, crashed>>

ASpawnInline(i) ==              \* mutant of ASpawn: run() is called on the accept thread
    /\ acceptPc[i] = "spawn" /\ sessPc[client[i]] \in {"none", "done"}
    /\ sessPc' = [sessPc EXCEPT ![client[i]] = IF @ = "none" THEN "start" ELSE @]
    /\ AGoto(i, IF sessPc[client[i]] = "none" THEN "spawn" ELSE "loop")
    /\ UNCHANGED <<mainVars, acceptLoopAlive, server, sessions, client, seen, conn, owner,
                   open, shown, nsdVars, count, notif, crashed>>

(* thread(start = true) *)
ASpawn(i) ==
    /\ acceptPc[i] = "spawn"
    /\ sessPc' = [sessPc EXCEPT ![client[i]] = "start"]
    /\ client' = [client EXCEPT ![i] = NoConn]
    /\ AGoto(i, "loop")
    /\ UNCHANGED <<mainVars, acceptLoopAlive, server, sessions, seen, conn, owner,
                   open, shown, nsdVars, count, notif, crashed>>

-----------------------------------------------------------------------------
(* The session thread of connection c. *)

TGoto(c, pc) == sessPc' = [sessPc EXCEPT ![c] = pc]

(* run() first sets socket options, outside its try: on a socket stop() has *)
(* closed this throws.  The finally of the thread still runs, then nothing  *)
(* catches the exception.                                                   *)
TStart(c) ==
    /\ sessPc[c] = "start"
    /\ TGoto(c, IF open[c] THEN "run" ELSE "throw_remove")
    /\ UNCHANGED <<mainVars, loopVars, conn, owner, open, shown, nsdVars, count, 
                   notif, crashed>>

(* The rest of run(): it catches everything and closes the socket. *)
TRun(c) ==
    /\ sessPc[c] = "run"
    /\ open' = [open EXCEPT ![c] = FALSE]
    /\ TGoto(c, "remove")
    /\ UNCHANGED <<mainVars, loopVars, conn, owner, shown, nsdVars, count, 
                   notif, crashed>>

TRemoveNotFinally(c) ==         \* mutant of TRemove: it is not in the finally
    /\ sessPc[c] \in {"remove", "throw_remove"}
    /\ sessions' = [sessions EXCEPT ![owner[c]] = IF sessPc[c] = "remove" THEN @ \ {c} ELSE @]
    /\ TGoto(c, IF sessPc[c] = "remove" THEN "dec" ELSE "throw_dec")
    /\ UNCHANGED <<mainVars, acceptLoopAlive, server, acceptPc, client, seen, conn, owner,
                   open, shown, nsdVars, count, notif, crashed>>

(* finally: sessions.remove(session) *)
TRemove(c) ==
    /\ sessPc[c] \in {"remove", "throw_remove"}
    /\ sessions' = [sessions EXCEPT ![owner[c]] = @ \ {c}]
    /\ TGoto(c, IF sessPc[c] = "remove" THEN "dec" ELSE "throw_dec")
    /\ UNCHANGED <<mainVars, acceptLoopAlive, server, acceptPc, client, seen, conn, owner,
                   open, shown, nsdVars, count, notif, crashed>>

(* state.decSessions(): never below zero. *)
Decremented == IF count = 0 THEN 0 ELSE count - 1

TDecNotFinally(c) ==            \* mutant of TDec: it is not in the finally
    /\ sessPc[c] \in {"dec", "throw_dec"}
    /\ count' = IF sessPc[c] = "dec" THEN Decremented ELSE count
    /\ TGoto(c, IF sessPc[c] = "dec" THEN "snapshot" ELSE "throw_snapshot")
    /\ UNCHANGED <<mainVars, loopVars, conn, owner, open, shown, nsdVars, notif,
                   crashed>>

TDec(c) ==
    /\ sessPc[c] \in {"dec", "throw_dec"}
    /\ count' = Decremented
    /\ TGoto(c, IF sessPc[c] = "dec" THEN "snapshot" ELSE "throw_snapshot")
    /\ UNCHANGED <<mainVars, loopVars, conn, owner, open, shown, nsdVars, notif,
                   crashed>>

TSnapshot(c) ==
    /\ sessPc[c] \in {"snapshot", "throw_snapshot"}
    /\ shown' = [shown EXCEPT ![c] = count]
    /\ TGoto(c, IF sessPc[c] = "snapshot" THEN "notify" ELSE "throw_notify")
    /\ UNCHANGED <<mainVars, loopVars, conn, owner, open, nsdVars, count, notif,
                   crashed>>

TNotify(c) ==
    /\ sessPc[c] \in {"notify", "throw_notify"}
    /\ notif' = shown[c] /\ shown' = [shown EXCEPT ![c] = 0]
    /\ TGoto(c, IF sessPc[c] = "notify" THEN "done" ELSE "throw")
    /\ UNCHANGED <<mainVars, loopVars, conn, owner, open, nsdVars, count, 
                   crashed>>

(* After the finally, the uncaught exception ends the process. *)
TThrow(c) ==
    /\ sessPc[c] = "throw"
    /\ crashed' = TRUE
    /\ TGoto(c, "done")
    /\ UNCHANGED <<mainVars, loopVars, conn, owner, open, shown, nsdVars, count, 
                   notif>>

-----------------------------------------------------------------------------
(* Outside: receivers and NsdManager. *)

Connect(c) ==
    /\ conn[c] = "unborn"
    /\ \E i \in Instances :
         /\ server[i] = "open"
         /\ owner' = [owner EXCEPT ![c] = i]
    /\ conn' = [conn EXCEPT ![c] = "backlog"]
    /\ UNCHANGED <<mainVars, loopVars, open, sessPc, shown, nsdVars, count, 
                   notif, crashed>>

(* NsdManager decides on a pending registration and queues the callback. *)
NsdAnswers(i) ==
    /\ nsd[i] = "pending"
    /\ \/ /\ nsd' = [nsd EXCEPT ![i] = "registered"]
          /\ nsdQ' = Append(nsdQ, "registered")
       \/ /\ nsd' = [nsd EXCEPT ![i] = "none"]
          /\ nsdQ' = Append(nsdQ, "failed")
    /\ UNCHANGED <<mainVars, loopVars, connVars, count, mdnsRegistered, notif,
                   crashed>>

OnServiceRegistered ==
    /\ nsdQ # <<>> /\ Head(nsdQ) = "registered"
    /\ nsdQ' = Tail(nsdQ)
    /\ mdnsRegistered' = TRUE
    /\ notif' = 0
    /\ UNCHANGED <<mainVars, loopVars, connVars, nsd, count, crashed>>

OnRegistrationFailed ==
    /\ nsdQ # <<>> /\ Head(nsdQ) = "failed"
    /\ nsdQ' = Tail(nsdQ)
    /\ mdnsRegistered' = FALSE
    /\ notif' = -1
    /\ UNCHANGED <<mainVars, loopVars, connVars, nsd, count, crashed>>

OnServiceUnregisteredLogs ==    \* mutant of OnServiceUnregistered: it only logs
    /\ nsdQ # <<>> /\ Head(nsdQ) = "unregistered"
    /\ nsdQ' = Tail(nsdQ)
    /\ UNCHANGED <<mainVars, loopVars, connVars, nsd, count, mdnsRegistered, notif,
                   crashed>>

OnServiceUnregistered ==
    /\ nsdQ # <<>> /\ Head(nsdQ) = "unregistered"
    /\ nsdQ' = Tail(nsdQ)
    /\ mdnsRegistered' = FALSE
    /\ UNCHANGED <<mainVars, loopVars, connVars, nsd, count, notif, crashed>>

-----------------------------------------------------------------------------
Main == OnCreate \/ DestroyFlag \/ DestroyClose \/ DestroyStop \/ DestroyClear \/ DestroyReset

AcceptLoop(i) ==
    \/ ALoop(i) \/ AAccept(i) \/ AClosed(i) \/ AFails(i) \/ ACount(i)
    \/ ASnapshot(i) \/ ANotify(i) \/ AAdd(i) \/ ASpawn(i)

SessionThread(c) ==
    TStart(c) \/ TRun(c) \/ TRemove(c) \/ TDec(c) \/ TSnapshot(c) \/ TNotify(c) \/ TThrow(c)

Callbacks == OnServiceRegistered \/ OnRegistrationFailed \/ OnServiceUnregistered

(* A crashed process does nothing any more. *)
Next ==
    /\ ~crashed
    /\ \/ Main
       \/ \E i \in Instances : AcceptLoop(i) \/ NsdAnswers(i)
       \/ \E c \in Conns : SessionThread(c) \/ Connect(c)
       \/ Callbacks

Spec == Init /\ [][Next]_vars

(* Threads run; an onDestroy that has begun ends; run() ends once stop()    *)
(* has closed its socket (HidSession, StopEndsSession), and with a receiver *)
(* that stays it need not end otherwise.  Nothing makes the system start or *)
(* stop the service.                                                        *)
Running(A) == ~crashed /\ A

StoppedRun(c) == ~open[c] /\ TRun(c)

Fairness ==
    /\ WF_vars(Running(DestroyClose \/ DestroyStop \/ DestroyClear \/ DestroyReset))
    /\ \A i \in Instances :
         WF_vars(Running(\/ ALoop(i) \/ AAccept(i) \/ AClosed(i) \/ ACount(i)
                         \/ ASnapshot(i) \/ ANotify(i) \/ AAdd(i) \/ ASpawn(i)))
    /\ \A c \in Conns :
         WF_vars(Running(\/ TStart(c) \/ StoppedRun(c) \/ TRemove(c) \/ TDec(c)
                         \/ TSnapshot(c) \/ TNotify(c) \/ TThrow(c)))

FairSpec == Spec /\ Fairness

-----------------------------------------------------------------------------
(* Every variable keeps its type; in particular the count stays natural     *)
(* when a session ends after reset().                                       *)
TypeOK ==
    /\ mainPc \in {"none", "up", "close", "stop", "reset"}
    /\ inst \in 0 .. MaxInst /\ (mainPc # "none" => inst # 0)
    /\ toStop \subseteq Conns
    /\ acceptLoopAlive \in [Instances -> BOOLEAN]
    /\ server \in [Instances -> {"none", "open", "closed"}]
    /\ sessions \in [Instances -> SUBSET Conns]
    /\ acceptPc \in [Instances -> {"none", "loop", "accept", "count", "snapshot", "notify",
                                   "add", "spawn", "ended"}]
    /\ client \in [Instances -> Conns \cup {NoConn}]
    /\ seen \in [Instances -> Nat]
    /\ conn \in [Conns -> {"unborn", "backlog", "reset", "accepted"}]
    /\ owner \in [Conns -> 0 .. MaxInst]
    /\ open \in [Conns -> BOOLEAN]
    /\ sessPc \in [Conns -> {"none", "start", "run", "remove", "dec", "snapshot", "notify",
                             "throw_remove", "throw_dec", "throw_snapshot", "throw_notify",
                             "throw", "done"}]
    /\ shown \in [Conns -> Nat]
    /\ count \in Nat /\ mdnsRegistered \in BOOLEAN
    /\ notif \in Nat \cup {-1}
    /\ nsd \in [Instances -> {"none", "pending", "registered"}]
    /\ nsdQ \in Seq({"registered", "failed", "unregistered"})
    /\ crashed \in BOOLEAN

(* Connections between their incSessions() and their decSessions(). *)
Accepting(i) == acceptPc[i] \in {"snapshot", "notify", "add", "spawn"}
Counted ==
    {c \in Conns : \/ sessPc[c] \in {"start", "run", "remove", "dec", "throw_remove", "throw_dec"}
                   \/ \E i \in Instances : client[i] = c /\ Accepting(i)}

(* The diagnostic line never shows a session that is not there, whatever    *)
(* reset() and late threads of an earlier instance do to the count; with no *)
(* session left it is back at 0.                                            *)
NoPhantomSession == count <= Cardinality(Counted)

(* Until the first onDestroy resets it, the count is exact. *)
CountExact ==
    (inst = 1 /\ mainPc # "none") => count = Cardinality(Counted)

(* onDestroy can find every session of its instance that has started, and   *)
(* the list keeps none whose thread is past its finally.                    *)
SessionsTracked ==
    /\ \A c \in Conns :
         (mainPc = "up" /\ owner[c] = inst /\ sessPc[c] \in {"start", "run"})
             => c \in sessions[inst]
    /\ \A i \in Instances : \A c \in sessions[i] :
         owner[c] = i /\ sessPc[c] \in {"none", "start", "run", "remove", "throw_remove"}

(* With no callback outstanding, "mDNS" in the diagnostic line means that   *)
(* NsdManager does advertise the service, though reset() and a late         *)
(* onServiceRegistered may have crossed.                                    *)
MdnsHonest == (nsdQ = <<>> /\ mdnsRegistered) => \E i \in Instances : nsd[i] = "registered"

(* A session onDestroy stops does end. *)
StoppedSessionsEnd ==
    \A c \in Conns : (c \in toStop) ~> (sessPc[c] = "done" \/ crashed)

(* The accept loop of a destroyed instance ends, blocked in accept() or not. *)
AcceptLoopEnds ==
    \A i \in Instances : ~acceptLoopAlive[i] ~> (acceptPc[i] \in {"none", "ended"} \/ crashed)

(* A receiver that connects is accepted, however long the sessions before   *)
(* it last, unless the listener closes or its accept loop never started or  *)
(* failed.                                                                  *)
ListenerServes ==
    \A c \in Conns :
        conn[c] = "backlog" ~> \/ conn[c] # "backlog"
                               \/ acceptPc[owner[c]] \in {"none", "ended"}
                               \/ crashed

-----------------------------------------------------------------------------
(* What the documentation says of the service and the code does not do.     *)

(* "Tracking active sessions so we can tear them down cleanly on stop":     *)
(* once onDestroy is over no session goes on.                               *)
SessionsStopped == mainPc = "none" => \A c \in Conns : sessPc[c] = "run" => ~open[c]
=============================================================================
