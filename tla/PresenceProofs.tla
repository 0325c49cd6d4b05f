---------------------------- MODULE PresenceProofs ----------------------------
(* Theorems about Presence - type correctness, who is online, who stands in     *)
(* which list - and about RustSpeak, which composes it with the clients.        *)
(*                                                                             *)
(* The invariant has three parts.  SessionPart speaks of the control state of   *)
(* connections and of online_users; DataPart types the lists and the locals of  *)
(* handlers, for which it needs from SessionPart that a running handler knows   *)
(* its user; RosterPart balances the lists against the sessions.  A step is     *)
(* first reduced to its effect on the variables of one part, then that part is  *)
(* shown to survive the effect.  The composition is then shown to add no step   *)
(* to the server, so that all of this holds of it too; LinkInv and FollowInv    *)
(* say what a client may and must show while broadcasts are under way.          *)
EXTENDS RustSpeak, TLAPS, SequenceTheorems, FiniteSetTheorems

-------------------------------------------------------------------------------
(* The inductive invariant.                                                    *)

\* The handler's progress determines everything else a connection may have.
SessInv ==
  /\ \A s \in Conns : auth[s] \in {"none", "recv", "rejected"} <=> user[s] = NoUser
  /\ \A s \in Conns : acc = s => auth[s] \notin {"none", "rejected", "done"}
  /\ \A s \in Conns : auth[s] = "recv" => acc = s
  /\ \A s \in Conns : link[s] = "new" => auth[s] = "none"
  /\ \A s \in Conns :
       tasks[s] # {} \/ swpc[s] # "idle" \/ closed[s] \/ finpc[s] \notin {"none", "done"}
         => auth[s] = "done"
  /\ \A s \in Conns : finpc[s] = "done" => auth[s] \in {"done", "rejected"}

\* Between the AlreadyOnline test and the insertion the place stays free; a
\* session inserted and not yet left holds the place of its user.
PlaceInv ==
  /\ \A s \in Conns :
       acc = s /\ auth[s] \in {"bcast", "insert"} => online[user[s]] = NoConn
  /\ \A s \in Conns :
       Inserted(s) /\ Present(s) /\ user[s] \notin gone => online[user[s]] = s

SessionPart == TypeSession /\ SessInv /\ PlaceInv /\ OnlineIsLive

\* A profile taken out of one list is at hand when it is pushed to the other.
ProfInv == \A s \in Conns : swpc[s] \in {"pushc", "pushp"} => sw[s].prof \in Users

DataPart == TypeServer /\ TypeRoster /\ TypeLocals /\ ProfInv

IInv == SessionPart /\ DataPart

LEMMA InitIInv == Init => IInv
<1> SUFFICES ASSUME Init PROVE IInv
  OBVIOUS
<1>1. TypeSession
  BY ConstantsOK DEF Init, TypeSession, AuthPc, SwPc, FinPc
<1>2. SessInv /\ PlaceInv /\ OnlineIsLive
  BY ConstantsOK DEF Init, SessInv, PlaceInv, OnlineIsLive, Inserted, Present
<1>3. TypeServer
  BY ConstantsOK DEF Init, TypeServer
<1>5. TypeRoster
  <2>1. <<>> \in Seq(Users)
    OBVIOUS
  <2> QED
    BY <2>1, ConstantsOK DEF Init, TypeRoster
<1>4. TypeLocals /\ ProfInv
  BY ConstantsOK DEF Init, TypeLocals, SwitchLocals, FinishLocals, ProfInv, NoSwitch,
     NoFinish
<1> QED
  BY <1>1, <1>2, <1>3, <1>4, <1>5 DEF IInv, SessionPart, DataPart

-------------------------------------------------------------------------------
(* SessionPart: one step per action.                                           *)

LEMMA AcceptorSession ==
  ASSUME SessionPart, NEW s \in Conns, Acceptor(s)
  PROVE  SessionPart'
<1> USE DEF sessVars, accVars, rosterVars, swVars, finVars, history
<1>a. TypeSession /\ SessInv /\ PlaceInv /\ OnlineIsLive
  BY DEF SessionPart
<1>1. CASE Accept(s)
  <2>1. /\ link[s] = "new"
        /\ acc = NoConn
        /\ acc' = s
        /\ link' = [link EXCEPT ![s] = "up"]
        /\ auth' = [auth EXCEPT ![s] = "recv"]
        /\ UNCHANGED <<user, online, tasks, swpc, closed, finpc, gone>>
    BY <1>1 DEF Accept
  <2>2. TypeSession'
    BY <2>1, <1>a DEF TypeSession, AuthPc, FinPc
  <2>3. SessInv'
    BY <2>1, <1>a, ConstantsOK DEF SessInv, TypeSession
  <2>4. PlaceInv' /\ OnlineIsLive'
    BY <2>1, <1>a, ConstantsOK DEF TypeSession, SessInv, PlaceInv, OnlineIsLive, Inserted,
       Present
  <2> QED
    BY <2>2, <2>3, <2>4 DEF SessionPart
<1>2. CASE AuthReject(s)
  <2>1. /\ acc = s
        /\ auth[s] = "recv"
        /\ acc' = NoConn
        /\ link' = [link EXCEPT ![s] = "down"]
        /\ auth' = [auth EXCEPT ![s] = "rejected"]
        /\ finpc' = [finpc EXCEPT ![s] = IF link[s] = "up" THEN "done" ELSE @]
        /\ UNCHANGED <<user, online, tasks, swpc, closed, gone>>
    BY <1>2 DEF AuthReject, Return
  <2>2. TypeSession'
    BY <2>1, <1>a DEF TypeSession, AuthPc, FinPc
  <2>3. SessInv'
    BY <2>1, <1>a, ConstantsOK DEF SessInv, TypeSession
  <2>4. PlaceInv' /\ OnlineIsLive'
    BY <2>1, <1>a, ConstantsOK DEF TypeSession, SessInv, PlaceInv, OnlineIsLive, Inserted,
       Present
  <2> QED
    BY <2>2, <2>3, <2>4 DEF SessionPart
<1>3. ASSUME NEW u \in Users, AuthAccept(s, u) PROVE SessionPart'
  <2>1. CASE UNCHANGED <<user, auth>>
    <3>1. UNCHANGED <<link, user, acc, auth, online, tasks, swpc, closed, finpc, gone>>
      BY <1>3, <2>1 DEF AuthAccept
    <3> QED
      BY <3>1, <1>a DEF SessionPart, TypeSession, SessInv, PlaceInv, OnlineIsLive,
         Inserted, Present
  <2>2. CASE user' = [user EXCEPT ![s] = u] /\ auth' = [auth EXCEPT ![s] = "bcast"]
    <3>1. /\ acc = s /\ auth[s] = "recv" /\ online[u] = NoConn
          /\ UNCHANGED <<link, acc, online, tasks, swpc, closed, finpc, gone>>
      BY <1>3 DEF AuthAccept, AlreadyOnline
    <3>2. TypeSession'
      BY <2>2, <3>1, <1>a DEF TypeSession, AuthPc
    <3>3. SessInv'
      BY <2>2, <3>1, <1>a, ConstantsOK DEF SessInv, TypeSession
    <3>4. PlaceInv' /\ OnlineIsLive'
      BY <2>2, <3>1, <1>a, ConstantsOK DEF TypeSession, SessInv, PlaceInv, OnlineIsLive,
         Inserted, Present
    <3> QED
      BY <3>2, <3>3, <3>4 DEF SessionPart
  <2> QED
    BY <1>3, <2>1, <2>2 DEF AuthAccept
<1>4. CASE AuthBroadcast(s)
  <2>1. /\ acc = s
        /\ auth[s] = "bcast"
        /\ acc' \in {s, NoConn}
        /\ auth' = auth \/ (acc' = s /\ auth' = [auth EXCEPT ![s] = "insert"])
        /\ UNCHANGED <<link, user, online, tasks, swpc, closed, finpc, gone>>
    BY <1>4 DEF AuthBroadcast, Return
  <2>2. TypeSession'
    BY <2>1, <1>a DEF TypeSession, AuthPc, FinPc
  <2>3. SessInv'
    BY <2>1, <1>a, ConstantsOK DEF SessInv, TypeSession
  <2>4. PlaceInv' /\ OnlineIsLive'
    BY <2>1, <1>a, ConstantsOK DEF TypeSession, SessInv, PlaceInv, OnlineIsLive, Inserted,
       Present
  <2> QED
    BY <2>2, <2>3, <2>4 DEF SessionPart
<1>5. CASE AuthInsert(s)
  <2>1. /\ acc = s
        /\ auth[s] = "insert"
        /\ online' = [online EXCEPT ![user[s]] = s]
        /\ auth' = [auth EXCEPT ![s] = "pushc"]
        /\ UNCHANGED <<link, user, acc, tasks, swpc, closed, finpc, gone>>
    BY <1>5 DEF AuthInsert
  <2>2. TypeSession'
    BY <2>1, <1>a DEF TypeSession, AuthPc, FinPc
  <2>3. SessInv'
    BY <2>1, <1>a, ConstantsOK DEF SessInv, TypeSession
  <2>4. PlaceInv' /\ OnlineIsLive'
    BY <2>1, <1>a, ConstantsOK DEF TypeSession, SessInv, PlaceInv, OnlineIsLive, Inserted,
       Present
  <2> QED
    BY <2>2, <2>3, <2>4 DEF SessionPart
<1>6. CASE AuthPushClients(s)
  <2>1. /\ acc = s
        /\ auth[s] = "pushc"
        /\ auth' = [auth EXCEPT ![s] = "pushp"]
        /\ UNCHANGED <<link, user, acc, online, tasks, swpc, closed, finpc, gone>>
    BY <1>6 DEF AuthPushClients
  <2>2. TypeSession'
    BY <2>1, <1>a DEF TypeSession, AuthPc, FinPc
  <2>3. SessInv'
    BY <2>1, <1>a, ConstantsOK DEF SessInv, TypeSession
  <2>4. PlaceInv' /\ OnlineIsLive'
    BY <2>1, <1>a, ConstantsOK DEF TypeSession, SessInv, PlaceInv, OnlineIsLive, Inserted,
       Present
  <2> QED
    BY <2>2, <2>3, <2>4 DEF SessionPart
<1>7. CASE AuthPushProto(s)
  <2>1. /\ acc = s
        /\ auth[s] = "pushp"
        /\ auth' = auth \/ auth' = [auth EXCEPT ![s] = "snap"]
        /\ UNCHANGED <<link, user, acc, online, tasks, swpc, closed, finpc, gone>>
    BY <1>7 DEF AuthPushProto
  <2>2. TypeSession'
    BY <2>1, <1>a DEF TypeSession, AuthPc, FinPc
  <2>3. SessInv'
    BY <2>1, <1>a, ConstantsOK DEF SessInv, TypeSession
  <2>4. PlaceInv' /\ OnlineIsLive'
    BY <2>1, <1>a, ConstantsOK DEF TypeSession, SessInv, PlaceInv, OnlineIsLive, Inserted,
       Present
  <2> QED
    BY <2>2, <2>3, <2>4 DEF SessionPart
<1>8. CASE AuthSnapshot(s)
  <2>1. /\ acc = s
        /\ auth[s] = "snap"
        /\ auth' = auth \/ auth' = [auth EXCEPT ![s] = "reply"]
        /\ UNCHANGED <<link, user, acc, online, tasks, swpc, closed, finpc, gone>>
    BY <1>8 DEF AuthSnapshot
  <2>2. TypeSession'
    BY <2>1, <1>a DEF TypeSession, AuthPc, FinPc
  <2>3. SessInv'
    BY <2>1, <1>a, ConstantsOK DEF SessInv, TypeSession
  <2>4. PlaceInv' /\ OnlineIsLive'
    BY <2>1, <1>a, ConstantsOK DEF TypeSession, SessInv, PlaceInv, OnlineIsLive, Inserted,
       Present
  <2> QED
    BY <2>2, <2>3, <2>4 DEF SessionPart
<1>9. CASE AuthReply(s)
  <2>1. /\ acc = s
        /\ auth[s] = "reply"
        /\ acc' \in {s, NoConn}
        /\ auth' = auth \/ (acc' = s /\ auth' = [auth EXCEPT ![s] = "ka"])
        /\ UNCHANGED <<link, user, online, tasks, swpc, closed, finpc, gone>>
    BY <1>9 DEF AuthReply, Return
  <2>2. TypeSession'
    BY <2>1, <1>a DEF TypeSession, AuthPc, FinPc
  <2>3. SessInv'
    BY <2>1, <1>a, ConstantsOK DEF SessInv, TypeSession
  <2>4. PlaceInv' /\ OnlineIsLive'
    BY <2>1, <1>a, ConstantsOK DEF TypeSession, SessInv, PlaceInv, OnlineIsLive, Inserted,
       Present
  <2> QED
    BY <2>2, <2>3, <2>4 DEF SessionPart
<1>10. CASE AuthKeepAlive(s)
  <2>1. /\ acc = s
        /\ auth[s] = "ka"
        /\ acc' = NoConn
        /\ \/ UNCHANGED <<auth, tasks>>
         \/ /\ auth' = [auth EXCEPT ![s] = "done"]
            /\ tasks' = [tasks EXCEPT ![s] = Readers]
        /\ UNCHANGED <<link, user, online, swpc, closed, finpc, gone>>
    BY <1>10 DEF AuthKeepAlive, Return
  <2>2. TypeSession'
    BY <2>1, <1>a DEF TypeSession, AuthPc, FinPc
  <2>3. SessInv'
    BY <2>1, <1>a, ConstantsOK DEF SessInv, TypeSession
  <2>4. PlaceInv' /\ OnlineIsLive'
    BY <2>1, <1>a, ConstantsOK DEF TypeSession, SessInv, PlaceInv, OnlineIsLive, Inserted,
       Present
  <2> QED
    BY <2>2, <2>3, <2>4 DEF SessionPart
<1>11. CASE AuthPanic(s)
  <2>1. UNCHANGED <<link, user, acc, auth, online, tasks, swpc, closed, finpc, gone>>
    BY <1>11 DEF AuthPanic
  <2> QED
    BY <2>1, <1>a DEF SessionPart, TypeSession, SessInv, PlaceInv, OnlineIsLive, Inserted,
       Present
<1> QED
  BY <1>1, <1>2, <1>3, <1>4, <1>5, <1>6, <1>7, <1>8, <1>9, <1>10, <1>11 DEF Acceptor

\* Whatever the packet handler does, it moves its own counter or loses its task.
HandlerEffect(s) ==
  /\ tasks[s] # {}
  /\ swpc' = swpc \/ \E p \in SwPc : swpc' = [swpc EXCEPT ![s] = p]
  /\ tasks' = tasks \/ \E t : tasks' = [tasks EXCEPT ![s] = @ \ {t}]
  /\ UNCHANGED <<link, user, acc, auth, online, closed, finpc, gone>>

LEMMA HandlerEffectSession ==
  ASSUME SessionPart, NEW s \in Conns, HandlerEffect(s)
  PROVE  SessionPart'
<1>1. TypeSession'
  BY DEF HandlerEffect, SessionPart, TypeSession
<1>2. SessInv'
  BY DEF HandlerEffect, SessionPart, TypeSession, SessInv
<1>3. PlaceInv' /\ OnlineIsLive'
  BY DEF HandlerEffect, SessionPart, TypeSession, SessInv, PlaceInv, OnlineIsLive,
     Inserted, Present
<1> QED
  BY <1>1, <1>2, <1>3 DEF SessionPart

LEMMA HandlerSession ==
  ASSUME SessionPart, NEW s \in Conns,
         \/ \E c \in Channels : SwitchRequest(s, c)
         \/ Switching(s) \/ PanicPacket(s) \/ VoicePanic(s)
  PROVE  SessionPart'
<1> USE DEF sessVars, accVars, rosterVars, swVars, finVars, history, Handling, Panic, SwPc
<1>1. CASE SwitchRefuse(s)
  <2>1. HandlerEffect(s)
    BY <1>1 DEF SwitchRefuse, HandlerEffect
  <2> QED
    BY <2>1, HandlerEffectSession
<1>2. CASE SwitchFindClient(s)
  <2>1. HandlerEffect(s)
    BY <1>2 DEF SwitchFindClient, HandlerEffect
  <2> QED
    BY <2>1, HandlerEffectSession
<1>3. CASE SwitchRemoveClient(s)
  <2>1. HandlerEffect(s)
    BY <1>3 DEF SwitchRemoveClient, HandlerEffect
  <2> QED
    BY <2>1, HandlerEffectSession
<1>4. CASE SwitchFindProto(s)
  <2>1. HandlerEffect(s)
    BY <1>4 DEF SwitchFindProto, HandlerEffect
  <2> QED
    BY <2>1, HandlerEffectSession
<1>5. CASE SwitchRemoveProto(s)
  <2>1. HandlerEffect(s)
    BY <1>5 DEF SwitchRemoveProto, HandlerEffect
  <2> QED
    BY <2>1, HandlerEffectSession
<1>6. CASE SwitchPushClients(s)
  <2>1. HandlerEffect(s)
    BY <1>6 DEF SwitchPushClients, HandlerEffect
  <2> QED
    BY <2>1, HandlerEffectSession
<1>7. CASE SwitchPushProto(s)
  <2>1. HandlerEffect(s)
    BY <1>7 DEF SwitchPushProto, HandlerEffect
  <2> QED
    BY <2>1, HandlerEffectSession
<1>8. CASE SwitchStore(s)
  <2>1. HandlerEffect(s)
    BY <1>8 DEF SwitchStore, HandlerEffect
  <2> QED
    BY <2>1, HandlerEffectSession
<1>9. CASE SwitchReply(s)
  <2>1. HandlerEffect(s)
    BY <1>9 DEF SwitchReply, HandlerEffect
  <2> QED
    BY <2>1, HandlerEffectSession
<1>10. CASE SwitchBroadcast(s)
  <2>1. HandlerEffect(s)
    BY <1>10 DEF SwitchBroadcast, HandlerEffect
  <2> QED
    BY <2>1, HandlerEffectSession
<1>11. CASE PanicPacket(s)
  <2>1. HandlerEffect(s)
    BY <1>11 DEF PanicPacket, HandlerEffect
  <2> QED
    BY <2>1, HandlerEffectSession
<1>12. CASE VoicePanic(s)
  <2>1. HandlerEffect(s)
    BY <1>12 DEF VoicePanic, HandlerEffect
  <2> QED
    BY <2>1, HandlerEffectSession
<1>13. ASSUME NEW c \in Channels, SwitchRequest(s, c) PROVE SessionPart'
  <2>1. HandlerEffect(s)
    BY <1>13 DEF SwitchRequest, HandlerEffect
  <2> QED
    BY <2>1, HandlerEffectSession
<1> QED
  BY <1>1, <1>2, <1>3, <1>4, <1>5, <1>6, <1>7, <1>8, <1>9, <1>10, <1>11, <1>12, <1>13
     DEF Switching

LEMMA ClosingSession ==
  ASSUME SessionPart, NEW s \in Conns,
         \/ DisconnectPacket(s) \/ Finishing(s) \/ LinkDown(s)
         \/ \E t \in Readers : ReaderError(s, t)
  PROVE  SessionPart'
<1> USE DEF sessVars, accVars, rosterVars, swVars, finVars, history
<1>a. TypeSession /\ SessInv /\ PlaceInv /\ OnlineIsLive
  BY DEF SessionPart
<1>1. CASE DisconnectPacket(s)
  <2>1. /\ tasks[s] # {}
        /\ online' = [online EXCEPT ![user[s]] = NoConn]
        /\ gone' = gone \cup {user[s]}
        /\ UNCHANGED <<link, user, acc, auth, tasks, swpc, closed, finpc>>
    BY <1>1 DEF DisconnectPacket, Handling
  <2>2. TypeSession'
    BY <2>1, <1>a, ConstantsOK DEF TypeSession, FinPc, SessInv
  <2>3. SessInv'
    BY <2>1, <1>a, ConstantsOK DEF SessInv, TypeSession
  <2>4. PlaceInv' /\ OnlineIsLive'
    BY <2>1, <1>a, ConstantsOK DEF TypeSession, SessInv, PlaceInv, OnlineIsLive, Inserted,
       Present
  <2> QED
    BY <2>2, <2>3, <2>4 DEF SessionPart
<1>2. CASE FinishOnline(s)
  <2>1. /\ finpc[s] = "online"
        /\ online' = [online EXCEPT ![user[s]] = NoConn]
        /\ finpc' = [finpc EXCEPT ![s] = "load"]
        /\ UNCHANGED <<link, user, acc, auth, tasks, swpc, closed, gone>>
    BY <1>2 DEF FinishOnline
  <2>2. TypeSession'
    BY <2>1, <1>a, ConstantsOK DEF TypeSession, FinPc
  <2>3. SessInv'
    BY <2>1, <1>a, ConstantsOK DEF SessInv, TypeSession
  <2>4. PlaceInv' /\ OnlineIsLive'
    BY <2>1, <1>a, ConstantsOK DEF TypeSession, SessInv, PlaceInv, OnlineIsLive, Inserted,
       Present
  <2> QED
    BY <2>2, <2>3, <2>4 DEF SessionPart
<1>3. CASE FinishClients(s)
  <2>1. /\ finpc[s] = "clients"
        /\ finpc' \in {finpc, [finpc EXCEPT ![s] = "proto"]}
        /\ UNCHANGED <<link, user, acc, auth, online, tasks, swpc, closed, gone>>
    BY <1>3 DEF FinishClients
  <2>2. TypeSession'
    BY <2>1, <1>a, ConstantsOK DEF TypeSession, FinPc
  <2>3. SessInv'
    BY <2>1, <1>a, ConstantsOK DEF SessInv, TypeSession
  <2>4. PlaceInv' /\ OnlineIsLive'
    BY <2>1, <1>a, ConstantsOK DEF TypeSession, SessInv, PlaceInv, OnlineIsLive, Inserted,
       Present
  <2> QED
    BY <2>2, <2>3, <2>4 DEF SessionPart
<1>4. CASE FinishProto(s)
  <2>1. /\ finpc[s] = "proto"
        /\ \E p \in {"proto", "bcast", "shut"} : finpc' = [finpc EXCEPT ![s] = p]
        /\ UNCHANGED <<link, user, acc, auth, online, tasks, swpc, closed, gone>>
    BY <1>4, <1>a DEF FinishProto, TypeSession
  <2>2. TypeSession'
    BY <2>1, <1>a, ConstantsOK DEF TypeSession, FinPc
  <2>3. SessInv'
    BY <2>1, <1>a, ConstantsOK DEF SessInv, TypeSession
  <2>4. PlaceInv' /\ OnlineIsLive'
    BY <2>1, <1>a, ConstantsOK DEF TypeSession, SessInv, PlaceInv, OnlineIsLive, Inserted,
       Present
  <2> QED
    BY <2>2, <2>3, <2>4 DEF SessionPart
<1>5. CASE FinishBroadcast(s)
  <2>1. /\ finpc[s] = "bcast"
        /\ finpc' \in {finpc, [finpc EXCEPT ![s] = "shut"]}
        /\ UNCHANGED <<link, user, acc, auth, online, tasks, swpc, closed, gone>>
    BY <1>5 DEF FinishBroadcast
  <2>2. TypeSession'
    BY <2>1, <1>a, ConstantsOK DEF TypeSession, FinPc
  <2>3. SessInv'
    BY <2>1, <1>a, ConstantsOK DEF SessInv, TypeSession
  <2>4. PlaceInv' /\ OnlineIsLive'
    BY <2>1, <1>a, ConstantsOK DEF TypeSession, SessInv, PlaceInv, OnlineIsLive, Inserted,
       Present
  <2> QED
    BY <2>2, <2>3, <2>4 DEF SessionPart
<1>6. CASE CloseLink(s)
  <2>1. /\ finpc[s] = "shut"
        /\ link' = [link EXCEPT ![s] = "down"]
        /\ finpc' = [finpc EXCEPT ![s] = "done"]
        /\ UNCHANGED <<user, acc, auth, online, tasks, swpc, closed, gone>>
    BY <1>6 DEF CloseLink
  <2>2. TypeSession'
    BY <2>1, <1>a, ConstantsOK DEF TypeSession, FinPc
  <2>3. SessInv'
    BY <2>1, <1>a, ConstantsOK DEF SessInv, TypeSession
  <2>4. PlaceInv' /\ OnlineIsLive'
    BY <2>1, <1>a, ConstantsOK DEF TypeSession, SessInv, PlaceInv, OnlineIsLive, Inserted,
       Present
  <2> QED
    BY <2>2, <2>3, <2>4 DEF SessionPart
<1>7. CASE LinkDown(s)
  <2>1. /\ link[s] = "up"
        /\ link' = [link EXCEPT ![s] = "down"]
        /\ UNCHANGED <<user, acc, auth, online, tasks, swpc, closed, finpc, gone>>
    BY <1>7 DEF LinkDown
  <2>2. TypeSession'
    BY <2>1, <1>a, ConstantsOK DEF TypeSession, FinPc
  <2>3. SessInv'
    BY <2>1, <1>a, ConstantsOK DEF SessInv, TypeSession
  <2>4. PlaceInv' /\ OnlineIsLive'
    BY <2>1, <1>a, ConstantsOK DEF TypeSession, SessInv, PlaceInv, OnlineIsLive, Inserted,
       Present
  <2> QED
    BY <2>2, <2>3, <2>4 DEF SessionPart
<1>8. ASSUME NEW t \in Readers, ReaderError(s, t) PROVE SessionPart'
  <2>1. /\ tasks[s] # {}
        /\ tasks' = [tasks EXCEPT ![s] = @ \ {t}]
        /\ closed' = [closed EXCEPT ![s] = TRUE]
        /\ finpc' \in {finpc, [finpc EXCEPT ![s] = "online"]}
        /\ finpc' # finpc => finpc[s] = "none"
        /\ UNCHANGED <<link, user, acc, auth, online, swpc, gone>>
    <3>1. user[s] # NoUser
      BY <1>8, <1>a DEF ReaderError, SessInv
    <3> QED
      BY <1>8, <1>a, <3>1 DEF ReaderError, TypeSession
  <2>2. TypeSession'
    BY <2>1, <1>a, ConstantsOK DEF TypeSession, FinPc
  <2>3. SessInv'
    BY <2>1, <1>a, ConstantsOK DEF SessInv, TypeSession
  <2>4. PlaceInv' /\ OnlineIsLive'
    BY <2>1, <1>a, ConstantsOK DEF TypeSession, SessInv, PlaceInv, OnlineIsLive, Inserted,
       Present
  <2> QED
    BY <2>2, <2>3, <2>4 DEF SessionPart
<1>9. CASE FinishLoad(s)
  <2>1. /\ finpc[s] = "load"
        /\ finpc' = [finpc EXCEPT ![s] = "clients"]
        /\ UNCHANGED <<link, user, acc, auth, online, tasks, swpc, closed, gone>>
    BY <1>9 DEF FinishLoad
  <2>2. TypeSession'
    BY <2>1, <1>a, ConstantsOK DEF TypeSession, FinPc
  <2>3. SessInv'
    BY <2>1, <1>a, ConstantsOK DEF SessInv, TypeSession
  <2>4. PlaceInv' /\ OnlineIsLive'
    BY <2>1, <1>a, ConstantsOK DEF TypeSession, SessInv, PlaceInv, OnlineIsLive, Inserted,
       Present
  <2> QED
    BY <2>2, <2>3, <2>4 DEF SessionPart
<1> QED
  BY <1>1, <1>2, <1>3, <1>4, <1>5, <1>6, <1>7, <1>8, <1>9 DEF Finishing

-------------------------------------------------------------------------------
(* DataPart.                                                                   *)

\* A session whose login got this far, or that has a task, knows its user.
LEMMA KnownUser ==
  ASSUME SessionPart, NEW s \in Conns,
         auth[s] \notin {"none", "recv", "rejected"} \/ tasks[s] # {}
  PROVE  user[s] \in Users
BY DEF SessionPart, SessInv, TypeSession

\* The forms in which the lists and the locals are updated, and that they keep
\* their types.
ListUpdate ==
  \/ UNCHANGED <<clients, proto>>
  \/ \E c \in Channels, u \in Users :
       \/ clients' = [clients EXCEPT ![c] = Append(@, u)] /\ UNCHANGED proto
       \/ proto' = [proto EXCEPT ![c] = Append(@, u)] /\ UNCHANGED clients
  \/ \E c \in Channels : \E i \in DOMAIN clients[c] :
       clients' = [clients EXCEPT ![c] = RemoveAt(@, i)] /\ UNCHANGED proto
  \/ \E c \in Channels : \E i \in DOMAIN proto[c] :
       proto' = [proto EXCEPT ![c] = RemoveAt(@, i)] /\ UNCHANGED clients

SwitchUpdate(s) ==
  \/ sw' \in {sw, [sw EXCEPT ![s] = NoSwitch], [sw EXCEPT ![s].idx = 0],
              [sw EXCEPT ![s].prof = NoUser], [sw EXCEPT ![s].todo = Users]}
  \/ \E c \in Channels : sw' = [sw EXCEPT ![s].to = c]
  \/ \E i \in Nat : sw' = [sw EXCEPT ![s].idx = i]
  \/ \E u \in Users : \/ sw' = [sw EXCEPT ![s].prof = u, ![s].idx = 0]
                      \/ sw' = [sw EXCEPT ![s].todo = @ \ {u}]

FinishUpdate(s) ==
  \/ fin' \in {fin, [fin EXCEPT ![s] = NoFinish], [fin EXCEPT ![s].dead = TRUE]}
  \/ \E b \in BOOLEAN : fin' = [fin EXCEPT ![s].send = b]
  \/ \E c \in Channels : fin' = [fin EXCEPT ![s].ch = c]
  \/ \E t \in SUBSET Users : fin' = [fin EXCEPT ![s].todo = t, ![s].send = FALSE]
  \/ \E u \in Users : fin' = [fin EXCEPT ![s].todo = @ \ {u}]

LEMMA ListElement ==
  ASSUME NEW f \in [Channels -> Seq(Users)], NEW c \in Channels, NEW i \in DOMAIN f[c]
  PROVE  f[c][i] \in Users /\ i \in Nat
OBVIOUS

\* Vec::remove at a valid position: what is left, and where.
LEMMA RemoveAtType ==
  ASSUME NEW S, NEW q \in Seq(S), NEW i \in DOMAIN q
  PROVE  /\ RemoveAt(q, i) \in Seq(S)
         /\ Len(RemoveAt(q, i)) = Len(q) - 1
         /\ \A j \in 1..(Len(q) - 1) :
              RemoveAt(q, i)[j] = IF j < i THEN q[j] ELSE q[j + 1]
<1>1. i \in 1..Len(q) /\ Len(q) \in Nat
  OBVIOUS
<1> DEFINE p == SubSeq(q, 1, i - 1)
           r == SubSeq(q, i + 1, Len(q))
<1>2. /\ p \in Seq(S)
      /\ Len(p) = i - 1
      /\ \A j \in 1..(i - 1) : p[j] = q[j]
  BY <1>1, SubSeqProperties
<1>3. /\ r \in Seq(S)
      /\ Len(r) = Len(q) - i
      /\ \A j \in 1..(Len(q) - i) : r[j] = q[j + i]
  BY <1>1, SubSeqProperties
<1>4. /\ p \o r \in Seq(S)
      /\ Len(p \o r) = Len(p) + Len(r)
      /\ \A j \in 1..(Len(p) + Len(r)) :
           (p \o r)[j] = IF j <= Len(p) THEN p[j] ELSE r[j - Len(p)]
  BY <1>2, <1>3, ConcatProperties
<1>5. RemoveAt(q, i) = p \o r
  BY DEF RemoveAt
<1>6. Len(p \o r) = Len(q) - 1
  <2> HIDE DEF p, r
  <2> QED
    BY <1>1, <1>2, <1>3, <1>4
<1>7. ASSUME NEW j \in 1..(Len(q) - 1)
      PROVE  (p \o r)[j] = IF j < i THEN q[j] ELSE q[j + 1]
  <2> HIDE DEF p, r
  <2>1. CASE j < i
    <3>1. j \in 1..(i - 1) /\ j \in 1..(Len(p) + Len(r)) /\ j <= Len(p)
      BY <1>1, <1>2, <1>3, <2>1
    <3>2. (p \o r)[j] = p[j]
      BY <1>4, <3>1
    <3> QED
      BY <1>2, <2>1, <3>1, <3>2
  <2>2. CASE ~(j < i)
    <3>1. j - (i - 1) \in 1..(Len(q) - i) /\ (j - (i - 1)) + i = j + 1
      BY <1>1, <2>2
    <3>2. j \in 1..(Len(p) + Len(r)) /\ ~(j <= Len(p)) /\ j - Len(p) = j - (i - 1)
      BY <1>1, <1>2, <1>3, <2>2
    <3>3. (p \o r)[j] = r[j - (i - 1)]
      BY <1>4, <3>2
    <3> QED
      BY <1>3, <2>2, <3>1, <3>3
  <2> QED
    BY <2>1, <2>2
<1> HIDE DEF p, r
<1> QED
  BY <1>4, <1>5, <1>6, <1>7

LEMMA RosterKept ==
  ASSUME TypeRoster, UNCHANGED chan, ListUpdate
  PROVE  TypeRoster'
<1>1. /\ clients \in [Channels -> Seq(Users)] /\ proto \in [Channels -> Seq(Users)]
      /\ chan' \in [Conns -> Channels]
  BY DEF TypeRoster
<1> SUFFICES clients' \in [Channels -> Seq(Users)] /\ proto' \in [Channels -> Seq(Users)]
  BY <1>1 DEF TypeRoster
<1>2. ASSUME NEW f \in [Channels -> Seq(Users)], NEW c \in Channels, NEW u \in Users
      PROVE  [f EXCEPT ![c] = Append(@, u)] \in [Channels -> Seq(Users)]
  OBVIOUS
<1>3. ASSUME NEW f \in [Channels -> Seq(Users)], NEW c \in Channels, NEW i \in DOMAIN f[c]
      PROVE  [f EXCEPT ![c] = RemoveAt(@, i)] \in [Channels -> Seq(Users)]
  BY RemoveAtType
<1>4. CASE UNCHANGED <<clients, proto>>
  BY <1>1, <1>4
<1>5. ASSUME NEW c \in Channels, NEW u \in Users,
             \/ clients' = [clients EXCEPT ![c] = Append(@, u)] /\ UNCHANGED proto
             \/ proto' = [proto EXCEPT ![c] = Append(@, u)] /\ UNCHANGED clients
      PROVE  clients' \in [Channels -> Seq(Users)] /\ proto' \in [Channels -> Seq(Users)]
  <2>1. CASE clients' = [clients EXCEPT ![c] = Append(@, u)] /\ UNCHANGED proto
    BY <1>1, <1>2, <2>1
  <2>2. CASE proto' = [proto EXCEPT ![c] = Append(@, u)] /\ UNCHANGED clients
    BY <1>1, <1>2, <2>2
  <2> QED
    BY <1>5, <2>1, <2>2
<1>6. ASSUME NEW c \in Channels, NEW i \in DOMAIN clients[c],
             clients' = [clients EXCEPT ![c] = RemoveAt(@, i)] /\ UNCHANGED proto
      PROVE  clients' \in [Channels -> Seq(Users)] /\ proto' \in [Channels -> Seq(Users)]
  BY <1>1, <1>3, <1>6
<1>7. ASSUME NEW c \in Channels, NEW i \in DOMAIN proto[c],
             proto' = [proto EXCEPT ![c] = RemoveAt(@, i)] /\ UNCHANGED clients
      PROVE  clients' \in [Channels -> Seq(Users)] /\ proto' \in [Channels -> Seq(Users)]
  BY <1>1, <1>3, <1>7
<1> QED
  BY <1>4, <1>5, <1>6, <1>7 DEF ListUpdate

LEMMA LocalsKept ==
  ASSUME TypeLocals, NEW s \in Conns,
         \/ SwitchUpdate(s) /\ UNCHANGED fin
         \/ FinishUpdate(s) /\ UNCHANGED sw
  PROVE  TypeLocals'
<1>1. /\ sw \in [Conns -> SwitchLocals] /\ NoSwitch \in SwitchLocals /\ 0 \in Nat
      /\ fin \in [Conns -> FinishLocals] /\ NoFinish \in FinishLocals
  BY ConstantsOK DEF TypeLocals, SwitchLocals, NoSwitch, FinishLocals, NoFinish
<1>2. ASSUME SwitchUpdate(s) PROVE sw' \in [Conns -> SwitchLocals]
  <2>1. CASE sw' \in {sw, [sw EXCEPT ![s] = NoSwitch]}
    BY <1>1, <2>1
  <2>2. ASSUME NEW i \in Nat, sw' = [sw EXCEPT ![s].idx = i]
        PROVE  sw' \in [Conns -> SwitchLocals]
    BY <1>1, <2>2 DEF SwitchLocals
  <2>3. CASE sw' = [sw EXCEPT ![s].prof = NoUser]
    BY <1>1, <2>3 DEF SwitchLocals
  <2>4. CASE sw' = [sw EXCEPT ![s].todo = Users]
    BY <1>1, <2>4 DEF SwitchLocals
  <2>5. ASSUME NEW c \in Channels, sw' = [sw EXCEPT ![s].to = c]
        PROVE  sw' \in [Conns -> SwitchLocals]
    BY <1>1, <2>5 DEF SwitchLocals
  <2>6. ASSUME NEW u \in Users, sw' = [sw EXCEPT ![s].prof = u, ![s].idx = 0]
        PROVE  sw' \in [Conns -> SwitchLocals]
    BY <1>1, <2>6 DEF SwitchLocals
  <2>7. ASSUME NEW u \in Users, sw' = [sw EXCEPT ![s].todo = @ \ {u}]
        PROVE  sw' \in [Conns -> SwitchLocals]
    BY <1>1, <2>7 DEF SwitchLocals
  <2> QED
    BY <1>1, <1>2, <2>1, <2>2, <2>3, <2>4, <2>5, <2>6, <2>7 DEF SwitchUpdate
<1>3. ASSUME FinishUpdate(s) PROVE fin' \in [Conns -> FinishLocals]
  <2>1. CASE fin' \in {fin, [fin EXCEPT ![s] = NoFinish]}
    BY <1>1, <2>1
  <2>2. CASE fin' = [fin EXCEPT ![s].dead = TRUE]
    BY <1>1, <2>2 DEF FinishLocals
  <2>3. ASSUME NEW b \in BOOLEAN, fin' = [fin EXCEPT ![s].send = b]
        PROVE  fin' \in [Conns -> FinishLocals]
    BY <1>1, <2>3 DEF FinishLocals
  <2>6. ASSUME NEW c \in Channels, fin' = [fin EXCEPT ![s].ch = c]
        PROVE  fin' \in [Conns -> FinishLocals]
    BY <1>1, <2>6 DEF FinishLocals
  <2>4. ASSUME NEW t \in SUBSET Users, fin' = [fin EXCEPT ![s].todo = t, ![s].send = FALSE]
        PROVE  fin' \in [Conns -> FinishLocals]
    BY <1>1, <2>4 DEF FinishLocals
  <2>5. ASSUME NEW u \in Users, fin' = [fin EXCEPT ![s].todo = @ \ {u}]
        PROVE  fin' \in [Conns -> FinishLocals]
    BY <1>1, <2>5 DEF FinishLocals
  <2> QED
    BY <1>3, <2>1, <2>2, <2>3, <2>4, <2>5, <2>6 DEF FinishUpdate
<1> QED
  BY <1>1, <1>2, <1>3 DEF TypeLocals

LEMMA AcceptorData ==
  ASSUME SessionPart, DataPart, NEW s \in Conns,
         Acceptor(s)
  PROVE  DataPart'
<1> USE ConstantsOK DEF sessVars, accVars, rosterVars, swVars, finVars, history
<1>a. TypeServer /\ TypeRoster /\ TypeLocals /\ ProfInv /\ TypeSession
  BY DEF DataPart, SessionPart
<1>1. CASE Accept(s)
  <2>1. TypeServer'
    BY <1>1, <1>a DEF TypeServer, Accept
  <2>2. TypeRoster'
    BY <1>1, <1>a DEF TypeRoster, Accept
  <2>3. TypeLocals'
    BY <1>1, <1>a DEF TypeRoster, TypeLocals, Accept
  <2>4. ProfInv'
    BY <1>1, <1>a DEF TypeSession, TypeRoster, TypeLocals, SwitchLocals, ProfInv, Accept
  <2> QED
    BY <2>1, <2>2, <2>3, <2>4 DEF DataPart
<1>2. CASE AuthReject(s)
  <2>1. TypeServer'
    BY <1>2, <1>a DEF TypeServer, AuthReject, Return
  <2>2. TypeRoster'
    BY <1>2, <1>a DEF TypeRoster, AuthReject, Return
  <2>3. TypeLocals'
    BY <1>2, <1>a DEF TypeRoster, TypeLocals, AuthReject, Return
  <2>4. ProfInv'
    BY <1>2, <1>a DEF TypeSession, TypeRoster, TypeLocals, SwitchLocals, ProfInv,
       AuthReject, Return
  <2> QED
    BY <2>1, <2>2, <2>3, <2>4 DEF DataPart
<1>3. ASSUME NEW u \in Users, AuthAccept(s, u) PROVE DataPart'
  <2>1. TypeServer'
    BY <1>3, <1>a DEF TypeServer, AuthAccept
  <2>2. TypeRoster'
    BY <1>3, <1>a DEF TypeRoster, AuthAccept
  <2>3. TypeLocals'
    BY <1>3, <1>a DEF TypeRoster, TypeLocals, AuthAccept
  <2>4. ProfInv'
    BY <1>3, <1>a DEF TypeSession, TypeRoster, TypeLocals, SwitchLocals, ProfInv, AuthAccept
  <2> QED
    BY <2>1, <2>2, <2>3, <2>4 DEF DataPart
<1>4. CASE AuthBroadcast(s)
  <2>1. TypeServer'
    BY <1>4, <1>a DEF TypeServer, AuthBroadcast, Return
  <2>2. TypeRoster'
    BY <1>4, <1>a DEF TypeRoster, AuthBroadcast, Return
  <2>3. TypeLocals'
    BY <1>4, <1>a DEF TypeRoster, TypeLocals, AuthBroadcast, Return
  <2>4. ProfInv'
    BY <1>4, <1>a DEF TypeSession, TypeRoster, TypeLocals, SwitchLocals, ProfInv,
       AuthBroadcast, Return
  <2> QED
    BY <2>1, <2>2, <2>3, <2>4 DEF DataPart
<1>5. CASE AuthInsert(s)
  <2>1. TypeServer'
    BY <1>5, <1>a DEF TypeServer, AuthInsert
  <2>2. TypeRoster'
    BY <1>5, <1>a DEF TypeRoster, AuthInsert
  <2>3. TypeLocals'
    BY <1>5, <1>a DEF TypeRoster, TypeLocals, AuthInsert
  <2>4. ProfInv'
    BY <1>5, <1>a DEF TypeSession, TypeRoster, TypeLocals, SwitchLocals, ProfInv, AuthInsert
  <2> QED
    BY <2>1, <2>2, <2>3, <2>4 DEF DataPart
<1>6. CASE AuthPushClients(s)
  <2>0. user[s] \in Users
    BY <1>6, KnownUser DEF AuthPushClients
  <2>1. TypeServer'
    BY <1>6, <1>a DEF TypeServer, AuthPushClients
  <2>2. TypeRoster'
    <3>1. ListUpdate /\ UNCHANGED chan
      BY <1>6, <2>0 DEF ListUpdate, AuthPushClients
    <3> QED
      BY <3>1, <1>a, RosterKept
  <2>3. TypeLocals'
    BY <1>6, <1>a DEF TypeRoster, TypeLocals, AuthPushClients
  <2>4. ProfInv'
    BY <1>6, <1>a DEF TypeSession, TypeRoster, TypeLocals, SwitchLocals, ProfInv,
       AuthPushClients
  <2> QED
    BY <2>1, <2>2, <2>3, <2>4 DEF DataPart
<1>7. CASE AuthPushProto(s)
  <2>0. user[s] \in Users
    BY <1>7, KnownUser DEF AuthPushProto
  <2>1. TypeServer'
    BY <1>7, <1>a DEF TypeServer, AuthPushProto
  <2>2. TypeRoster'
    <3>1. ListUpdate /\ UNCHANGED chan
      BY <1>7, <2>0 DEF ListUpdate, AuthPushProto
    <3> QED
      BY <3>1, <1>a, RosterKept
  <2>3. TypeLocals'
    BY <1>7, <1>a DEF TypeRoster, TypeLocals, AuthPushProto
  <2>4. ProfInv'
    BY <1>7, <1>a DEF TypeSession, TypeRoster, TypeLocals, SwitchLocals, ProfInv,
       AuthPushProto
  <2> QED
    BY <2>1, <2>2, <2>3, <2>4 DEF DataPart
<1>8. CASE AuthSnapshot(s)
  <2>1. TypeServer'
    BY <1>8, <1>a DEF TypeServer, AuthSnapshot
  <2>2. TypeRoster'
    BY <1>8, <1>a DEF TypeRoster, AuthSnapshot
  <2>3. TypeLocals'
    BY <1>8, <1>a DEF TypeRoster, TypeLocals, AuthSnapshot
  <2>4. ProfInv'
    BY <1>8, <1>a DEF TypeSession, TypeRoster, TypeLocals, SwitchLocals, ProfInv,
       AuthSnapshot
  <2> QED
    BY <2>1, <2>2, <2>3, <2>4 DEF DataPart
<1>9. CASE AuthReply(s)
  <2>1. TypeServer'
    BY <1>9, <1>a DEF TypeServer, AuthReply, Return
  <2>2. TypeRoster'
    BY <1>9, <1>a DEF TypeRoster, AuthReply, Return
  <2>3. TypeLocals'
    BY <1>9, <1>a DEF TypeRoster, TypeLocals, AuthReply, Return
  <2>4. ProfInv'
    BY <1>9, <1>a DEF TypeSession, TypeRoster, TypeLocals, SwitchLocals, ProfInv,
       AuthReply, Return
  <2> QED
    BY <2>1, <2>2, <2>3, <2>4 DEF DataPart
<1>10. CASE AuthKeepAlive(s)
  <2>1. TypeServer'
    BY <1>10, <1>a DEF TypeServer, AuthKeepAlive, Return
  <2>2. TypeRoster'
    BY <1>10, <1>a DEF TypeRoster, AuthKeepAlive, Return
  <2>3. TypeLocals'
    BY <1>10, <1>a DEF TypeRoster, TypeLocals, AuthKeepAlive, Return
  <2>4. ProfInv'
    BY <1>10, <1>a DEF TypeSession, TypeRoster, TypeLocals, SwitchLocals, ProfInv,
       AuthKeepAlive, Return
  <2> QED
    BY <2>1, <2>2, <2>3, <2>4 DEF DataPart
<1>11. CASE AuthPanic(s)
  <2>1. TypeServer'
    BY <1>11, <1>a DEF TypeServer, AuthPanic
  <2>2. TypeRoster' /\ TypeLocals' /\ ProfInv'
    BY <1>11, <1>a DEF TypeRoster, TypeLocals, ProfInv, AuthPanic
  <2> QED
    BY <2>1, <2>2 DEF DataPart
<1> QED
  BY <1>1, <1>2, <1>3, <1>4, <1>5, <1>6, <1>7, <1>8, <1>9, <1>10, <1>11 DEF Acceptor

LEMMA HandlerData ==
  ASSUME SessionPart, DataPart, NEW s \in Conns,
         \/ \E c \in Channels : SwitchRequest(s, c)
         \/ Switching(s) \/ PanicPacket(s) \/ VoicePanic(s)
  PROVE  DataPart'
<1> USE ConstantsOK DEF sessVars, accVars, rosterVars, swVars, finVars, history
<1>a. TypeServer /\ TypeRoster /\ TypeLocals /\ ProfInv /\ TypeSession
  BY DEF DataPart, SessionPart
<1>b. /\ chan[s] \in Channels /\ sw[s].to \in Channels /\ fin[s].ch \in Channels
      /\ fin[s].send \in BOOLEAN
  BY <1>a DEF TypeRoster, TypeLocals, SwitchLocals, FinishLocals
<1>1. CASE SwitchRefuse(s)
  <2>1. TypeServer'
    BY <1>1, <1>a, <1>b DEF TypeServer, SwitchRefuse, Panic, NoSwitch
  <2>2. TypeRoster'
    BY <1>1, <1>a, <1>b DEF TypeRoster, SwitchRefuse, Panic, NoSwitch
  <2>3. TypeLocals'
    <3>1. SwitchUpdate(s) /\ UNCHANGED fin
      BY <1>1, <1>b DEF SwitchUpdate, SwitchRefuse
    <3> QED
      BY <3>1, <1>a, LocalsKept
  <2>4. ProfInv'
    BY <1>1, <1>a, <1>b DEF TypeSession, TypeRoster, TypeLocals, SwitchLocals, ProfInv,
       SwitchRefuse, Panic, NoSwitch
  <2> QED
    BY <2>1, <2>2, <2>3, <2>4 DEF DataPart
<1>2. CASE SwitchFindClient(s)
  <2>1. TypeServer'
    BY <1>2, <1>a, <1>b DEF TypeServer, SwitchFindClient, Panic
  <2>2. TypeRoster'
    BY <1>2, <1>a, <1>b DEF TypeRoster, SwitchFindClient, Panic
  <2>3. TypeLocals'
    <3>1. \A i \in DOMAIN clients[chan[s]] : clients[chan[s]][i] \in Users /\ i \in Nat
      BY <1>a, <1>b, ListElement DEF TypeRoster
    <3>2. SwitchUpdate(s) /\ UNCHANGED fin
      BY <1>2, <1>b, <3>1 DEF SwitchUpdate, SwitchFindClient
    <3> QED
      BY <3>2, <1>a, LocalsKept
  <2>4. ProfInv'
    BY <1>2, <1>a, <1>b DEF TypeSession, TypeRoster, TypeLocals, SwitchLocals, ProfInv,
       SwitchFindClient, Panic
  <2> QED
    BY <2>1, <2>2, <2>3, <2>4 DEF DataPart
<1>3. CASE SwitchRemoveClient(s)
  <2>1. TypeServer'
    BY <1>3, <1>a, <1>b DEF TypeServer, SwitchRemoveClient, Panic
  <2>2. TypeRoster'
    <3>1. ListUpdate /\ UNCHANGED chan
      BY <1>3, <1>b DEF ListUpdate, SwitchRemoveClient
    <3> QED
      BY <3>1, <1>a, RosterKept
  <2>3. TypeLocals'
    <3>1. SwitchUpdate(s) /\ UNCHANGED fin
      BY <1>3, <1>b DEF SwitchUpdate, SwitchRemoveClient
    <3> QED
      BY <3>1, <1>a, LocalsKept
  <2>4. ProfInv'
    BY <1>3, <1>a, <1>b DEF TypeSession, TypeRoster, TypeLocals, SwitchLocals, ProfInv,
       SwitchRemoveClient, Panic
  <2> QED
    BY <2>1, <2>2, <2>3, <2>4 DEF DataPart
<1>4. CASE SwitchFindProto(s)
  <2>1. TypeServer'
    BY <1>4, <1>a, <1>b DEF TypeServer, SwitchFindProto, Panic
  <2>2. TypeRoster'
    BY <1>4, <1>a, <1>b DEF TypeRoster, SwitchFindProto, Panic
  <2>3. TypeLocals'
    <3>1. \A i \in DOMAIN proto[chan[s]] : proto[chan[s]][i] \in Users /\ i \in Nat
      BY <1>a, <1>b, ListElement DEF TypeRoster
    <3>2. SwitchUpdate(s) /\ UNCHANGED fin
      BY <1>4, <1>b, <3>1 DEF SwitchUpdate, SwitchFindProto
    <3> QED
      BY <3>2, <1>a, LocalsKept
  <2>4. ProfInv'
    BY <1>4, <1>a, <1>b DEF TypeSession, TypeRoster, TypeLocals, SwitchLocals, ProfInv,
       SwitchFindProto, Panic
  <2> QED
    BY <2>1, <2>2, <2>3, <2>4 DEF DataPart
<1>5. CASE SwitchRemoveProto(s)
  <2>1. TypeServer'
    BY <1>5, <1>a, <1>b DEF TypeServer, SwitchRemoveProto, Panic
  <2>2. TypeRoster'
    <3>1. ListUpdate /\ UNCHANGED chan
      BY <1>5, <1>b DEF ListUpdate, SwitchRemoveProto
    <3> QED
      BY <3>1, <1>a, RosterKept
  <2>3. TypeLocals'
    <3>1. \A i \in DOMAIN proto[chan[s]] : proto[chan[s]][i] \in Users /\ i \in Nat
      BY <1>a, <1>b, ListElement DEF TypeRoster
    <3>2. SwitchUpdate(s) /\ UNCHANGED fin
      BY <1>5, <1>b, <3>1 DEF SwitchUpdate, SwitchRemoveProto
    <3> QED
      BY <3>2, <1>a, LocalsKept
  <2>4. ProfInv'
    <3>1. \A i \in DOMAIN proto[chan[s]] : proto[chan[s]][i] \in Users
      BY <1>a, <1>b, ListElement DEF TypeRoster
    <3>2. CASE UNCHANGED <<sw, swpc>>
      BY <3>2, <1>a DEF ProfInv
    <3>3. ASSUME NEW p \in Users, sw' = [sw EXCEPT ![s].prof = p, ![s].idx = 0],
                 swpc' = [swpc EXCEPT ![s] = "pushc"]
          PROVE  ProfInv'
      BY <3>3, <1>a DEF TypeSession, TypeLocals, SwitchLocals, ProfInv
    <3> QED
      BY <1>5, <3>1, <3>2, <3>3 DEF SwitchRemoveProto
  <2> QED
    BY <2>1, <2>2, <2>3, <2>4 DEF DataPart
<1>6. CASE SwitchPushClients(s)
  <2>0. user[s] \in Users
    BY <1>6, KnownUser DEF SwitchPushClients, Handling
  <2>1. TypeServer'
    BY <1>6, <1>a, <1>b DEF TypeServer, SwitchPushClients, Panic
  <2>2. TypeRoster'
    <3>1. ListUpdate /\ UNCHANGED chan
      BY <1>6, <1>b, <2>0 DEF ListUpdate, SwitchPushClients
    <3> QED
      BY <3>1, <1>a, RosterKept
  <2>3. TypeLocals'
    <3>1. SwitchUpdate(s) /\ UNCHANGED fin
      BY <1>6, <1>b DEF SwitchUpdate, SwitchPushClients
    <3> QED
      BY <3>1, <1>a, LocalsKept
  <2>4. ProfInv'
    BY <1>6, <1>a, <1>b DEF TypeSession, TypeRoster, TypeLocals, SwitchLocals, ProfInv,
       SwitchPushClients, Panic
  <2> QED
    BY <2>1, <2>2, <2>3, <2>4 DEF DataPart
<1>7. CASE SwitchPushProto(s)
  <2>0. sw[s].prof \in Users
    BY <1>7, <1>a DEF SwitchPushProto, ProfInv
  <2>1. TypeServer'
    BY <1>7, <1>a, <1>b DEF TypeServer, SwitchPushProto, Panic
  <2>2. TypeRoster'
    <3>1. ListUpdate /\ UNCHANGED chan
      BY <1>7, <1>b, <2>0 DEF ListUpdate, SwitchPushProto
    <3> QED
      BY <3>1, <1>a, RosterKept
  <2>3. TypeLocals'
    <3>1. SwitchUpdate(s) /\ UNCHANGED fin
      BY <1>7, <1>b DEF SwitchUpdate, SwitchPushProto
    <3> QED
      BY <3>1, <1>a, LocalsKept
  <2>4. ProfInv'
    BY <1>7, <1>a, <1>b DEF TypeSession, TypeRoster, TypeLocals, SwitchLocals, ProfInv,
       SwitchPushProto, Panic
  <2> QED
    BY <2>1, <2>2, <2>3, <2>4 DEF DataPart
<1>8. CASE SwitchStore(s)
  <2>1. TypeServer'
    BY <1>8, <1>a, <1>b DEF TypeServer, SwitchStore, Panic
  <2>2. TypeRoster'
    BY <1>8, <1>a, <1>b DEF TypeRoster, SwitchStore, Panic
  <2>3. TypeLocals'
    <3>1. SwitchUpdate(s) /\ UNCHANGED fin
      BY <1>8, <1>b DEF SwitchUpdate, SwitchStore
    <3> QED
      BY <3>1, <1>a, LocalsKept
  <2>4. ProfInv'
    BY <1>8, <1>a, <1>b DEF TypeSession, TypeRoster, TypeLocals, SwitchLocals, ProfInv,
       SwitchStore, Panic
  <2> QED
    BY <2>1, <2>2, <2>3, <2>4 DEF DataPart
<1>9. CASE SwitchReply(s)
  <2>1. TypeServer'
    BY <1>9, <1>a, <1>b DEF TypeServer, SwitchReply, Panic
  <2>2. TypeRoster'
    BY <1>9, <1>a, <1>b DEF TypeRoster, SwitchReply, Panic
  <2>3. TypeLocals'
    <3>1. SwitchUpdate(s) /\ UNCHANGED fin
      BY <1>9, <1>b DEF SwitchUpdate, SwitchReply
    <3> QED
      BY <3>1, <1>a, LocalsKept
  <2>4. ProfInv'
    BY <1>9, <1>a, <1>b DEF TypeSession, TypeRoster, TypeLocals, SwitchLocals, ProfInv,
       SwitchReply, Panic
  <2> QED
    BY <2>1, <2>2, <2>3, <2>4 DEF DataPart
<1>10. CASE SwitchBroadcast(s)
  <2>1. TypeServer'
    BY <1>10, <1>a, <1>b DEF TypeServer, SwitchBroadcast, Panic, NoSwitch
  <2>2. TypeRoster'
    BY <1>10, <1>a, <1>b DEF TypeRoster, SwitchBroadcast, Panic, NoSwitch
  <2>3. TypeLocals'
    <3>1. sw[s].todo \subseteq Users
      BY <1>a DEF TypeLocals, SwitchLocals, FinishLocals
    <3>2. SwitchUpdate(s) /\ UNCHANGED fin
      BY <1>10, <1>b, <3>1 DEF SwitchUpdate, SwitchBroadcast
    <3> QED
      BY <3>2, <1>a, LocalsKept
  <2>4. ProfInv'
    BY <1>10, <1>a, <1>b DEF TypeSession, TypeRoster, TypeLocals, SwitchLocals, ProfInv,
       SwitchBroadcast, Panic, NoSwitch
  <2> QED
    BY <2>1, <2>2, <2>3, <2>4 DEF DataPart
<1>11. CASE PanicPacket(s)
  <2>1. TypeServer'
    BY <1>11, <1>a, <1>b DEF TypeServer, PanicPacket, Panic
  <2>2. TypeRoster'
    BY <1>11, <1>a, <1>b DEF TypeRoster, PanicPacket, Panic
  <2>3. TypeLocals'
    BY <1>11, <1>a, <1>b DEF TypeRoster, TypeLocals, PanicPacket, Panic
  <2>4. ProfInv'
    BY <1>11, <1>a, <1>b DEF TypeSession, TypeRoster, TypeLocals, SwitchLocals, ProfInv,
       PanicPacket, Panic
  <2> QED
    BY <2>1, <2>2, <2>3, <2>4 DEF DataPart
<1>12. CASE VoicePanic(s)
  <2>1. TypeServer'
    BY <1>12, <1>a, <1>b DEF TypeServer, VoicePanic, Panic
  <2>2. TypeRoster'
    BY <1>12, <1>a, <1>b DEF TypeRoster, VoicePanic, Panic
  <2>3. TypeLocals'
    BY <1>12, <1>a, <1>b DEF TypeRoster, TypeLocals, VoicePanic, Panic
  <2>4. ProfInv'
    BY <1>12, <1>a, <1>b DEF TypeSession, TypeRoster, TypeLocals, SwitchLocals, ProfInv,
       VoicePanic, Panic
  <2> QED
    BY <2>1, <2>2, <2>3, <2>4 DEF DataPart
<1>13. ASSUME NEW c \in Channels, SwitchRequest(s, c) PROVE DataPart'
  <2>1. TypeServer'
    BY <1>13, <1>a, <1>b DEF TypeServer, SwitchRequest, Refused
  <2>2. TypeRoster'
    BY <1>13, <1>a, <1>b DEF TypeRoster, SwitchRequest, Refused
  <2>3. TypeLocals'
    <3>1. SwitchUpdate(s) /\ UNCHANGED fin
      BY <1>13, <1>b DEF SwitchUpdate, SwitchRequest
    <3> QED
      BY <3>1, <1>a, LocalsKept
  <2>4. ProfInv'
    BY <1>13, <1>a, <1>b DEF TypeSession, TypeRoster, TypeLocals, SwitchLocals, ProfInv,
       SwitchRequest, Refused
  <2> QED
    BY <2>1, <2>2, <2>3, <2>4 DEF DataPart
<1> QED
  BY <1>1, <1>2, <1>3, <1>4, <1>5, <1>6, <1>7, <1>8, <1>9, <1>10, <1>11, <1>12, <1>13
     DEF Switching

LEMMA ClosingData ==
  ASSUME SessionPart, DataPart, NEW s \in Conns,
         \/ DisconnectPacket(s) \/ Finishing(s) \/ LinkDown(s)
         \/ \E t \in Readers : ReaderError(s, t)
  PROVE  DataPart'
<1> USE ConstantsOK DEF sessVars, accVars, rosterVars, swVars, finVars, history
<1>a. TypeServer /\ TypeRoster /\ TypeLocals /\ ProfInv /\ TypeSession
  BY DEF DataPart, SessionPart
<1>b. /\ chan[s] \in Channels /\ sw[s].to \in Channels /\ fin[s].ch \in Channels
      /\ fin[s].send \in BOOLEAN
  BY <1>a DEF TypeRoster, TypeLocals, SwitchLocals, FinishLocals
<1>1. CASE DisconnectPacket(s)
  <2>1. TypeServer'
    BY <1>1, <1>a, <1>b DEF TypeServer, DisconnectPacket
  <2>2. TypeRoster'
    BY <1>1, <1>a, <1>b DEF TypeRoster, DisconnectPacket
  <2>3. TypeLocals'
    BY <1>1, <1>a, <1>b DEF TypeRoster, TypeLocals, DisconnectPacket
  <2>4. ProfInv'
    BY <1>1, <1>a, <1>b DEF TypeSession, TypeRoster, TypeLocals, SwitchLocals, ProfInv,
       DisconnectPacket
  <2> QED
    BY <2>1, <2>2, <2>3, <2>4 DEF DataPart
<1>2. CASE FinishOnline(s)
  <2>1. TypeServer'
    BY <1>2, <1>a, <1>b DEF TypeServer, FinishOnline
  <2>2. TypeRoster'
    BY <1>2, <1>a, <1>b DEF TypeRoster, FinishOnline
  <2>3. TypeLocals'
    <3>1. FinishUpdate(s) /\ UNCHANGED sw
      BY <1>2, <1>b DEF FinishUpdate, FinishOnline
    <3> QED
      BY <3>1, <1>a, LocalsKept
  <2>4. ProfInv'
    BY <1>2, <1>a, <1>b DEF TypeSession, TypeRoster, TypeLocals, SwitchLocals, ProfInv,
       FinishOnline
  <2> QED
    BY <2>1, <2>2, <2>3, <2>4 DEF DataPart
<1>3. CASE FinishClients(s)
  <2>1. TypeServer'
    BY <1>3, <1>a, <1>b DEF TypeServer, FinishClients, FinishPanic
  <2>2. TypeRoster'
    <3>1. ListUpdate /\ UNCHANGED chan
      BY <1>3, <1>b DEF ListUpdate, FinishClients
    <3> QED
      BY <3>1, <1>a, RosterKept
  <2>3. TypeLocals'
    <3>1. FinishUpdate(s) /\ UNCHANGED sw
      BY <1>3, <1>b DEF FinishUpdate, FinishClients, FinishPanic
    <3> QED
      BY <3>1, <1>a, LocalsKept
  <2>4. ProfInv'
    BY <1>3, <1>a, <1>b DEF TypeSession, TypeRoster, TypeLocals, SwitchLocals, ProfInv,
       FinishClients, FinishPanic
  <2> QED
    BY <2>1, <2>2, <2>3, <2>4 DEF DataPart
<1>4. CASE FinishProto(s)
  <2>1. TypeServer'
    BY <1>4, <1>a, <1>b DEF TypeServer, FinishProto, FinishPanic
  <2>2. TypeRoster'
    <3>1. ListUpdate /\ UNCHANGED chan
      BY <1>4, <1>b DEF ListUpdate, FinishProto
    <3> QED
      BY <3>1, <1>a, RosterKept
  <2>3. TypeLocals'
    <3>1. FinishUpdate(s) /\ UNCHANGED sw
      BY <1>4, <1>b DEF FinishUpdate, FinishProto, FinishPanic
    <3> QED
      BY <3>1, <1>a, LocalsKept
  <2>4. ProfInv'
    BY <1>4, <1>a, <1>b DEF TypeSession, TypeRoster, TypeLocals, SwitchLocals, ProfInv,
       FinishProto, FinishPanic
  <2> QED
    BY <2>1, <2>2, <2>3, <2>4 DEF DataPart
<1>5. CASE FinishBroadcast(s)
  <2>1. TypeServer'
    BY <1>5, <1>a, <1>b DEF TypeServer, FinishBroadcast, FinishPanic
  <2>2. TypeRoster'
    BY <1>5, <1>a, <1>b DEF TypeRoster, FinishBroadcast, FinishPanic
  <2>3. TypeLocals'
    <3>1. fin[s].todo \subseteq Users
      BY <1>a DEF TypeLocals, SwitchLocals, FinishLocals
    <3>2. FinishUpdate(s) /\ UNCHANGED sw
      BY <1>5, <1>b, <3>1 DEF FinishUpdate, FinishBroadcast, FinishPanic
    <3> QED
      BY <3>2, <1>a, LocalsKept
  <2>4. ProfInv'
    BY <1>5, <1>a, <1>b DEF TypeSession, TypeRoster, TypeLocals, SwitchLocals, ProfInv,
       FinishBroadcast, FinishPanic
  <2> QED
    BY <2>1, <2>2, <2>3, <2>4 DEF DataPart
<1>6. CASE CloseLink(s)
  <2>1. TypeServer'
    BY <1>6, <1>a, <1>b DEF TypeServer, CloseLink, NoFinish
  <2>2. TypeRoster'
    BY <1>6, <1>a, <1>b DEF TypeRoster, CloseLink, NoFinish
  <2>3. TypeLocals'
    <3>1. FinishUpdate(s) /\ UNCHANGED sw
      BY <1>6, <1>b DEF FinishUpdate, CloseLink
    <3> QED
      BY <3>1, <1>a, LocalsKept
  <2>4. ProfInv'
    BY <1>6, <1>a, <1>b DEF TypeSession, TypeRoster, TypeLocals, SwitchLocals, ProfInv,
       CloseLink, NoFinish
  <2> QED
    BY <2>1, <2>2, <2>3, <2>4 DEF DataPart
<1>7. CASE LinkDown(s)
  <2>1. TypeServer'
    BY <1>7, <1>a, <1>b DEF TypeServer, LinkDown
  <2>2. TypeRoster'
    BY <1>7, <1>a, <1>b DEF TypeRoster, LinkDown
  <2>3. TypeLocals'
    BY <1>7, <1>a, <1>b DEF TypeRoster, TypeLocals, LinkDown
  <2>4. ProfInv'
    BY <1>7, <1>a, <1>b DEF TypeSession, TypeRoster, TypeLocals, SwitchLocals, ProfInv,
       LinkDown
  <2> QED
    BY <2>1, <2>2, <2>3, <2>4 DEF DataPart
<1>8. ASSUME NEW t \in Readers, ReaderError(s, t) PROVE DataPart'
  <2>1. TypeServer'
    BY <1>8, <1>a, <1>b DEF TypeServer, ReaderError
  <2>2. TypeRoster'
    BY <1>8, <1>a, <1>b DEF TypeRoster, ReaderError
  <2>3. TypeLocals'
    BY <1>8, <1>a, <1>b DEF TypeRoster, TypeLocals, ReaderError
  <2>4. ProfInv'
    BY <1>8, <1>a, <1>b DEF TypeSession, TypeRoster, TypeLocals, SwitchLocals, ProfInv,
       ReaderError
  <2> QED
    BY <2>1, <2>2, <2>3, <2>4 DEF DataPart
<1>9. CASE FinishLoad(s)
  <2>1. TypeServer'
    BY <1>9, <1>a, <1>b DEF TypeServer, FinishLoad
  <2>2. TypeRoster'
    BY <1>9, <1>a, <1>b DEF TypeRoster, FinishLoad
  <2>3. TypeLocals'
    <3>1. FinishUpdate(s) /\ UNCHANGED sw
      BY <1>9, <1>b DEF FinishUpdate, FinishLoad
    <3> QED
      BY <3>1, <1>a, LocalsKept
  <2>4. ProfInv'
    BY <1>9, <1>a, <1>b DEF TypeSession, TypeRoster, TypeLocals, SwitchLocals, ProfInv,
       FinishLoad
  <2> QED
    BY <2>1, <2>2, <2>3, <2>4 DEF DataPart
<1> QED
  BY <1>1, <1>2, <1>3, <1>4, <1>5, <1>6, <1>7, <1>8, <1>9 DEF Finishing

-------------------------------------------------------------------------------
(* The operator's commands, and every step.                                    *)

LEMMA OperatorKeeps ==
  ASSUME IInv,
         Shutdown \/ \E c \in Channels : CreateChannel(c) \/ DeleteChannel(c)
  PROVE  IInv'
<1> USE ConstantsOK DEF sessVars, accVars, rosterVars, swVars, finVars, history
<1>a. /\ TypeSession /\ SessInv /\ PlaceInv /\ OnlineIsLive
      /\ TypeServer /\ TypeRoster /\ TypeLocals /\ ProfInv
  BY DEF IInv, SessionPart, DataPart
<1>1. CASE Shutdown
  <2>1. TypeSession' /\ SessInv'
    BY <1>1, <1>a DEF Shutdown, TypeSession, SessInv
  <2>2. PlaceInv' /\ OnlineIsLive'
    BY <1>1, <1>a DEF Shutdown, TypeSession, SessInv, PlaceInv, OnlineIsLive, Inserted,
       Present
  <2>3. TypeServer' /\ TypeRoster' /\ TypeLocals' /\ ProfInv'
    BY <1>1, <1>a DEF Shutdown, TypeServer, TypeRoster, TypeLocals, ProfInv
  <2> QED
    BY <2>1, <2>2, <2>3 DEF IInv, SessionPart, DataPart
<1>2. ASSUME NEW c \in Channels, CreateChannel(c) \/ DeleteChannel(c) PROVE IInv'
  <2>1. /\ channels' \in {[channels EXCEPT ![c] = "live"], [channels EXCEPT ![c] = "deleted"]}
        /\ UNCHANGED <<sessVars, accVars, rosterVars, swVars, finVars, server, history>>
    BY <1>2 DEF CreateChannel, DeleteChannel
  <2>2. TypeSession' /\ SessInv' /\ PlaceInv' /\ OnlineIsLive'
    BY <2>1, <1>a DEF TypeSession, SessInv, PlaceInv, OnlineIsLive, Inserted, Present
  <2>3. TypeServer' /\ TypeRoster' /\ TypeLocals' /\ ProfInv'
    BY <2>1, <1>a DEF TypeServer, TypeRoster, TypeLocals, ProfInv
  <2> QED
    BY <2>2, <2>3 DEF IInv, SessionPart, DataPart
<1> QED
  BY <1>1, <1>2

\* Sorts the steps of Next by who takes them.
LEMMA StepCases ==
  ASSUME Next
  PROVE  \/ UNCHANGED vars
         \/ Shutdown \/ \E c \in Channels : CreateChannel(c) \/ DeleteChannel(c)
         \/ \E s \in Conns :
              \/ Acceptor(s)
              \/ \E c \in Channels : SwitchRequest(s, c)
              \/ Switching(s) \/ PanicPacket(s) \/ VoicePanic(s)
              \/ DisconnectPacket(s) \/ Finishing(s) \/ LinkDown(s)
              \/ \E t \in Readers : ReaderError(s, t)
BY DEF Next, Session

LEMMA StutterKeeps ==
  ASSUME IInv, UNCHANGED vars
  PROVE  IInv'
<1> USE DEF vars, sessVars, accVars, rosterVars, swVars, finVars, history
<1>1. SessionPart'
  BY DEF IInv, SessionPart, TypeSession, SessInv, PlaceInv, OnlineIsLive, Inserted, Present
<1>2. DataPart'
  BY DEF IInv, DataPart, TypeServer, TypeRoster, TypeLocals, ProfInv
<1> QED
  BY <1>1, <1>2 DEF IInv

LEMMA StepIInv == IInv /\ [Next]_vars => IInv'
<1> SUFFICES ASSUME IInv, [Next]_vars PROVE IInv'
  OBVIOUS
<1>1. SessionPart /\ DataPart
  BY DEF IInv
<1>2. CASE UNCHANGED vars
  BY <1>2, StutterKeeps
<1>3. CASE Next
  <2>1. ASSUME NEW s \in Conns, Acceptor(s) PROVE IInv'
    BY <1>1, <2>1, AcceptorSession, AcceptorData DEF IInv
  <2>2. ASSUME NEW s \in Conns,
               \/ \E c \in Channels : SwitchRequest(s, c)
               \/ Switching(s) \/ PanicPacket(s) \/ VoicePanic(s)
        PROVE  IInv'
    BY <1>1, <2>2, HandlerSession, HandlerData DEF IInv
  <2>3. ASSUME NEW s \in Conns,
               \/ DisconnectPacket(s) \/ Finishing(s) \/ LinkDown(s)
               \/ \E t \in Readers : ReaderError(s, t)
        PROVE  IInv'
    BY <1>1, <2>3, ClosingSession, ClosingData DEF IInv
  <2> QED
    BY <1>2, <1>3, <2>1, <2>2, <2>3, StepCases, OperatorKeeps
<1> QED
  BY <1>2, <1>3

LEMMA Inductive == Spec => []IInv
BY InitIInv, StepIInv, PTL DEF Spec

-------------------------------------------------------------------------------
(* EntryIsLive: the operator's commands need Server.channels.write().          *)

LEMMA InitEntryIsLive == Init => EntryIsLive
BY DEF Init, EntryIsLive, Handling

\* What a step of a session may do to the variables of EntryIsLive.
LEMMA SessionEntryIsLive ==
  ASSUME TypeSession, SessInv, TypeRoster, TypeLocals, EntryIsLive, NEW s \in Conns, Session(s)
  PROVE  EntryIsLive'
<1> USE ConstantsOK DEF sessVars, accVars, rosterVars, swVars, finVars, history
<1>0. sw \in [Conns -> [to : Channels, idx : Nat, prof : Users \cup {NoUser},
                        todo : SUBSET Users]]
  BY DEF TypeLocals, SwitchLocals
<1>1. CASE Acceptor(s)
  <2>1. ASSUME NEW u \in Users, AuthAccept(s, u) PROVE EntryIsLive'
    BY <2>1 DEF AuthAccept, EntryIsLive, Handling, TypeSession, SessInv
  <2>2. CASE AuthKeepAlive(s)
    BY <2>2 DEF AuthKeepAlive, Return, EntryIsLive, Handling, TypeSession, SessInv
  <2>3. CASE Accept(s) \/ AuthReject(s)
    BY <2>3 DEF Accept, AuthReject, Return, EntryIsLive, Handling, TypeSession, SessInv
  <2>4. CASE AuthBroadcast(s) \/ AuthReply(s)
    BY <2>4 DEF AuthBroadcast, AuthReply, Return, EntryIsLive, Handling, TypeSession
  <2>5. CASE AuthInsert(s) \/ AuthPushClients(s) \/ AuthPushProto(s) \/ AuthSnapshot(s)
    BY <2>5 DEF AuthInsert, AuthPushClients, AuthPushProto, AuthSnapshot, EntryIsLive,
       Handling, TypeSession
  <2>6. CASE AuthPanic(s)
    BY <2>6 DEF AuthPanic, EntryIsLive, Handling
  <2> QED
    BY <1>1, <2>1, <2>2, <2>3, <2>4, <2>5, <2>6 DEF Acceptor
<1>2. ASSUME NEW c \in Channels, SwitchRequest(s, c) PROVE EntryIsLive'
  BY <1>0, <1>2 DEF SwitchRequest, Refused, EntryIsLive, Handling, TypeSession
<1>3. CASE Switching(s) \/ PanicPacket(s)
  <2>1. /\ UNCHANGED <<acc, auth, channels>>
        /\ tasks' = tasks \/ tasks' = [tasks EXCEPT ![s] = @ \ {"rel"}]
        /\ \/ swpc' = swpc
           \/ swpc[s] # "refuse" /\ \E p \in SwPc : swpc' = [swpc EXCEPT ![s] = p]
           \/ swpc' = [swpc EXCEPT ![s] = "idle"]
        /\ \/ swpc' = [swpc EXCEPT ![s] = "idle"] /\ sw' = [sw EXCEPT ![s] = NoSwitch]
           \/ \A t \in Conns : sw'[t].to = sw[t].to
    <3>1. CASE SwitchRefuse(s) \/ SwitchStore(s) \/ SwitchReply(s) \/ SwitchBroadcast(s)
      BY <1>0, <3>1 DEF SwitchRefuse, SwitchStore, SwitchReply, SwitchBroadcast, Panic, SwPc
    <3>2. CASE SwitchFindClient(s)
      <4>1. /\ UNCHANGED <<acc, auth, channels>>
            /\ tasks' = tasks \/ tasks' = [tasks EXCEPT ![s] = @ \ {"rel"}]
            /\ \/ swpc' = swpc
               \/ swpc[s] = "findc" /\ swpc' = [swpc EXCEPT ![s] = "rmc"]
            /\ sw' = sw \/ \E i : sw' = [sw EXCEPT ![s].idx = i]
        BY <3>2 DEF SwitchFindClient, Panic
      <4> QED
        BY <1>0, <4>1 DEF SwPc
    <3>5. CASE SwitchRemoveClient(s)
      BY <1>0, <3>5 DEF SwitchRemoveClient, Panic, SwPc
    <3>6. CASE SwitchPushClients(s)
      BY <1>0, <3>6 DEF SwitchPushClients, Panic, SwPc
    <3>3. CASE SwitchFindProto(s)
      <4>1. /\ UNCHANGED <<acc, auth, channels>>
            /\ tasks' = tasks \/ tasks' = [tasks EXCEPT ![s] = @ \ {"rel"}]
            /\ \/ swpc' = swpc
               \/ swpc[s] = "findp" /\ swpc' = [swpc EXCEPT ![s] = "rmp"]
            /\ sw' = sw \/ \E i : sw' = [sw EXCEPT ![s].idx = i]
        BY <3>3 DEF SwitchFindProto, Panic
      <4> QED
        BY <1>0, <4>1 DEF SwPc
    <3>7. CASE SwitchRemoveProto(s)
      BY <1>0, <3>7 DEF SwitchRemoveProto, Panic, SwPc
    <3>8. CASE SwitchPushProto(s)
      <4>1. /\ UNCHANGED <<acc, auth, channels>>
            /\ tasks' = tasks \/ tasks' = [tasks EXCEPT ![s] = @ \ {"rel"}]
            /\ \/ swpc' = swpc
               \/ swpc[s] = "pushp" /\ swpc' = [swpc EXCEPT ![s] = "store"]
        BY <3>8 DEF SwitchPushProto, Panic
      <4>2. sw' = sw \/ sw' = [sw EXCEPT ![s].prof = NoUser]
        BY <3>8 DEF SwitchPushProto
      <4> QED
        BY <1>0, <4>1, <4>2 DEF SwPc
    <3>4. CASE PanicPacket(s)
      BY <3>4 DEF PanicPacket, Panic
    <3> QED
      BY <1>3, <3>1, <3>2, <3>3, <3>4, <3>5, <3>6, <3>7, <3>8 DEF Switching
  <2>2. (Handling(s) /\ swpc[s] # "idle") \/ swpc' = swpc
    BY <1>3 DEF Switching, SwitchRefuse, SwitchStore, SwitchReply, SwitchBroadcast,
       SwitchFindClient, SwitchRemoveClient, SwitchPushClients, SwitchFindProto,
       SwitchRemoveProto, SwitchPushProto, PanicPacket
  <2>3. ASSUME NEW t \in Conns, Handling(t)', swpc'[t] \notin {"idle", "refuse"}
        PROVE  /\ Handling(t) /\ swpc[t] \notin {"idle", "refuse"}
               /\ sw'[t].to = sw[t].to
    <3>1. Handling(t)
      BY <2>1, <2>3 DEF Handling, TypeSession
    <3>2. sw'[t].to = sw[t].to
      BY <2>1, <2>3 DEF TypeSession, TypeLocals
    <3>3. swpc[t] \notin {"idle", "refuse"}
      BY <2>1, <2>2, <2>3 DEF TypeSession
    <3> QED
      BY <3>1, <3>2, <3>3
  <2> QED
    BY <2>1, <2>3 DEF EntryIsLive
<1>4. CASE DisconnectPacket(s) \/ VoicePanic(s) \/ Finishing(s) \/ LinkDown(s)
             \/ \E t \in Readers : ReaderError(s, t)
  <2>1. UNCHANGED <<acc, auth, channels, swpc, sw>>
    BY <1>4 DEF DisconnectPacket, VoicePanic, Finishing, FinishOnline, FinishLoad, FinishClients,
       FinishProto, FinishBroadcast, CloseLink, LinkDown, ReaderError
  <2>2. tasks' = tasks \/ \E t \in {"ka", "rel", "voice"} : tasks' = [tasks EXCEPT ![s] = @ \ {t}]
    <3>1. CASE \E t \in Readers : ReaderError(s, t)
      BY <3>1 DEF ReaderError
    <3>2. CASE VoicePanic(s)
      BY <3>2 DEF VoicePanic
    <3>3. CASE DisconnectPacket(s) \/ Finishing(s) \/ LinkDown(s)
      BY <3>3 DEF DisconnectPacket, Finishing, FinishOnline, FinishLoad, FinishClients, FinishProto,
         FinishBroadcast, CloseLink, LinkDown
    <3> QED
      BY <1>4, <3>1, <3>2, <3>3
  <2> QED
    BY <2>1, <2>2 DEF EntryIsLive, Handling, TypeSession
<1> QED
  BY <1>1, <1>2, <1>3, <1>4 DEF Session

LEMMA OperatorEntryIsLive ==
  ASSUME TypeSession, TypeServer, EntryIsLive,
         \/ Shutdown \/ \E c \in Channels : CreateChannel(c) \/ DeleteChannel(c)
         \/ UNCHANGED vars
  PROVE  EntryIsLive'
<1> USE DEF sessVars, accVars, rosterVars, swVars, finVars, history
<1>1. CASE Shutdown \/ UNCHANGED vars
  BY <1>1 DEF Shutdown, vars, EntryIsLive, Handling
<1>2. ASSUME NEW c \in Channels, CreateChannel(c) PROVE EntryIsLive'
  BY <1>2 DEF CreateChannel, EntryIsLive, Handling, TypeServer
<1>3. ASSUME NEW c \in Channels, DeleteChannel(c) PROVE EntryIsLive'
  BY <1>3 DEF DeleteChannel, ChannelsRead, EntryIsLive, Handling, TypeServer
<1> QED
  BY <1>1, <1>2, <1>3

-------------------------------------------------------------------------------
(* The theorems.                                                               *)

\* Every variable keeps its type: in particular no list ever holds something that
\* is not a user (AuthPushClients, SwitchPushProto push what they hold at hand).
THEOREM TypeCorrect == Spec => []TypeOK
<1>1. IInv => TypeOK
  BY DEF IInv, SessionPart, DataPart, TypeOK
<1> QED
  BY <1>1, Inductive, PTL

\* One session per user, however many connections race to log in and however
\* finish_up overlaps a new login: main.rs:441 tests, main.rs:509 inserts.
THEOREM OneSessionPerUser == Spec => []OneSession
<1>1. IInv => OneSession
  BY DEF IInv, SessionPart, PlaceInv, OneSession
<1> QED
  BY <1>1, Inductive, PTL

\* online_users refers only to sessions that were entered and not yet left.
THEOREM OnlineRefersToLive == Spec => []OnlineIsLive
<1>1. IInv => OnlineIsLive
  BY DEF IInv, SessionPart
<1> QED
  BY <1>1, Inductive, PTL

\* The readers, a packet handler and finish_up find the user cell set
\* (the question of network.rs:354).
THEOREM ReadersRunAfterAuth == Spec => []ReadersAfterAuth
<1>1. IInv => ReadersAfterAuth
  BY DEF IInv, SessionPart, SessInv, ReadersAfterAuth
<1> QED
  BY <1>1, Inductive, PTL

\* No channel disappears under a login or a switch that leads into it, although
\* every await on the way lets the operator's commands run.
THEOREM NoDeleteUnderEntry == Spec => []EntryIsLive
<1>1. IInv /\ EntryIsLive /\ [Next]_vars => EntryIsLive'
  <2> SUFFICES ASSUME IInv, EntryIsLive, [Next]_vars PROVE EntryIsLive'
    OBVIOUS
  <2>1. TypeSession /\ SessInv /\ TypeServer /\ TypeRoster /\ TypeLocals
    BY DEF IInv, SessionPart, DataPart
  <2>2. ASSUME NEW s \in Conns, Session(s) PROVE EntryIsLive'
    BY <2>1, <2>2, SessionEntryIsLive
  <2> QED
    BY <2>1, <2>2, OperatorEntryIsLive DEF Next
<1> QED
  BY <1>1, InitEntryIsLive, Inductive, PTL DEF Spec

\* The insertion of a login (main.rs:509) never overwrites another session.
THEOREM NobodyTakenOver == Spec => NoTakeover
<1> DEFINE A == \A u \in Users : online[u] # NoConn => online'[u] \in {online[u], NoConn}
<1>1. ASSUME IInv, [Next]_vars PROVE [A]_vars
  <2> SUFFICES ASSUME Next PROVE A
    BY <1>1
  <2> USE DEF sessVars, accVars, rosterVars, swVars, finVars, history
  <2>a. TypeSession /\ SessInv /\ PlaceInv
    BY <1>1 DEF IInv, SessionPart
  <2>1. ASSUME NEW s \in Conns, Acceptor(s) PROVE A
    <3>1. CASE AuthInsert(s)
      BY <2>a, <3>1 DEF AuthInsert, TypeSession, PlaceInv
    <3>2. CASE ~AuthInsert(s)
      <4>1. UNCHANGED online
        BY <2>1, <3>2 DEF Acceptor, Accept, AuthReject, AuthPanic, AuthAccept, AuthBroadcast,
           AuthPushClients, AuthPushProto, AuthSnapshot, AuthReply, AuthKeepAlive
      <4> QED
        BY <4>1
    <3> QED
      BY <3>1, <3>2
  <2>2. ASSUME NEW s \in Conns,
               \/ \E c \in Channels : SwitchRequest(s, c)
               \/ Switching(s) \/ PanicPacket(s) \/ VoicePanic(s)
        PROVE  A
    <3>1. UNCHANGED online
      BY <2>2 DEF SwitchRequest, Switching, SwitchRefuse, SwitchFindClient,
         SwitchRemoveClient, SwitchFindProto, SwitchRemoveProto, SwitchPushClients,
         SwitchPushProto, SwitchStore, SwitchReply, SwitchBroadcast, PanicPacket, VoicePanic
    <3> QED
      BY <3>1
  <2>3. ASSUME NEW s \in Conns,
               \/ DisconnectPacket(s) \/ Finishing(s) \/ LinkDown(s)
               \/ \E t \in Readers : ReaderError(s, t)
        PROVE  A
    <3>1. UNCHANGED online \/ online' = [online EXCEPT ![user[s]] = NoConn]
      BY <2>3 DEF DisconnectPacket, Finishing, FinishOnline, FinishLoad, FinishClients, FinishProto,
         FinishBroadcast, CloseLink, LinkDown, ReaderError
    <3> QED
      BY <2>a, <3>1 DEF TypeSession
  <2>4. ASSUME Shutdown \/ \E c \in Channels : CreateChannel(c) \/ DeleteChannel(c) PROVE A
    BY <2>4 DEF Shutdown, CreateChannel, DeleteChannel
  <2>5. CASE UNCHANGED vars
    BY <2>5 DEF vars
  <2> QED
    BY <2>1, <2>2, <2>3, <2>4, <2>5, StepCases
<1> QED
  BY <1>1, Inductive, PTL DEF Spec, NoTakeover

-------------------------------------------------------------------------------
(* The lists: what a push or a removal does to them.                           *)

\* How often a user is listed: one more behind a push of it, one less behind the
\* removal of one of its entries.
LEMMA OccurrencesType ==
  ASSUME NEW q \in Seq(Users), NEW w
  PROVE  /\ IsFiniteSet({j \in DOMAIN q : q[j] = w})
         /\ Occurrences(q, w) \in Nat
<1>1. IsFiniteSet(1..Len(q))
  BY FS_Interval
<1>2. {j \in DOMAIN q : q[j] = w} \in SUBSET (1..Len(q))
  OBVIOUS
<1>3. IsFiniteSet({j \in DOMAIN q : q[j] = w})
  BY <1>1, <1>2, FS_Subset
<1> QED
  BY <1>3, FS_CardinalityType DEF Occurrences

LEMMA OccurrencesAppend ==
  ASSUME NEW q \in Seq(Users), NEW u \in Users, NEW w
  PROVE  Occurrences(Append(q, u), w) = Occurrences(q, w) + IF u = w THEN 1 ELSE 0
<1> DEFINE T == {j \in DOMAIN q : q[j] = w}
           TT == {j \in DOMAIN Append(q, u) : Append(q, u)[j] = w}
<1>1. IsFiniteSet(T) /\ Cardinality(T) \in Nat
  BY OccurrencesType DEF Occurrences
<1>2. TT = IF u = w THEN T \cup {Len(q) + 1} ELSE T
  OBVIOUS
<1>3. Len(q) + 1 \notin T
  OBVIOUS
<1>4. Cardinality(TT) = Cardinality(T) + IF u = w THEN 1 ELSE 0
  <2> HIDE DEF T, TT
  <2>1. Cardinality(T \cup {Len(q) + 1}) = Cardinality(T) + 1
    BY <1>1, <1>3, FS_AddElement
  <2> QED
    BY <1>1, <1>2, <2>1
<1> QED
  BY <1>4 DEF Occurrences

LEMMA OccurrencesRemove ==
  ASSUME NEW q \in Seq(Users), NEW i \in DOMAIN q, NEW w
  PROVE  Occurrences(RemoveAt(q, i), w) = Occurrences(q, w) - IF q[i] = w THEN 1 ELSE 0
<1> DEFINE T == {j \in DOMAIN q : q[j] = w}
           TT == {j \in DOMAIN RemoveAt(q, i) : RemoveAt(q, i)[j] = w}
           back == [j \in TT |-> IF j < i THEN j ELSE j + 1]
<1>1. IsFiniteSet(T) /\ Cardinality(T) \in Nat
  BY OccurrencesType DEF Occurrences
<1>2. /\ IsFiniteSet(T \ {i})
      /\ Cardinality(T \ {i}) = Cardinality(T) - IF q[i] = w THEN 1 ELSE 0
  <2>1. i \in T <=> q[i] = w
    OBVIOUS
  <2> HIDE DEF T
  <2> QED
    BY <1>1, <2>1, FS_RemoveElement
<1>r. /\ Len(RemoveAt(q, i)) = Len(q) - 1 /\ Len(q) \in Nat /\ i \in 1..Len(q)
      /\ DOMAIN RemoveAt(q, i) = 1..(Len(q) - 1)
      /\ \A j \in 1..(Len(q) - 1) :
              RemoveAt(q, i)[j] = IF j < i THEN q[j] ELSE q[j + 1]
  <2>1. RemoveAt(q, i) \in Seq(Users)
    BY RemoveAtType
  <2> QED
    BY <2>1, RemoveAtType
<1>t. TT = {j \in 1..(Len(q) - 1) : (IF j < i THEN q[j] ELSE q[j + 1]) = w}
  BY <1>r
<1>3. back \in [TT -> T \ {i}]
  <2>1. ASSUME NEW j \in TT PROVE back[j] \in T \ {i}
    BY <1>r, <1>t
  <2> QED
    BY <2>1
<1>4. ASSUME NEW j \in TT, NEW k \in TT, back[j] = back[k] PROVE j = k
  BY <1>r, <1>t, <1>4
<1>5. ASSUME NEW k \in T \ {i} PROVE \E j \in TT : back[j] = k
  <2>1. k \in 1..Len(q) /\ k # i /\ q[k] = w
    OBVIOUS
  <2>2. CASE k < i
    <3>1. k \in TT /\ back[k] = k
      BY <1>r, <1>t, <2>1, <2>2
    <3> QED
      BY <3>1
  <2>3. CASE k > i
    <3>1. k - 1 \in TT /\ back[k - 1] = k
      BY <1>r, <1>t, <2>1, <2>3
    <3> QED
      BY <3>1
  <2> QED
    BY <1>r, <2>1, <2>2, <2>3
<1>6. ExistsBijection(TT, T \ {i})
  <2> HIDE DEF back, T, TT
  <2>1. back \in Bijection(TT, T \ {i})
    BY <1>3, <1>4, <1>5 DEF Bijection, Injection, Surjection, IsInjective
  <2> QED
    BY <2>1 DEF ExistsBijection
<1>7. IsFiniteSet(TT)
  BY RemoveAtType, OccurrencesType
<1>8. Cardinality(TT) = Cardinality(T \ {i})
  <2> HIDE DEF T, TT
  <2> QED
    BY <1>6, <1>7, FS_Bijection
<1> QED
  BY <1>2, <1>8 DEF Occurrences

\* How many entries there are over all channels: a push adds the last place of its
\* list, a removal takes it away.
LEMMA PlacesAppend ==
  ASSUME NEW f \in [Channels -> Seq(Users)], NEW c \in Channels, NEW u \in Users,
         IsFiniteSet(Places(f))
  PROVE  LET g == [f EXCEPT ![c] = Append(@, u)]
         IN  IsFiniteSet(Places(g)) /\ Entries(g) = Entries(f) + 1
<1> DEFINE g == [f EXCEPT ![c] = Append(@, u)]
           new == <<c, Len(f[c]) + 1>>
<1>1. g[c] = Append(f[c], u) /\ \A d \in Channels : d # c => g[d] = f[d]
  OBVIOUS
<1>2. DOMAIN f[c] = 1..Len(f[c]) /\ Len(f[c]) \in Nat
  OBVIOUS
<1>3. DOMAIN g[c] = DOMAIN f[c] \cup {Len(f[c]) + 1}
  BY <1>1, <1>2
<1>4. new \notin Places(f)
  BY <1>2 DEF Places
<1>5. Places(g) = Places(f) \cup {new}
  <2> HIDE DEF g
  <2> QED
    BY <1>1, <1>3 DEF Places
<1>6. IsFiniteSet(Places(g)) /\ Cardinality(Places(g)) = Cardinality(Places(f)) + 1
  <2> HIDE DEF g, new
  <2> QED
    BY <1>4, <1>5, FS_AddElement
<1> QED
  BY <1>6 DEF Entries

LEMMA PlacesRemove ==
  ASSUME NEW f \in [Channels -> Seq(Users)], NEW c \in Channels, NEW i \in DOMAIN f[c],
         IsFiniteSet(Places(f))
  PROVE  LET g == [f EXCEPT ![c] = RemoveAt(@, i)]
         IN  IsFiniteSet(Places(g)) /\ Entries(g) = Entries(f) - 1
<1> DEFINE g == [f EXCEPT ![c] = RemoveAt(@, i)]
           old == <<c, Len(f[c])>>
<1>1. g[c] = RemoveAt(f[c], i) /\ \A d \in Channels : d # c => g[d] = f[d]
  OBVIOUS
<1>2. DOMAIN f[c] = 1..Len(f[c]) /\ Len(f[c]) \in Nat /\ i \in 1..Len(f[c])
  OBVIOUS
<1>3. DOMAIN g[c] = DOMAIN f[c] \ {Len(f[c])}
  <2>1. g[c] \in Seq(Users) /\ Len(g[c]) = Len(f[c]) - 1
    BY <1>1, RemoveAtType
  <2>2. DOMAIN g[c] = 1..(Len(f[c]) - 1)
    BY <2>1
  <2> QED
    BY <1>2, <2>2
<1>4. old \in Places(f)
  BY <1>2 DEF Places
<1>5. Places(g) = Places(f) \ {old}
  <2> HIDE DEF g
  <2> QED
    BY <1>1, <1>3 DEF Places
<1>6. IsFiniteSet(Places(g)) /\ Cardinality(Places(g)) = Cardinality(Places(f)) - 1
  <2> HIDE DEF g, old
  <2> QED
    BY <1>4, <1>5, FS_RemoveElement
<1> QED
  BY <1>6 DEF Entries

\* Of the sessions `in` that have entered a list and not left it, those in `out` are
\* between two channels; over all channels the lists hold one entry for each other.
Sums(lists, in, out) ==
  /\ IsFiniteSet(in) /\ IsFiniteSet(out) /\ IsFiniteSet(Places(lists))
  /\ Entries(lists) = Cardinality(in) - Cardinality(out)

\* own[c][u]: the sessions of user u that account for an entry of channel c.
Exact(lists, own) ==
  \A c \in Channels, u \in Users :
    /\ IsFiniteSet(own[c][u])
    /\ Occurrences(lists[c], u) = Cardinality(own[c][u])

\* The four ways in which a list and its sessions change together: a login enters,
\* finish_up leaves, a switch takes an entry out and puts it in elsewhere.
LEMMA SumsEnter ==
  ASSUME NEW f \in [Channels -> Seq(Users)], NEW c \in Channels, NEW u \in Users,
         NEW in, NEW out, NEW s, s \notin in, Sums(f, in, out)
  PROVE  Sums([f EXCEPT ![c] = Append(@, u)], in \cup {s}, out)
<1> DEFINE g == [f EXCEPT ![c] = Append(@, u)]
<1>1. IsFiniteSet(Places(g)) /\ Entries(g) = Entries(f) + 1
  BY PlacesAppend DEF Sums
<1>2. /\ IsFiniteSet(in \cup {s}) /\ Cardinality(in \cup {s}) = Cardinality(in) + 1
      /\ Cardinality(in) \in Nat /\ Cardinality(out) \in Nat
  BY FS_AddElement, FS_CardinalityType DEF Sums
<1> HIDE DEF g
<1>3. Sums(g, in \cup {s}, out)
  BY <1>1, <1>2 DEF Sums
<1> QED
  BY <1>3 DEF g

LEMMA SumsPut ==
  ASSUME NEW f \in [Channels -> Seq(Users)], NEW c \in Channels, NEW u \in Users,
         NEW in, NEW out, NEW s \in out, Sums(f, in, out)
  PROVE  Sums([f EXCEPT ![c] = Append(@, u)], in, out \ {s})
<1> DEFINE g == [f EXCEPT ![c] = Append(@, u)]
<1>1. IsFiniteSet(Places(g)) /\ Entries(g) = Entries(f) + 1
  BY PlacesAppend DEF Sums
<1>2. /\ IsFiniteSet(out \ {s}) /\ Cardinality(out \ {s}) = Cardinality(out) - 1
      /\ Cardinality(in) \in Nat /\ Cardinality(out) \in Nat
  BY FS_RemoveElement, FS_CardinalityType DEF Sums
<1> HIDE DEF g
<1>3. Sums(g, in, out \ {s})
  BY <1>1, <1>2 DEF Sums
<1> QED
  BY <1>3 DEF g

LEMMA SumsTake ==
  ASSUME NEW f \in [Channels -> Seq(Users)], NEW c \in Channels, NEW i \in DOMAIN f[c],
         NEW in, NEW out, NEW s, s \notin out, Sums(f, in, out)
  PROVE  Sums([f EXCEPT ![c] = RemoveAt(@, i)], in, out \cup {s})
<1> DEFINE g == [f EXCEPT ![c] = RemoveAt(@, i)]
<1>1. IsFiniteSet(Places(g)) /\ Entries(g) = Entries(f) - 1
  BY PlacesRemove DEF Sums
<1>2. /\ IsFiniteSet(out \cup {s}) /\ Cardinality(out \cup {s}) = Cardinality(out) + 1
      /\ Cardinality(in) \in Nat /\ Cardinality(out) \in Nat
  BY FS_AddElement, FS_CardinalityType DEF Sums
<1> HIDE DEF g
<1>3. Sums(g, in, out \cup {s})
  BY <1>1, <1>2 DEF Sums
<1> QED
  BY <1>3 DEF g

LEMMA SumsLeave ==
  ASSUME NEW f \in [Channels -> Seq(Users)], NEW c \in Channels, NEW i \in DOMAIN f[c],
         NEW in, NEW out, NEW s \in in, Sums(f, in, out)
  PROVE  Sums([f EXCEPT ![c] = RemoveAt(@, i)], in \ {s}, out)
<1> DEFINE g == [f EXCEPT ![c] = RemoveAt(@, i)]
<1>1. IsFiniteSet(Places(g)) /\ Entries(g) = Entries(f) - 1
  BY PlacesRemove DEF Sums
<1>2. /\ IsFiniteSet(in \ {s}) /\ Cardinality(in \ {s}) = Cardinality(in) - 1
      /\ Cardinality(in) \in Nat /\ Cardinality(out) \in Nat
  BY FS_RemoveElement, FS_CardinalityType DEF Sums
<1> HIDE DEF g
<1>3. Sums(g, in \ {s}, out)
  BY <1>1, <1>2 DEF Sums
<1> QED
  BY <1>3 DEF g

-------------------------------------------------------------------------------
(* The lists against the sessions that account for their entries.              *)

ClientsIn  == {s \in Conns : EnteredClients(s) /\ ~LeftClients(s)}
ClientsOut == {s \in Conns : BetweenClients(s)}
ClientsOwn ==
  [c \in Channels |-> [u \in Users |-> {s \in Conns : user[s] = u /\ HasClientsEntry(s, c)}]]

ProtoIn  == {s \in Conns : EnteredProto(s) /\ ~LeftProto(s)}
ProtoOut == {s \in Conns : BetweenProto(s)}
ProtoOwn ==
  [c \in Channels |-> [u \in Users |-> {s \in Conns : user[s] = u /\ HasProtoEntry(s, c)}]]

\* The totals hold whatever happens, the rest until a removal has hit a wrong entry.
ClientsLedger == Sums(clients, ClientsIn, ClientsOut) /\ (~stale => Exact(clients, ClientsOwn))
ProtoLedger   == Sums(proto, ProtoIn, ProtoOut) /\ (~stale => Exact(proto, ProtoOwn))

\* A login that is on its way to the lists is in the default channel; ...
LoginInv(s) == auth[s] \in {"bcast", "insert", "pushc", "pushp"} => chan[s] = Default

\* ... who has not yet asked for a switch is finished up where it stands; ...
FirstInv(s) ==
  asked[s] = 0 =>
    /\ swpc[s] = "idle"
    /\ finpc[s] \in {"clients", "proto", "bcast"} => fin[s].ch = chan[s]

\* ... and until a removal has hit a wrong entry, a session that is between two
\* channels has not been finished up, and carries its own profile.
OwnInv(s) ==
  ~stale =>
    /\ BetweenClients(s) => ~LeftClients(s)
    /\ BetweenProto(s) => ~LeftProto(s)
    /\ swpc[s] \in {"pushc", "pushp"} => sw[s].prof = user[s]

NoSwitchInv == (\A s \in Conns : asked[s] = 0) => ~stale

MoveInv == NoSwitchInv /\ \A s \in Conns : LoginInv(s) /\ FirstInv(s) /\ OwnInv(s)

LEMMA LedgersConserve ==
  ASSUME ClientsLedger, ProtoLedger
  PROVE  EntriesConserved
<1>1. /\ Entries(clients) = Cardinality(ClientsIn) - Cardinality(ClientsOut)
      /\ Entries(proto) = Cardinality(ProtoIn) - Cardinality(ProtoOut)
  BY DEF ClientsLedger, ProtoLedger, Sums
<1> QED
  BY <1>1 DEF EntriesConserved, Count, ClientsIn, ClientsOut, ProtoIn, ProtoOut

LEMMA LedgersExact ==
  ASSUME ClientsLedger, ProtoLedger, NoSwitchInv
  PROVE  RosterExact
<1> SUFFICES ASSUME ~stale \/ (\A s \in Conns : asked[s] = 0),
                    NEW c \in Channels, NEW u \in Users
             PROVE  /\ Occurrences(clients[c], u) =
                         Count(LAMBDA s : user[s] = u /\ HasClientsEntry(s, c))
                    /\ Occurrences(proto[c], u) =
                         Count(LAMBDA s : user[s] = u /\ HasProtoEntry(s, c))
  BY DEF RosterExact
<1>1. ~stale
  BY DEF NoSwitchInv
<1>2. /\ Occurrences(clients[c], u) = Cardinality(ClientsOwn[c][u])
      /\ Occurrences(proto[c], u) = Cardinality(ProtoOwn[c][u])
  BY <1>1 DEF ClientsLedger, ProtoLedger, Exact
<1>3. /\ ClientsOwn[c][u] = {s \in Conns : user[s] = u /\ HasClientsEntry(s, c)}
      /\ ProtoOwn[c][u] = {s \in Conns : user[s] = u /\ HasProtoEntry(s, c)}
  BY DEF ClientsOwn, ProtoOwn
<1> QED
  BY <1>2, <1>3 DEF Count

LEMMA InitRoster == Init => ClientsLedger /\ ProtoLedger /\ MoveInv
<1> SUFFICES ASSUME Init PROVE ClientsLedger /\ ProtoLedger /\ MoveInv
  OBVIOUS
<1>1. /\ ClientsIn = {} /\ ClientsOut = {} /\ ProtoIn = {} /\ ProtoOut = {}
      /\ Places(clients) = {} /\ Places(proto) = {}
  BY DEF Init, ClientsIn, ClientsOut, ProtoIn, ProtoOut, EnteredClients, EnteredProto,
     BetweenClients, BetweenProto, Places
<1>2. Sums(clients, ClientsIn, ClientsOut) /\ Sums(proto, ProtoIn, ProtoOut)
  BY <1>1, FS_EmptySet DEF Sums, Entries
<1>3. ASSUME NEW c \in Channels, NEW u \in Users
      PROVE  /\ {s \in Conns : user[s] = u /\ HasClientsEntry(s, c)} = {}
             /\ {s \in Conns : user[s] = u /\ HasProtoEntry(s, c)} = {}
             /\ Occurrences(clients[c], u) = 0 /\ Occurrences(proto[c], u) = 0
  <2>1. /\ {i \in DOMAIN clients[c] : clients[c][i] = u} = {}
        /\ {i \in DOMAIN proto[c] : proto[c][i] = u} = {}
    BY DEF Init
  <2> QED
    BY <2>1, FS_EmptySet DEF Init, HasClientsEntry, HasProtoEntry, EnteredClients,
       EnteredProto,
       Occurrences
<1>4. Exact(clients, ClientsOwn) /\ Exact(proto, ProtoOwn)
  BY <1>3, FS_EmptySet DEF Exact, ClientsOwn, ProtoOwn
<1>5. MoveInv
  BY DEF Init, MoveInv, NoSwitchInv, LoginInv, FirstInv, OwnInv, BetweenClients,
     BetweenProto
<1> QED
  BY <1>2, <1>4, <1>5 DEF ClientsLedger, ProtoLedger

\* A session keeps what it accounts for in the two lists.
ClientsSame(t) ==
  /\ (EnteredClients(t) /\ ~LeftClients(t))' = (EnteredClients(t) /\ ~LeftClients(t))
  /\ BetweenClients(t)' = BetweenClients(t)
  /\ EnteredClients(t) => user'[t] = user[t] /\ ClientsAt(t)' = ClientsAt(t)
ProtoSame(t) ==
  /\ (EnteredProto(t) /\ ~LeftProto(t))' = (EnteredProto(t) /\ ~LeftProto(t))
  /\ BetweenProto(t)' = BetweenProto(t)
  /\ EnteredProto(t) => user'[t] = user[t] /\ ProtoAt(t)' = ProtoAt(t)

\* Other sessions are not touched by a step of s.
Apart(s) ==
  \A t \in Conns \ {s} :
    /\ auth'[t] = auth[t] /\ finpc'[t] = finpc[t] /\ swpc'[t] = swpc[t] /\ sw'[t] = sw[t]
    /\ user'[t] = user[t] /\ chan'[t] = chan[t] /\ asked'[t] = asked[t] /\ fin'[t] = fin[t]

LEMMA ApartSame ==
  ASSUME NEW s \in Conns, Apart(s), NEW t \in Conns, t # s
  PROVE  ClientsSame(t) /\ ProtoSame(t)
BY DEF Apart, ClientsSame, ProtoSame, EnteredClients, LeftClients, BetweenClients,
   ClientsAt,
   EnteredProto, LeftProto, BetweenProto, ProtoAt

\* The invariants of a session that did not take the step survive it.
LEMMA ApartMove ==
  ASSUME NEW s \in Conns, MoveInv, Apart(s), stale => stale', asked'[s] = 0 => asked[s] = 0,
         LoginInv(s)', FirstInv(s)', OwnInv(s)',
         (\A t \in Conns : asked[t] = 0) /\ ~stale => asked'[s] # 0 \/ ~stale'
  PROVE  MoveInv'
<1>1. ASSUME NEW t \in Conns, t # s PROVE LoginInv(t)' /\ FirstInv(t)' /\ OwnInv(t)'
  BY <1>1 DEF MoveInv, Apart, LoginInv, FirstInv, OwnInv, BetweenClients, BetweenProto,
     LeftClients, LeftProto
<1>2. NoSwitchInv'
  BY DEF MoveInv, NoSwitchInv, Apart
<1> QED
  BY <1>1, <1>2 DEF MoveInv

\* A step of s that leaves the lists as they are, and what s accounts for.
Calm(s) ==
  /\ UNCHANGED <<clients, proto, stale>>
  /\ Apart(s) /\ ClientsSame(s) /\ ProtoSame(s)
  /\ asked'[s] = 0 => asked[s] = 0
  /\ LoginInv(s)' /\ FirstInv(s)' /\ OwnInv(s)'

\* The types of the variables, and what the invariants say of one session.
Typed ==
  /\ auth \in [Conns -> AuthPc] /\ swpc \in [Conns -> SwPc] /\ finpc \in [Conns -> FinPc]
  /\ user \in [Conns -> Users \cup {NoUser}] /\ chan \in [Conns -> Channels]
  /\ asked \in [Conns -> Nat]
  /\ sw \in [Conns -> [to : Channels, idx : Nat, prof : Users \cup {NoUser},
                       todo : SUBSET Users]]
  /\ fin \in [Conns -> [ch : Channels, send : BOOLEAN, todo : SUBSET Users,
                        dead : BOOLEAN]]
  /\ SessInv /\ TypeRoster /\ stale \in BOOLEAN

Local(s) ==
  /\ LoginInv(s) /\ FirstInv(s) /\ OwnInv(s) /\ asked[s] \in Nat
  /\ auth[s] \in {"none", "recv", "rejected"} <=> user[s] = NoUser
  /\ tasks[s] # {} \/ swpc[s] # "idle" \/ finpc[s] \notin {"none", "done"} => auth[s] = "done"
  /\ finpc[s] = "done" => auth[s] \in {"done", "rejected"}
  /\ auth[s] \in AuthPc /\ swpc[s] \in SwPc /\ finpc[s] \in FinPc
  /\ user[s] \in Users \cup {NoUser}

LEMMA Facts ==
  ASSUME SessionPart, DataPart, MoveInv, NEW s \in Conns
  PROVE  Typed /\ Local(s)
<1>1. Typed
  BY DEF Typed, SessionPart, TypeSession, DataPart, TypeServer, TypeRoster, TypeLocals,
     SwitchLocals, FinishLocals
<1>2. Local(s)
  BY <1>1 DEF Local, Typed, MoveInv, SessInv
<1> QED
  BY <1>1, <1>2

LEMMA AcceptorCalm ==
  ASSUME SessionPart, DataPart, MoveInv, NEW s \in Conns,
         Acceptor(s), ~AuthPushClients(s), ~AuthPushProto(s), ~AuthPanic(s)
  PROVE  Calm(s)
<1> USE DEF sessVars, accVars, rosterVars, swVars, finVars, history, Typed, Local
<1>s. Typed /\ Local(s)
  BY Facts
<1>1. CASE Accept(s)
  <2>1. Apart(s) /\ UNCHANGED <<clients, proto, stale>>
    BY <1>1, <1>s DEF Accept, SessInv, Apart
  <2>2. /\ auth[s] = "none" /\ auth'[s] = "recv"
        /\ finpc'[s] = finpc[s] /\ swpc'[s] = swpc[s] /\ user'[s] = user[s]
        /\ chan'[s] = chan[s] /\ asked'[s] = asked[s] /\ sw'[s] = sw[s]
        /\ fin'[s] = fin[s]
    BY <1>1, <1>s DEF Accept, SessInv
  <2>3. ClientsSame(s) /\ ProtoSame(s)
    BY <2>2, <1>s DEF ClientsSame, ProtoSame, EnteredClients, LeftClients, BetweenClients,
       ClientsAt, EnteredProto, LeftProto, BetweenProto, ProtoAt
  <2>4. LoginInv(s)' /\ FirstInv(s)' /\ OwnInv(s)' /\ (asked'[s] = 0 => asked[s] = 0)
    BY <2>1, <2>2, <1>s DEF LoginInv, FirstInv, OwnInv, BetweenClients, LeftClients,
       BetweenProto, LeftProto
  <2> QED
    BY <2>1, <2>3, <2>4 DEF Calm
<1>2. CASE AuthReject(s)
  <2>1. Apart(s) /\ UNCHANGED <<clients, proto, stale>>
    BY <1>2, <1>s DEF AuthReject, Return, Apart
  <2>2. /\ auth[s] = "recv" /\ auth'[s] = "rejected"
        /\ finpc'[s] \in {finpc[s], "done"}
        /\ swpc'[s] = swpc[s] /\ user'[s] = user[s] /\ chan'[s] = chan[s]
        /\ asked'[s] = asked[s] /\ sw'[s] = sw[s] /\ fin'[s] = fin[s]
    BY <1>2, <1>s DEF AuthReject, Return
  <2>3. ClientsSame(s) /\ ProtoSame(s)
    BY <2>2, <1>s DEF ClientsSame, ProtoSame, EnteredClients, LeftClients, BetweenClients,
       ClientsAt, EnteredProto, LeftProto, BetweenProto, ProtoAt
  <2>4. LoginInv(s)' /\ FirstInv(s)' /\ OwnInv(s)' /\ (asked'[s] = 0 => asked[s] = 0)
    BY <2>1, <2>2, <1>s DEF LoginInv, FirstInv, OwnInv, BetweenClients, LeftClients,
       BetweenProto, LeftProto
  <2> QED
    BY <2>1, <2>3, <2>4 DEF Calm
<1>3. ASSUME NEW u \in Users, AuthAccept(s, u) PROVE Calm(s)
  <2>1. Apart(s) /\ UNCHANGED <<clients, proto, stale>>
    BY <1>3, <1>s DEF AuthAccept, Apart
  <2>2. /\ auth[s] = "recv" /\ auth'[s] \in {"recv", "bcast"}
        /\ auth'[s] = "bcast" => chan'[s] = Default
        /\ auth'[s] = "recv" => chan'[s] = chan[s]
        /\ finpc'[s] = finpc[s] /\ swpc'[s] = swpc[s] /\ asked'[s] = asked[s]
        /\ sw'[s] = sw[s] /\ fin'[s] = fin[s]
    BY <1>3, <1>s DEF AuthAccept
  <2>3. ClientsSame(s) /\ ProtoSame(s)
    BY <2>2, <1>s DEF ClientsSame, ProtoSame, EnteredClients, LeftClients, BetweenClients,
       ClientsAt, EnteredProto, LeftProto, BetweenProto, ProtoAt
  <2>4. LoginInv(s)' /\ FirstInv(s)' /\ OwnInv(s)' /\ (asked'[s] = 0 => asked[s] = 0)
    BY <2>1, <2>2, <1>s DEF LoginInv, FirstInv, OwnInv, BetweenClients, LeftClients,
       BetweenProto, LeftProto
  <2> QED
    BY <2>1, <2>3, <2>4 DEF Calm
<1>4. CASE AuthBroadcast(s)
  <2>1. Apart(s) /\ UNCHANGED <<clients, proto, stale>>
    BY <1>4, <1>s DEF AuthBroadcast, Apart
  <2>2. /\ auth[s] = "bcast" /\ auth'[s] \in {"bcast", "insert"}
        /\ finpc'[s] = finpc[s] /\ swpc'[s] = swpc[s] /\ user'[s] = user[s]
        /\ chan'[s] = chan[s] /\ asked'[s] = asked[s] /\ sw'[s] = sw[s]
        /\ fin'[s] = fin[s]
    BY <1>4, <1>s DEF AuthBroadcast
  <2>3. ClientsSame(s) /\ ProtoSame(s)
    BY <2>2, <1>s DEF ClientsSame, ProtoSame, EnteredClients, LeftClients, BetweenClients,
       ClientsAt, EnteredProto, LeftProto, BetweenProto, ProtoAt
  <2>4. LoginInv(s)' /\ FirstInv(s)' /\ OwnInv(s)' /\ (asked'[s] = 0 => asked[s] = 0)
    BY <2>1, <2>2, <1>s DEF LoginInv, FirstInv, OwnInv, BetweenClients, LeftClients,
       BetweenProto, LeftProto
  <2> QED
    BY <2>1, <2>3, <2>4 DEF Calm
<1>5. CASE AuthInsert(s)
  <2>1. Apart(s) /\ UNCHANGED <<clients, proto, stale>>
    BY <1>5, <1>s DEF AuthInsert, Apart
  <2>2. /\ auth[s] = "insert" /\ auth'[s] \in {"insert", "pushc"}
        /\ finpc'[s] = finpc[s] /\ swpc'[s] = swpc[s] /\ user'[s] = user[s]
        /\ chan'[s] = chan[s] /\ asked'[s] = asked[s] /\ sw'[s] = sw[s]
        /\ fin'[s] = fin[s]
    BY <1>5, <1>s DEF AuthInsert
  <2>3. ClientsSame(s) /\ ProtoSame(s)
    BY <2>2, <1>s DEF ClientsSame, ProtoSame, EnteredClients, LeftClients, BetweenClients,
       ClientsAt, EnteredProto, LeftProto, BetweenProto, ProtoAt
  <2>4. LoginInv(s)' /\ FirstInv(s)' /\ OwnInv(s)' /\ (asked'[s] = 0 => asked[s] = 0)
    BY <2>1, <2>2, <1>s DEF LoginInv, FirstInv, OwnInv, BetweenClients, LeftClients,
       BetweenProto, LeftProto
  <2> QED
    BY <2>1, <2>3, <2>4 DEF Calm
<1>6. CASE AuthSnapshot(s)
  <2>1. Apart(s) /\ UNCHANGED <<clients, proto, stale>>
    BY <1>6, <1>s DEF AuthSnapshot, Apart
  <2>2. /\ auth[s] = "snap" /\ auth'[s] \in {"snap", "reply"}
        /\ finpc'[s] = finpc[s] /\ swpc'[s] = swpc[s] /\ user'[s] = user[s]
        /\ chan'[s] = chan[s] /\ asked'[s] = asked[s] /\ sw'[s] = sw[s]
        /\ fin'[s] = fin[s]
    BY <1>6, <1>s DEF AuthSnapshot
  <2>3. ClientsSame(s) /\ ProtoSame(s)
    BY <2>2, <1>s DEF ClientsSame, ProtoSame, EnteredClients, LeftClients, BetweenClients,
       ClientsAt, EnteredProto, LeftProto, BetweenProto, ProtoAt
  <2>4. LoginInv(s)' /\ FirstInv(s)' /\ OwnInv(s)' /\ (asked'[s] = 0 => asked[s] = 0)
    BY <2>1, <2>2, <1>s DEF LoginInv, FirstInv, OwnInv, BetweenClients, LeftClients,
       BetweenProto, LeftProto
  <2> QED
    BY <2>1, <2>3, <2>4 DEF Calm
<1>7. CASE AuthReply(s)
  <2>1. Apart(s) /\ UNCHANGED <<clients, proto, stale>>
    BY <1>7, <1>s DEF AuthReply, Apart
  <2>2. /\ auth[s] = "reply" /\ auth'[s] \in {"reply", "ka"}
        /\ finpc'[s] = finpc[s] /\ swpc'[s] = swpc[s] /\ user'[s] = user[s]
        /\ chan'[s] = chan[s] /\ asked'[s] = asked[s] /\ sw'[s] = sw[s]
        /\ fin'[s] = fin[s]
    BY <1>7, <1>s DEF AuthReply
  <2>3. ClientsSame(s) /\ ProtoSame(s)
    BY <2>2, <1>s DEF ClientsSame, ProtoSame, EnteredClients, LeftClients, BetweenClients,
       ClientsAt, EnteredProto, LeftProto, BetweenProto, ProtoAt
  <2>4. LoginInv(s)' /\ FirstInv(s)' /\ OwnInv(s)' /\ (asked'[s] = 0 => asked[s] = 0)
    BY <2>1, <2>2, <1>s DEF LoginInv, FirstInv, OwnInv, BetweenClients, LeftClients,
       BetweenProto, LeftProto
  <2> QED
    BY <2>1, <2>3, <2>4 DEF Calm
<1>8. CASE AuthKeepAlive(s)
  <2>1. Apart(s) /\ UNCHANGED <<clients, proto, stale>>
    BY <1>8, <1>s DEF AuthKeepAlive, Return, Apart
  <2>2. /\ auth[s] = "ka" /\ auth'[s] \in {"ka", "done"}
        /\ finpc'[s] = finpc[s] /\ swpc'[s] = swpc[s] /\ user'[s] = user[s]
        /\ chan'[s] = chan[s] /\ asked'[s] = asked[s] /\ sw'[s] = sw[s]
        /\ fin'[s] = fin[s]
    BY <1>8, <1>s DEF AuthKeepAlive, Return
  <2>3. ClientsSame(s) /\ ProtoSame(s)
    BY <2>2, <1>s DEF ClientsSame, ProtoSame, EnteredClients, LeftClients, BetweenClients,
       ClientsAt, EnteredProto, LeftProto, BetweenProto, ProtoAt
  <2>4. LoginInv(s)' /\ FirstInv(s)' /\ OwnInv(s)' /\ (asked'[s] = 0 => asked[s] = 0)
    BY <2>1, <2>2, <1>s DEF LoginInv, FirstInv, OwnInv, BetweenClients, LeftClients,
       BetweenProto, LeftProto
  <2> QED
    BY <2>1, <2>3, <2>4 DEF Calm
<1> QED
  BY <1>1, <1>2, <1>3, <1>4, <1>5, <1>6, <1>7, <1>8 DEF Acceptor

LEMMA HandlerCalm ==
  ASSUME SessionPart, DataPart, MoveInv, NEW s \in Conns,
         \/ \E c \in Channels : SwitchRequest(s, c)
         \/ SwitchRefuse(s) \/ SwitchFindClient(s) \/ SwitchFindProto(s)
         \/ SwitchStore(s) \/ SwitchReply(s) \/ SwitchBroadcast(s)
  PROVE  Calm(s)
<1> USE DEF sessVars, accVars, rosterVars, swVars, finVars, history, Typed, Local
<1>s. Typed /\ Local(s)
  BY Facts
<1>1. ASSUME NEW c \in Channels, SwitchRequest(s, c) PROVE Calm(s)
  <2>1. Apart(s) /\ UNCHANGED <<clients, proto, stale>>
    BY <1>1, <1>s DEF SwitchRequest, Handling, Apart
  <2>2. /\ swpc[s] = "idle" /\ swpc'[s] \in {"refuse", "findc"} /\ tasks[s] # {}
        /\ asked'[s] = asked[s] + 1
        /\ auth'[s] = auth[s] /\ finpc'[s] = finpc[s] /\ user'[s] = user[s]
        /\ chan'[s] = chan[s] /\ fin'[s] = fin[s]
    BY <1>1, <1>s DEF SwitchRequest, Handling
  <2>3. ClientsSame(s) /\ ProtoSame(s)
    BY <2>2, <1>s DEF ClientsSame, ProtoSame, EnteredClients, LeftClients, BetweenClients,
       ClientsAt, EnteredProto, LeftProto, BetweenProto, ProtoAt
  <2>4. LoginInv(s)' /\ FirstInv(s)' /\ OwnInv(s)' /\ (asked'[s] = 0 => asked[s] = 0)
    BY <2>1, <2>2, <1>s DEF LoginInv, FirstInv, OwnInv, BetweenClients, LeftClients,
       BetweenProto, LeftProto
  <2> QED
    BY <2>1, <2>3, <2>4 DEF Calm
<1>2. CASE SwitchRefuse(s)
  <2>1. Apart(s) /\ UNCHANGED <<clients, proto, stale>>
    BY <1>2, <1>s DEF SwitchRefuse, Apart
  <2>2. /\ swpc[s] = "refuse" /\ swpc'[s] \in {"refuse", "idle"}
        /\ auth'[s] = auth[s] /\ finpc'[s] = finpc[s] /\ user'[s] = user[s]
        /\ chan'[s] = chan[s] /\ asked'[s] = asked[s] /\ fin'[s] = fin[s]
    BY <1>2, <1>s DEF SwitchRefuse
  <2>3. ClientsSame(s) /\ ProtoSame(s)
    BY <2>2, <1>s DEF ClientsSame, ProtoSame, EnteredClients, LeftClients, BetweenClients,
       ClientsAt, EnteredProto, LeftProto, BetweenProto, ProtoAt
  <2>4. LoginInv(s)' /\ FirstInv(s)' /\ OwnInv(s)' /\ (asked'[s] = 0 => asked[s] = 0)
    BY <2>1, <2>2, <1>s DEF LoginInv, FirstInv, OwnInv, BetweenClients, LeftClients,
       BetweenProto, LeftProto
  <2> QED
    BY <2>1, <2>3, <2>4 DEF Calm
<1>3. CASE SwitchFindClient(s)
  <2>1. Apart(s) /\ UNCHANGED <<clients, proto, stale>>
    BY <1>3, <1>s DEF SwitchFindClient, Apart
  <2>2. /\ swpc[s] = "findc" /\ swpc'[s] \in {"findc", "rmc"}
        /\ sw'[s].to = sw[s].to /\ sw'[s].prof = sw[s].prof
        /\ auth'[s] = auth[s] /\ finpc'[s] = finpc[s] /\ user'[s] = user[s]
        /\ chan'[s] = chan[s] /\ asked'[s] = asked[s] /\ fin'[s] = fin[s]
    BY <1>3, <1>s DEF SwitchFindClient
  <2>3. ClientsSame(s) /\ ProtoSame(s)
    BY <2>2, <1>s DEF ClientsSame, ProtoSame, EnteredClients, LeftClients, BetweenClients,
       ClientsAt, EnteredProto, LeftProto, BetweenProto, ProtoAt
  <2>4. LoginInv(s)' /\ FirstInv(s)' /\ OwnInv(s)' /\ (asked'[s] = 0 => asked[s] = 0)
    BY <2>1, <2>2, <1>s DEF LoginInv, FirstInv, OwnInv, BetweenClients, LeftClients,
       BetweenProto, LeftProto
  <2> QED
    BY <2>1, <2>3, <2>4 DEF Calm
<1>4. CASE SwitchFindProto(s)
  <2>1. Apart(s) /\ UNCHANGED <<clients, proto, stale>>
    BY <1>4, <1>s DEF SwitchFindProto, Apart
  <2>2. /\ swpc[s] = "findp" /\ swpc'[s] \in {"findp", "rmp"}
        /\ sw'[s].to = sw[s].to /\ sw'[s].prof = sw[s].prof
        /\ auth'[s] = auth[s] /\ finpc'[s] = finpc[s] /\ user'[s] = user[s]
        /\ chan'[s] = chan[s] /\ asked'[s] = asked[s] /\ fin'[s] = fin[s]
    BY <1>4, <1>s DEF SwitchFindProto
  <2>3. ClientsSame(s) /\ ProtoSame(s)
    BY <2>2, <1>s DEF ClientsSame, ProtoSame, EnteredClients, LeftClients, BetweenClients,
       ClientsAt, EnteredProto, LeftProto, BetweenProto, ProtoAt
  <2>4. LoginInv(s)' /\ FirstInv(s)' /\ OwnInv(s)' /\ (asked'[s] = 0 => asked[s] = 0)
    BY <2>1, <2>2, <1>s DEF LoginInv, FirstInv, OwnInv, BetweenClients, LeftClients,
       BetweenProto, LeftProto
  <2> QED
    BY <2>1, <2>3, <2>4 DEF Calm
<1>5. CASE SwitchStore(s)
  <2>1. Apart(s) /\ UNCHANGED <<clients, proto, stale>>
    BY <1>5, <1>s DEF SwitchStore, Handling, Apart
  <2>2. /\ swpc[s] = "store" /\ swpc'[s] = "reply"
        /\ chan'[s] = sw[s].to /\ tasks[s] # {}
        /\ auth'[s] = auth[s] /\ finpc'[s] = finpc[s] /\ user'[s] = user[s]
        /\ asked'[s] = asked[s] /\ sw'[s] = sw[s] /\ fin'[s] = fin[s]
    BY <1>5, <1>s DEF SwitchStore, Handling
  <2>3. ClientsSame(s) /\ ProtoSame(s)
    BY <2>2, <1>s DEF ClientsSame, ProtoSame, EnteredClients, LeftClients, BetweenClients,
       ClientsAt, EnteredProto, LeftProto, BetweenProto, ProtoAt
  <2>4. LoginInv(s)' /\ FirstInv(s)' /\ OwnInv(s)' /\ (asked'[s] = 0 => asked[s] = 0)
    BY <2>1, <2>2, <1>s DEF LoginInv, FirstInv, OwnInv, BetweenClients, LeftClients,
       BetweenProto, LeftProto
  <2> QED
    BY <2>1, <2>3, <2>4 DEF Calm
<1>6. CASE SwitchReply(s)
  <2>1. Apart(s) /\ UNCHANGED <<clients, proto, stale>>
    BY <1>6, <1>s DEF SwitchReply, Apart
  <2>2. /\ swpc[s] = "reply" /\ swpc'[s] \in {"reply", "bcast"}
        /\ auth'[s] = auth[s] /\ finpc'[s] = finpc[s] /\ user'[s] = user[s]
        /\ chan'[s] = chan[s] /\ asked'[s] = asked[s] /\ fin'[s] = fin[s]
    BY <1>6, <1>s DEF SwitchReply
  <2>3. ClientsSame(s) /\ ProtoSame(s)
    BY <2>2, <1>s DEF ClientsSame, ProtoSame, EnteredClients, LeftClients, BetweenClients,
       ClientsAt, EnteredProto, LeftProto, BetweenProto, ProtoAt
  <2>4. LoginInv(s)' /\ FirstInv(s)' /\ OwnInv(s)' /\ (asked'[s] = 0 => asked[s] = 0)
    BY <2>1, <2>2, <1>s DEF LoginInv, FirstInv, OwnInv, BetweenClients, LeftClients,
       BetweenProto, LeftProto
  <2> QED
    BY <2>1, <2>3, <2>4 DEF Calm
<1>7. CASE SwitchBroadcast(s)
  <2>1. Apart(s) /\ UNCHANGED <<clients, proto, stale>>
    BY <1>7, <1>s DEF SwitchBroadcast, Apart
  <2>2. /\ swpc[s] = "bcast" /\ swpc'[s] \in {"bcast", "idle"}
        /\ auth'[s] = auth[s] /\ finpc'[s] = finpc[s] /\ user'[s] = user[s]
        /\ chan'[s] = chan[s] /\ asked'[s] = asked[s] /\ fin'[s] = fin[s]
    BY <1>7, <1>s DEF SwitchBroadcast
  <2>3. ClientsSame(s) /\ ProtoSame(s)
    BY <2>2, <1>s DEF ClientsSame, ProtoSame, EnteredClients, LeftClients, BetweenClients,
       ClientsAt, EnteredProto, LeftProto, BetweenProto, ProtoAt
  <2>4. LoginInv(s)' /\ FirstInv(s)' /\ OwnInv(s)' /\ (asked'[s] = 0 => asked[s] = 0)
    BY <2>1, <2>2, <1>s DEF LoginInv, FirstInv, OwnInv, BetweenClients, LeftClients,
       BetweenProto, LeftProto
  <2> QED
    BY <2>1, <2>3, <2>4 DEF Calm
<1> QED
  BY <1>1, <1>2, <1>3, <1>4, <1>5, <1>6, <1>7

LEMMA ClosingCalm ==
  ASSUME SessionPart, DataPart, MoveInv, NEW s \in Conns,
         \/ FinishOnline(s) \/ FinishLoad(s) \/ FinishBroadcast(s) \/ CloseLink(s)
         \/ (\E t \in Readers : ReaderError(s, t))
         \/ LinkDown(s) \/ DisconnectPacket(s) \/ PanicPacket(s) \/ VoicePanic(s)
  PROVE  Calm(s)
<1> USE DEF sessVars, accVars, rosterVars, swVars, finVars, history, Typed, Local
<1>s. Typed /\ Local(s)
  BY Facts
<1>1. CASE FinishOnline(s)
  <2>1. Apart(s) /\ UNCHANGED <<clients, proto, stale>>
    BY <1>1, <1>s DEF FinishOnline, Apart
  <2>2. /\ finpc[s] = "online" /\ finpc'[s] = "load"
        /\ auth'[s] = auth[s] /\ swpc'[s] = swpc[s] /\ user'[s] = user[s]
        /\ chan'[s] = chan[s] /\ asked'[s] = asked[s] /\ sw'[s] = sw[s]
    BY <1>1, <1>s DEF FinishOnline
  <2>3. ClientsSame(s) /\ ProtoSame(s)
    BY <2>2, <1>s DEF ClientsSame, ProtoSame, EnteredClients, LeftClients, BetweenClients,
       ClientsAt, EnteredProto, LeftProto, BetweenProto, ProtoAt
  <2>4. LoginInv(s)' /\ FirstInv(s)' /\ OwnInv(s)' /\ (asked'[s] = 0 => asked[s] = 0)
    BY <2>1, <2>2, <1>s DEF LoginInv, FirstInv, OwnInv, BetweenClients, LeftClients,
       BetweenProto, LeftProto
  <2> QED
    BY <2>1, <2>3, <2>4 DEF Calm
<1>2. CASE FinishBroadcast(s)
  <2>1. Apart(s) /\ UNCHANGED <<clients, proto, stale>>
    BY <1>2, <1>s DEF FinishBroadcast, FinishPanic, Apart
  <2>2. /\ finpc[s] = "bcast" /\ finpc'[s] \in {"bcast", "shut"}
        /\ fin'[s].ch = fin[s].ch
        /\ auth'[s] = auth[s] /\ swpc'[s] = swpc[s] /\ user'[s] = user[s]
        /\ chan'[s] = chan[s] /\ asked'[s] = asked[s] /\ sw'[s] = sw[s]
    BY <1>2, <1>s DEF FinishBroadcast, FinishPanic
  <2>3. ClientsSame(s) /\ ProtoSame(s)
    BY <2>2, <1>s DEF ClientsSame, ProtoSame, EnteredClients, LeftClients, BetweenClients,
       ClientsAt, EnteredProto, LeftProto, BetweenProto, ProtoAt
  <2>4. LoginInv(s)' /\ FirstInv(s)' /\ OwnInv(s)' /\ (asked'[s] = 0 => asked[s] = 0)
    BY <2>1, <2>2, <1>s DEF LoginInv, FirstInv, OwnInv, BetweenClients, LeftClients,
       BetweenProto, LeftProto
  <2> QED
    BY <2>1, <2>3, <2>4 DEF Calm
<1>3. CASE CloseLink(s)
  <2>1. Apart(s) /\ UNCHANGED <<clients, proto, stale>>
    BY <1>3, <1>s DEF CloseLink, Apart
  <2>2. /\ finpc[s] = "shut" /\ finpc'[s] = "done"
        /\ auth'[s] = auth[s] /\ swpc'[s] = swpc[s] /\ user'[s] = user[s]
        /\ chan'[s] = chan[s] /\ asked'[s] = asked[s] /\ sw'[s] = sw[s]
    BY <1>3, <1>s DEF CloseLink
  <2>3. ClientsSame(s) /\ ProtoSame(s)
    BY <2>2, <1>s DEF ClientsSame, ProtoSame, EnteredClients, LeftClients, BetweenClients,
       ClientsAt, EnteredProto, LeftProto, BetweenProto, ProtoAt
  <2>4. LoginInv(s)' /\ FirstInv(s)' /\ OwnInv(s)' /\ (asked'[s] = 0 => asked[s] = 0)
    BY <2>1, <2>2, <1>s DEF LoginInv, FirstInv, OwnInv, BetweenClients, LeftClients,
       BetweenProto, LeftProto
  <2> QED
    BY <2>1, <2>3, <2>4 DEF Calm
<1>4. ASSUME NEW t \in Readers, ReaderError(s, t) PROVE Calm(s)
  <2>1. Apart(s) /\ UNCHANGED <<clients, proto, stale>>
    BY <1>4, <1>s DEF ReaderError, Apart
  <2>2. /\ finpc'[s] = finpc[s] \/ (finpc[s] = "none" /\ finpc'[s] = "online")
        /\ auth'[s] = auth[s] /\ swpc'[s] = swpc[s] /\ user'[s] = user[s]
        /\ chan'[s] = chan[s] /\ asked'[s] = asked[s] /\ sw'[s] = sw[s]
        /\ fin'[s] = fin[s]
    BY <1>4, <1>s DEF ReaderError
  <2>3. ClientsSame(s) /\ ProtoSame(s)
    BY <2>2, <1>s DEF ClientsSame, ProtoSame, EnteredClients, LeftClients, BetweenClients,
       ClientsAt, EnteredProto, LeftProto, BetweenProto, ProtoAt
  <2>4. LoginInv(s)' /\ FirstInv(s)' /\ OwnInv(s)' /\ (asked'[s] = 0 => asked[s] = 0)
    BY <2>1, <2>2, <1>s DEF LoginInv, FirstInv, OwnInv, BetweenClients, LeftClients,
       BetweenProto, LeftProto
  <2> QED
    BY <2>1, <2>3, <2>4 DEF Calm
<1>5. CASE LinkDown(s) \/ DisconnectPacket(s) \/ PanicPacket(s) \/ VoicePanic(s)
  <2>1. Apart(s) /\ UNCHANGED <<clients, proto, stale>>
    BY <1>5, <1>s DEF LinkDown, DisconnectPacket, PanicPacket, VoicePanic, Apart
  <2>2. /\ auth'[s] = auth[s] /\ finpc'[s] = finpc[s] /\ swpc'[s] = swpc[s]
        /\ user'[s] = user[s] /\ chan'[s] = chan[s] /\ asked'[s] = asked[s]
        /\ sw'[s] = sw[s] /\ fin'[s] = fin[s]
    BY <1>5, <1>s DEF LinkDown, DisconnectPacket, PanicPacket, VoicePanic
  <2>3. ClientsSame(s) /\ ProtoSame(s)
    BY <2>2, <1>s DEF ClientsSame, ProtoSame, EnteredClients, LeftClients, BetweenClients,
       ClientsAt, EnteredProto, LeftProto, BetweenProto, ProtoAt
  <2>4. LoginInv(s)' /\ FirstInv(s)' /\ OwnInv(s)' /\ (asked'[s] = 0 => asked[s] = 0)
    BY <2>1, <2>2, <1>s DEF LoginInv, FirstInv, OwnInv, BetweenClients, LeftClients,
       BetweenProto, LeftProto
  <2> QED
    BY <2>1, <2>3, <2>4 DEF Calm
<1>6. CASE FinishLoad(s)
  <2>1. Apart(s) /\ UNCHANGED <<clients, proto, stale>>
    BY <1>6, <1>s DEF FinishLoad, Apart
  <2>2. /\ finpc[s] = "load" /\ finpc'[s] = "clients"
        /\ fin'[s].ch = chan[s]
        /\ auth'[s] = auth[s] /\ swpc'[s] = swpc[s] /\ user'[s] = user[s]
        /\ chan'[s] = chan[s] /\ asked'[s] = asked[s] /\ sw'[s] = sw[s]
    BY <1>6, <1>s DEF FinishLoad
  <2>3. ClientsSame(s) /\ ProtoSame(s)
    BY <2>2, <1>s DEF ClientsSame, ProtoSame, EnteredClients, LeftClients, BetweenClients,
       ClientsAt, EnteredProto, LeftProto, BetweenProto, ProtoAt
  <2>4. LoginInv(s)' /\ FirstInv(s)' /\ OwnInv(s)' /\ (asked'[s] = 0 => asked[s] = 0)
    BY <2>1, <2>2, <1>s DEF LoginInv, FirstInv, OwnInv, BetweenClients, LeftClients,
       BetweenProto, LeftProto
  <2> QED
    BY <2>1, <2>3, <2>4 DEF Calm
<1> QED
  BY <1>1, <1>2, <1>3, <1>4, <1>5, <1>6

\* What a step of s does to the sets of sessions is decided by s alone; the five ways in
\* which s and the list of a channel change together keep the ledger.
LEMMA ClientsSetsBut ==
  ASSUME NEW s \in Conns, Apart(s)
  PROVE  /\ ClientsIn' = IF (EnteredClients(s) /\ ~LeftClients(s))' THEN ClientsIn \cup {s} ELSE ClientsIn \ {s}
         /\ ClientsOut' = IF BetweenClients(s)' THEN ClientsOut \cup {s} ELSE ClientsOut \ {s}
<1>1. ASSUME NEW t \in Conns, t # s PROVE ClientsSame(t)
  BY <1>1, ApartSame
<1> QED
  BY <1>1 DEF ClientsIn, ClientsOut, ClientsSame

LEMMA ClientsOwnBut ==
  ASSUME NEW s \in Conns, Apart(s), NEW c \in Channels, NEW u \in Users
  PROVE  /\ (user[s] = u /\ HasClientsEntry(s, c))' => ClientsOwn'[c][u] = ClientsOwn[c][u] \cup {s}
         /\ ~(user[s] = u /\ HasClientsEntry(s, c))' => ClientsOwn'[c][u] = ClientsOwn[c][u] \ {s}
<1>1. ASSUME NEW t \in Conns, t # s
      PROVE  user'[t] = user[t] /\ (HasClientsEntry(t, c)' <=> HasClientsEntry(t, c))
  <2>1. ClientsSame(t)
    BY <1>1, ApartSame
  <2> QED
    BY <1>1, <2>1 DEF Apart, ClientsSame, HasClientsEntry
<1>2. /\ ClientsOwn[c][u] = {t \in Conns : user[t] = u /\ HasClientsEntry(t, c)}
      /\ ClientsOwn'[c][u] = {t \in Conns : (user[t] = u /\ HasClientsEntry(t, c))'}
  BY DEF ClientsOwn
<1> QED
  BY <1>1, <1>2

LEMMA ClientsCalm ==
  ASSUME ClientsLedger, NEW s \in Conns, Apart(s), ClientsSame(s), UNCHANGED clients, stale => stale'
  PROVE  ClientsLedger'
<1>1. ASSUME NEW t \in Conns PROVE ClientsSame(t)
  BY ApartSame
<1>2. ASSUME NEW t \in Conns, NEW c \in Channels, NEW u \in Users
      PROVE  (user[t] = u /\ HasClientsEntry(t, c))' <=> user[t] = u /\ HasClientsEntry(t, c)
  BY <1>1 DEF ClientsSame, HasClientsEntry
<1>3. UNCHANGED <<ClientsIn, ClientsOut, ClientsOwn>>
  BY <1>1, <1>2 DEF ClientsSame, ClientsIn, ClientsOut, ClientsOwn
<1> QED
  BY <1>3 DEF ClientsLedger, Sums, Exact, Entries, Places, Occurrences

LEMMA ClientsEnter ==
  ASSUME ClientsLedger, TypeRoster, NEW s \in Conns, Apart(s), stale => stale',
         NEW c \in Channels, user[s] \in Users, user'[s] = user[s],
         clients' = [clients EXCEPT ![c] = Append(@, user[s])],
         ~EnteredClients(s), (EnteredClients(s) /\ ~LeftClients(s))',
         ~BetweenClients(s), ~BetweenClients(s)', ClientsAt(s)' = c
  PROVE  ClientsLedger'
<1>1. clients \in [Channels -> Seq(Users)] /\ s \notin ClientsIn /\ s \notin ClientsOut
  BY DEF TypeRoster, ClientsIn, ClientsOut
<1>2. ClientsIn' = ClientsIn \cup {s} /\ ClientsOut' = ClientsOut
  <2>1. ClientsIn' = ClientsIn \cup {s}
    BY ClientsSetsBut
  <2>2. ClientsOut' = ClientsOut \ {s}
    BY ClientsSetsBut
  <2> QED
    BY <1>1, <2>1, <2>2
<1>3. Sums(clients, ClientsIn, ClientsOut)'
  BY <1>1, <1>2, SumsEnter DEF ClientsLedger
<1>4. ASSUME ~stale', NEW d \in Channels, NEW w \in Users
      PROVE  /\ IsFiniteSet(ClientsOwn'[d][w])
             /\ Occurrences(clients'[d], w) = Cardinality(ClientsOwn'[d][w])
  <2>1. IsFiniteSet(ClientsOwn[d][w]) /\ Occurrences(clients[d], w) = Cardinality(ClientsOwn[d][w])
    BY <1>4 DEF ClientsLedger, Exact
  <2>2. s \notin ClientsOwn[d][w]
    BY DEF ClientsOwn, HasClientsEntry
  <2>3. (user[s] = w /\ HasClientsEntry(s, d))' <=> d = c /\ w = user[s]
    BY DEF HasClientsEntry
  <2>4. ClientsOwn'[d][w] = IF d = c /\ w = user[s] THEN ClientsOwn[d][w] \cup {s} ELSE ClientsOwn[d][w]
    <3>1. (user[s] = w /\ HasClientsEntry(s, d))' => ClientsOwn'[d][w] = ClientsOwn[d][w] \cup {s}
      BY ClientsOwnBut
    <3>2. ~(user[s] = w /\ HasClientsEntry(s, d))' => ClientsOwn'[d][w] = ClientsOwn[d][w] \ {s}
      BY ClientsOwnBut
    <3> QED
      BY <2>2, <2>3, <3>1, <3>2
  <2>5. CASE d = c
    <3>1. clients[c] \in Seq(Users) /\ clients'[d] = Append(clients[c], user[s])
      BY <1>1, <2>5
    <3>2. Occurrences(clients[c], w) \in Nat
      BY <3>1, OccurrencesType
    <3>3. Occurrences(Append(clients[c], user[s]), w) =
               Occurrences(clients[c], w) + IF user[s] = w THEN 1 ELSE 0
      BY <3>1, OccurrencesAppend
    <3>4. CASE w = user[s]
      <4>1. /\ IsFiniteSet(ClientsOwn[d][w] \cup {s})
            /\ Cardinality(ClientsOwn[d][w] \cup {s}) = Cardinality(ClientsOwn[d][w]) + 1
        BY <2>1, <2>2, <2>5, <3>4, FS_AddElement
      <4> QED
        BY <2>1, <2>4, <2>5, <3>1, <3>2, <3>4, <3>3, <4>1
    <3>5. CASE w # user[s]
      BY <2>1, <2>2, <2>4, <2>5, <3>1, <3>2, <3>5, <3>3
    <3> QED
      BY <3>4, <3>5
  <2>6. CASE d # c
    <3>1. clients'[d] = clients[d] /\ ClientsOwn'[d][w] = ClientsOwn[d][w]
      BY <1>1, <2>2, <2>4, <2>6
    <3> QED
      BY <2>1, <3>1
  <2> QED
    BY <2>5, <2>6
<1>5. ~stale' => Exact(clients, ClientsOwn)'
  BY <1>4 DEF Exact
<1> QED
  BY <1>3, <1>5 DEF ClientsLedger

LEMMA ClientsPut ==
  ASSUME ClientsLedger, TypeRoster, NEW s \in Conns, Apart(s), stale => stale',
         NEW c \in Channels, NEW u \in Users, user'[s] = user[s],
         clients' = [clients EXCEPT ![c] = Append(@, u)],
         (EnteredClients(s) /\ ~LeftClients(s))' = (EnteredClients(s) /\ ~LeftClients(s)),
         BetweenClients(s), ~BetweenClients(s)',
         ~stale => u = user[s] /\ EnteredClients(s) /\ ~LeftClients(s) /\ ClientsAt(s)' = c
  PROVE  ClientsLedger'
<1>1. clients \in [Channels -> Seq(Users)] /\ s \in ClientsOut
  BY DEF TypeRoster, ClientsOut
<1>2. ClientsIn' = ClientsIn /\ ClientsOut' = ClientsOut \ {s}
  BY ClientsSetsBut DEF ClientsIn
<1>3. Sums(clients, ClientsIn, ClientsOut)'
  BY <1>1, <1>2, SumsPut DEF ClientsLedger
<1>4. ASSUME ~stale', NEW d \in Channels, NEW w \in Users
      PROVE  /\ IsFiniteSet(ClientsOwn'[d][w])
             /\ Occurrences(clients'[d], w) = Cardinality(ClientsOwn'[d][w])
  <2>1. IsFiniteSet(ClientsOwn[d][w]) /\ Occurrences(clients[d], w) = Cardinality(ClientsOwn[d][w])
    BY <1>4 DEF ClientsLedger, Exact
  <2>2. s \notin ClientsOwn[d][w]
    BY DEF ClientsOwn, HasClientsEntry
  <2>3. (user[s] = w /\ HasClientsEntry(s, d))' <=> d = c /\ w = u
    BY <1>4 DEF HasClientsEntry
  <2>4. ClientsOwn'[d][w] = IF d = c /\ w = u THEN ClientsOwn[d][w] \cup {s} ELSE ClientsOwn[d][w]
    <3>1. (user[s] = w /\ HasClientsEntry(s, d))' => ClientsOwn'[d][w] = ClientsOwn[d][w] \cup {s}
      BY ClientsOwnBut
    <3>2. ~(user[s] = w /\ HasClientsEntry(s, d))' => ClientsOwn'[d][w] = ClientsOwn[d][w] \ {s}
      BY ClientsOwnBut
    <3> QED
      BY <2>2, <2>3, <3>1, <3>2
  <2>5. CASE d = c
    <3>1. clients[c] \in Seq(Users) /\ clients'[d] = Append(clients[c], u)
      BY <1>1, <2>5
    <3>2. Occurrences(clients[c], w) \in Nat
      BY <3>1, OccurrencesType
    <3>3. Occurrences(Append(clients[c], u), w) =
               Occurrences(clients[c], w) + IF u = w THEN 1 ELSE 0
      BY <3>1, OccurrencesAppend
    <3>4. CASE w = u
      <4>1. /\ IsFiniteSet(ClientsOwn[d][w] \cup {s})
            /\ Cardinality(ClientsOwn[d][w] \cup {s}) = Cardinality(ClientsOwn[d][w]) + 1
        BY <2>1, <2>2, <2>5, <3>4, FS_AddElement
      <4> QED
        BY <2>1, <2>4, <2>5, <3>1, <3>2, <3>4, <3>3, <4>1
    <3>5. CASE w # u
      BY <2>1, <2>2, <2>4, <2>5, <3>1, <3>2, <3>5, <3>3
    <3> QED
      BY <3>4, <3>5
  <2>6. CASE d # c
    <3>1. clients'[d] = clients[d] /\ ClientsOwn'[d][w] = ClientsOwn[d][w]
      BY <1>1, <2>2, <2>4, <2>6
    <3> QED
      BY <2>1, <3>1
  <2> QED
    BY <2>5, <2>6
<1>5. ~stale' => Exact(clients, ClientsOwn)'
  BY <1>4 DEF Exact
<1> QED
  BY <1>3, <1>5 DEF ClientsLedger

LEMMA ClientsTake ==
  ASSUME ClientsLedger, TypeRoster, NEW s \in Conns, Apart(s), stale => stale',
         NEW c \in Channels, NEW i \in DOMAIN clients[c], user'[s] = user[s],
         clients' = [clients EXCEPT ![c] = RemoveAt(@, i)],
         \/ /\ (EnteredClients(s) /\ ~LeftClients(s))' = (EnteredClients(s) /\ ~LeftClients(s))
            /\ ~BetweenClients(s) /\ BetweenClients(s)'
         \/ /\ EnteredClients(s) /\ ~LeftClients(s) /\ ~(EnteredClients(s) /\ ~LeftClients(s))'
            /\ BetweenClients(s)' = BetweenClients(s),
         ~stale' => clients[c][i] = user[s] /\ HasClientsEntry(s, c)
  PROVE  ClientsLedger'
<1>1. clients \in [Channels -> Seq(Users)]
  BY DEF TypeRoster
<1>2. Sums(clients, ClientsIn, ClientsOut)'
  <2>1. CASE /\ (EnteredClients(s) /\ ~LeftClients(s))' = (EnteredClients(s) /\ ~LeftClients(s))
             /\ ~BetweenClients(s) /\ BetweenClients(s)'
    <3>1. s \notin ClientsOut /\ ClientsIn' = ClientsIn /\ ClientsOut' = ClientsOut \cup {s}
      BY <2>1, ClientsSetsBut DEF ClientsIn, ClientsOut
    <3> QED
      BY <1>1, <3>1, SumsTake DEF ClientsLedger
  <2>2. CASE /\ EnteredClients(s) /\ ~LeftClients(s) /\ ~(EnteredClients(s) /\ ~LeftClients(s))'
             /\ BetweenClients(s)' = BetweenClients(s)
    <3>1. s \in ClientsIn /\ ClientsIn' = ClientsIn \ {s} /\ ClientsOut' = ClientsOut
      BY <2>2, ClientsSetsBut DEF ClientsIn, ClientsOut
    <3> QED
      BY <1>1, <3>1, SumsLeave DEF ClientsLedger
  <2> QED
    BY <2>1, <2>2
<1>3. ASSUME ~stale', NEW d \in Channels, NEW w \in Users
      PROVE  /\ IsFiniteSet(ClientsOwn'[d][w])
             /\ Occurrences(clients'[d], w) = Cardinality(ClientsOwn'[d][w])
  <2>1. IsFiniteSet(ClientsOwn[d][w]) /\ Occurrences(clients[d], w) = Cardinality(ClientsOwn[d][w])
    BY <1>3 DEF ClientsLedger, Exact
  <2>2. s \in ClientsOwn[d][w] <=> d = c /\ w = clients[c][i]
    BY <1>3 DEF ClientsOwn, HasClientsEntry
  <2>3. ~(user[s] = w /\ HasClientsEntry(s, d))'
    BY DEF HasClientsEntry
  <2>4. ClientsOwn'[d][w] = ClientsOwn[d][w] \ {s}
    BY <2>3, ClientsOwnBut
  <2>5. CASE d = c
    <3>1. clients[c] \in Seq(Users) /\ clients'[d] = RemoveAt(clients[c], i)
      BY <1>1, <2>5
    <3>2. Occurrences(clients[c], w) \in Nat
      BY <3>1, OccurrencesType
    <3>3. Occurrences(RemoveAt(clients[c], i), w) =
               Occurrences(clients[c], w) - IF clients[c][i] = w THEN 1 ELSE 0
      BY <3>1, OccurrencesRemove
    <3>4. CASE w = clients[c][i]
      <4>1. /\ IsFiniteSet(ClientsOwn[d][w] \ {s})
            /\ Cardinality(ClientsOwn[d][w] \ {s}) = Cardinality(ClientsOwn[d][w]) - 1
        BY <2>1, <2>2, <2>5, <3>4, FS_RemoveElement
      <4> QED
        BY <2>1, <2>4, <2>5, <3>1, <3>2, <3>4, <3>3, <4>1
    <3>5. CASE w # clients[c][i]
      BY <2>1, <2>2, <2>4, <2>5, <3>1, <3>2, <3>5, <3>3
    <3> QED
      BY <3>4, <3>5
  <2>6. CASE d # c
    <3>1. clients'[d] = clients[d] /\ ClientsOwn'[d][w] = ClientsOwn[d][w]
      BY <1>1, <2>2, <2>4, <2>6
    <3> QED
      BY <2>1, <3>1
  <2> QED
    BY <2>5, <2>6
<1>4. ~stale' => Exact(clients, ClientsOwn)'
  BY <1>3 DEF Exact
<1> QED
  BY <1>2, <1>4 DEF ClientsLedger

\* The same for the other list.
LEMMA ProtoSetsBut ==
  ASSUME NEW s \in Conns, Apart(s)
  PROVE  /\ ProtoIn' = IF (EnteredProto(s) /\ ~LeftProto(s))' THEN ProtoIn \cup {s} ELSE ProtoIn \ {s}
         /\ ProtoOut' = IF BetweenProto(s)' THEN ProtoOut \cup {s} ELSE ProtoOut \ {s}
<1>1. ASSUME NEW t \in Conns, t # s PROVE ProtoSame(t)
  BY <1>1, ApartSame
<1> QED
  BY <1>1 DEF ProtoIn, ProtoOut, ProtoSame

LEMMA ProtoOwnBut ==
  ASSUME NEW s \in Conns, Apart(s), NEW c \in Channels, NEW u \in Users
  PROVE  /\ (user[s] = u /\ HasProtoEntry(s, c))' => ProtoOwn'[c][u] = ProtoOwn[c][u] \cup {s}
         /\ ~(user[s] = u /\ HasProtoEntry(s, c))' => ProtoOwn'[c][u] = ProtoOwn[c][u] \ {s}
<1>1. ASSUME NEW t \in Conns, t # s
      PROVE  user'[t] = user[t] /\ (HasProtoEntry(t, c)' <=> HasProtoEntry(t, c))
  <2>1. ProtoSame(t)
    BY <1>1, ApartSame
  <2> QED
    BY <1>1, <2>1 DEF Apart, ProtoSame, HasProtoEntry
<1>2. /\ ProtoOwn[c][u] = {t \in Conns : user[t] = u /\ HasProtoEntry(t, c)}
      /\ ProtoOwn'[c][u] = {t \in Conns : (user[t] = u /\ HasProtoEntry(t, c))'}
  BY DEF ProtoOwn
<1> QED
  BY <1>1, <1>2

LEMMA ProtoCalm ==
  ASSUME ProtoLedger, NEW s \in Conns, Apart(s), ProtoSame(s), UNCHANGED proto, stale => stale'
  PROVE  ProtoLedger'
<1>1. ASSUME NEW t \in Conns PROVE ProtoSame(t)
  BY ApartSame
<1>2. ASSUME NEW t \in Conns, NEW c \in Channels, NEW u \in Users
      PROVE  (user[t] = u /\ HasProtoEntry(t, c))' <=> user[t] = u /\ HasProtoEntry(t, c)
  BY <1>1 DEF ProtoSame, HasProtoEntry
<1>3. UNCHANGED <<ProtoIn, ProtoOut, ProtoOwn>>
  BY <1>1, <1>2 DEF ProtoSame, ProtoIn, ProtoOut, ProtoOwn
<1> QED
  BY <1>3 DEF ProtoLedger, Sums, Exact, Entries, Places, Occurrences

LEMMA ProtoEnter ==
  ASSUME ProtoLedger, TypeRoster, NEW s \in Conns, Apart(s), stale => stale',
         NEW c \in Channels, user[s] \in Users, user'[s] = user[s],
         proto' = [proto EXCEPT ![c] = Append(@, user[s])],
         ~EnteredProto(s), (EnteredProto(s) /\ ~LeftProto(s))',
         ~BetweenProto(s), ~BetweenProto(s)', ProtoAt(s)' = c
  PROVE  ProtoLedger'
<1>1. proto \in [Channels -> Seq(Users)] /\ s \notin ProtoIn /\ s \notin ProtoOut
  BY DEF TypeRoster, ProtoIn, ProtoOut
<1>2. ProtoIn' = ProtoIn \cup {s} /\ ProtoOut' = ProtoOut
  <2>1. ProtoIn' = ProtoIn \cup {s}
    BY ProtoSetsBut
  <2>2. ProtoOut' = ProtoOut \ {s}
    BY ProtoSetsBut
  <2> QED
    BY <1>1, <2>1, <2>2
<1>3. Sums(proto, ProtoIn, ProtoOut)'
  BY <1>1, <1>2, SumsEnter DEF ProtoLedger
<1>4. ASSUME ~stale', NEW d \in Channels, NEW w \in Users
      PROVE  /\ IsFiniteSet(ProtoOwn'[d][w])
             /\ Occurrences(proto'[d], w) = Cardinality(ProtoOwn'[d][w])
  <2>1. IsFiniteSet(ProtoOwn[d][w]) /\ Occurrences(proto[d], w) = Cardinality(ProtoOwn[d][w])
    BY <1>4 DEF ProtoLedger, Exact
  <2>2. s \notin ProtoOwn[d][w]
    BY DEF ProtoOwn, HasProtoEntry
  <2>3. (user[s] = w /\ HasProtoEntry(s, d))' <=> d = c /\ w = user[s]
    BY DEF HasProtoEntry
  <2>4. ProtoOwn'[d][w] = IF d = c /\ w = user[s] THEN ProtoOwn[d][w] \cup {s} ELSE ProtoOwn[d][w]
    <3>1. (user[s] = w /\ HasProtoEntry(s, d))' => ProtoOwn'[d][w] = ProtoOwn[d][w] \cup {s}
      BY ProtoOwnBut
    <3>2. ~(user[s] = w /\ HasProtoEntry(s, d))' => ProtoOwn'[d][w] = ProtoOwn[d][w] \ {s}
      BY ProtoOwnBut
    <3> QED
      BY <2>2, <2>3, <3>1, <3>2
  <2>5. CASE d = c
    <3>1. proto[c] \in Seq(Users) /\ proto'[d] = Append(proto[c], user[s])
      BY <1>1, <2>5
    <3>2. Occurrences(proto[c], w) \in Nat
      BY <3>1, OccurrencesType
    <3>3. Occurrences(Append(proto[c], user[s]), w) =
               Occurrences(proto[c], w) + IF user[s] = w THEN 1 ELSE 0
      BY <3>1, OccurrencesAppend
    <3>4. CASE w = user[s]
      <4>1. /\ IsFiniteSet(ProtoOwn[d][w] \cup {s})
            /\ Cardinality(ProtoOwn[d][w] \cup {s}) = Cardinality(ProtoOwn[d][w]) + 1
        BY <2>1, <2>2, <2>5, <3>4, FS_AddElement
      <4> QED
        BY <2>1, <2>4, <2>5, <3>1, <3>2, <3>4, <3>3, <4>1
    <3>5. CASE w # user[s]
      BY <2>1, <2>2, <2>4, <2>5, <3>1, <3>2, <3>5, <3>3
    <3> QED
      BY <3>4, <3>5
  <2>6. CASE d # c
    <3>1. proto'[d] = proto[d] /\ ProtoOwn'[d][w] = ProtoOwn[d][w]
      BY <1>1, <2>2, <2>4, <2>6
    <3> QED
      BY <2>1, <3>1
  <2> QED
    BY <2>5, <2>6
<1>5. ~stale' => Exact(proto, ProtoOwn)'
  BY <1>4 DEF Exact
<1> QED
  BY <1>3, <1>5 DEF ProtoLedger

LEMMA ProtoPut ==
  ASSUME ProtoLedger, TypeRoster, NEW s \in Conns, Apart(s), stale => stale',
         NEW c \in Channels, NEW u \in Users, user'[s] = user[s],
         proto' = [proto EXCEPT ![c] = Append(@, u)],
         (EnteredProto(s) /\ ~LeftProto(s))' = (EnteredProto(s) /\ ~LeftProto(s)),
         BetweenProto(s), ~BetweenProto(s)',
         ~stale => u = user[s] /\ EnteredProto(s) /\ ~LeftProto(s) /\ ProtoAt(s)' = c
  PROVE  ProtoLedger'
<1>1. proto \in [Channels -> Seq(Users)] /\ s \in ProtoOut
  BY DEF TypeRoster, ProtoOut
<1>2. ProtoIn' = ProtoIn /\ ProtoOut' = ProtoOut \ {s}
  BY ProtoSetsBut DEF ProtoIn
<1>3. Sums(proto, ProtoIn, ProtoOut)'
  BY <1>1, <1>2, SumsPut DEF ProtoLedger
<1>4. ASSUME ~stale', NEW d \in Channels, NEW w \in Users
      PROVE  /\ IsFiniteSet(ProtoOwn'[d][w])
             /\ Occurrences(proto'[d], w) = Cardinality(ProtoOwn'[d][w])
  <2>1. IsFiniteSet(ProtoOwn[d][w]) /\ Occurrences(proto[d], w) = Cardinality(ProtoOwn[d][w])
    BY <1>4 DEF ProtoLedger, Exact
  <2>2. s \notin ProtoOwn[d][w]
    BY DEF ProtoOwn, HasProtoEntry
  <2>3. (user[s] = w /\ HasProtoEntry(s, d))' <=> d = c /\ w = u
    BY <1>4 DEF HasProtoEntry
  <2>4. ProtoOwn'[d][w] = IF d = c /\ w = u THEN ProtoOwn[d][w] \cup {s} ELSE ProtoOwn[d][w]
    <3>1. (user[s] = w /\ HasProtoEntry(s, d))' => ProtoOwn'[d][w] = ProtoOwn[d][w] \cup {s}
      BY ProtoOwnBut
    <3>2. ~(user[s] = w /\ HasProtoEntry(s, d))' => ProtoOwn'[d][w] = ProtoOwn[d][w] \ {s}
      BY ProtoOwnBut
    <3> QED
      BY <2>2, <2>3, <3>1, <3>2
  <2>5. CASE d = c
    <3>1. proto[c] \in Seq(Users) /\ proto'[d] = Append(proto[c], u)
      BY <1>1, <2>5
    <3>2. Occurrences(proto[c], w) \in Nat
      BY <3>1, OccurrencesType
    <3>3. Occurrences(Append(proto[c], u), w) =
               Occurrences(proto[c], w) + IF u = w THEN 1 ELSE 0
      BY <3>1, OccurrencesAppend
    <3>4. CASE w = u
      <4>1. /\ IsFiniteSet(ProtoOwn[d][w] \cup {s})
            /\ Cardinality(ProtoOwn[d][w] \cup {s}) = Cardinality(ProtoOwn[d][w]) + 1
        BY <2>1, <2>2, <2>5, <3>4, FS_AddElement
      <4> QED
        BY <2>1, <2>4, <2>5, <3>1, <3>2, <3>4, <3>3, <4>1
    <3>5. CASE w # u
      BY <2>1, <2>2, <2>4, <2>5, <3>1, <3>2, <3>5, <3>3
    <3> QED
      BY <3>4, <3>5
  <2>6. CASE d # c
    <3>1. proto'[d] = proto[d] /\ ProtoOwn'[d][w] = ProtoOwn[d][w]
      BY <1>1, <2>2, <2>4, <2>6
    <3> QED
      BY <2>1, <3>1
  <2> QED
    BY <2>5, <2>6
<1>5. ~stale' => Exact(proto, ProtoOwn)'
  BY <1>4 DEF Exact
<1> QED
  BY <1>3, <1>5 DEF ProtoLedger

LEMMA ProtoTake ==
  ASSUME ProtoLedger, TypeRoster, NEW s \in Conns, Apart(s), stale => stale',
         NEW c \in Channels, NEW i \in DOMAIN proto[c], user'[s] = user[s],
         proto' = [proto EXCEPT ![c] = RemoveAt(@, i)],
         \/ /\ (EnteredProto(s) /\ ~LeftProto(s))' = (EnteredProto(s) /\ ~LeftProto(s))
            /\ ~BetweenProto(s) /\ BetweenProto(s)'
         \/ /\ EnteredProto(s) /\ ~LeftProto(s) /\ ~(EnteredProto(s) /\ ~LeftProto(s))'
            /\ BetweenProto(s)' = BetweenProto(s),
         ~stale' => proto[c][i] = user[s] /\ HasProtoEntry(s, c)
  PROVE  ProtoLedger'
<1>1. proto \in [Channels -> Seq(Users)]
  BY DEF TypeRoster
<1>2. Sums(proto, ProtoIn, ProtoOut)'
  <2>1. CASE /\ (EnteredProto(s) /\ ~LeftProto(s))' = (EnteredProto(s) /\ ~LeftProto(s))
             /\ ~BetweenProto(s) /\ BetweenProto(s)'
    <3>1. s \notin ProtoOut /\ ProtoIn' = ProtoIn /\ ProtoOut' = ProtoOut \cup {s}
      BY <2>1, ProtoSetsBut DEF ProtoIn, ProtoOut
    <3> QED
      BY <1>1, <3>1, SumsTake DEF ProtoLedger
  <2>2. CASE /\ EnteredProto(s) /\ ~LeftProto(s) /\ ~(EnteredProto(s) /\ ~LeftProto(s))'
             /\ BetweenProto(s)' = BetweenProto(s)
    <3>1. s \in ProtoIn /\ ProtoIn' = ProtoIn \ {s} /\ ProtoOut' = ProtoOut
      BY <2>2, ProtoSetsBut DEF ProtoIn, ProtoOut
    <3> QED
      BY <1>1, <3>1, SumsLeave DEF ProtoLedger
  <2> QED
    BY <2>1, <2>2
<1>3. ASSUME ~stale', NEW d \in Channels, NEW w \in Users
      PROVE  /\ IsFiniteSet(ProtoOwn'[d][w])
             /\ Occurrences(proto'[d], w) = Cardinality(ProtoOwn'[d][w])
  <2>1. IsFiniteSet(ProtoOwn[d][w]) /\ Occurrences(proto[d], w) = Cardinality(ProtoOwn[d][w])
    BY <1>3 DEF ProtoLedger, Exact
  <2>2. s \in ProtoOwn[d][w] <=> d = c /\ w = proto[c][i]
    BY <1>3 DEF ProtoOwn, HasProtoEntry
  <2>3. ~(user[s] = w /\ HasProtoEntry(s, d))'
    BY DEF HasProtoEntry
  <2>4. ProtoOwn'[d][w] = ProtoOwn[d][w] \ {s}
    BY <2>3, ProtoOwnBut
  <2>5. CASE d = c
    <3>1. proto[c] \in Seq(Users) /\ proto'[d] = RemoveAt(proto[c], i)
      BY <1>1, <2>5
    <3>2. Occurrences(proto[c], w) \in Nat
      BY <3>1, OccurrencesType
    <3>3. Occurrences(RemoveAt(proto[c], i), w) =
               Occurrences(proto[c], w) - IF proto[c][i] = w THEN 1 ELSE 0
      BY <3>1, OccurrencesRemove
    <3>4. CASE w = proto[c][i]
      <4>1. /\ IsFiniteSet(ProtoOwn[d][w] \ {s})
            /\ Cardinality(ProtoOwn[d][w] \ {s}) = Cardinality(ProtoOwn[d][w]) - 1
        BY <2>1, <2>2, <2>5, <3>4, FS_RemoveElement
      <4> QED
        BY <2>1, <2>4, <2>5, <3>1, <3>2, <3>4, <3>3, <4>1
    <3>5. CASE w # proto[c][i]
      BY <2>1, <2>2, <2>4, <2>5, <3>1, <3>2, <3>5, <3>3
    <3> QED
      BY <3>4, <3>5
  <2>6. CASE d # c
    <3>1. proto'[d] = proto[d] /\ ProtoOwn'[d][w] = ProtoOwn[d][w]
      BY <1>1, <2>2, <2>4, <2>6
    <3> QED
      BY <2>1, <3>1
  <2> QED
    BY <2>5, <2>6
<1>4. ~stale' => Exact(proto, ProtoOwn)'
  BY <1>3 DEF Exact
<1> QED
  BY <1>2, <1>4 DEF ProtoLedger

\* What holds of the lists in every reachable state.
RosterPart == ClientsLedger /\ ProtoLedger /\ MoveInv

LEMMA CalmKeeps ==
  ASSUME RosterPart, NEW s \in Conns, Calm(s)
  PROVE  RosterPart'
<1>1. ClientsLedger'
  BY ClientsCalm DEF RosterPart, Calm
<1>2. ProtoLedger'
  BY ProtoCalm DEF RosterPart, Calm
<1>3. MoveInv'
  BY ApartMove DEF RosterPart, Calm
<1> QED
  BY <1>1, <1>2, <1>3 DEF RosterPart

LEMMA AuthPushClientsKeeps ==
  ASSUME SessionPart, DataPart, RosterPart, NEW s \in Conns, AuthPushClients(s)
  PROVE  RosterPart'
<1> USE DEF sessVars, accVars, rosterVars, swVars, finVars, history, Typed, Local
<1>r. ClientsLedger /\ ProtoLedger /\ MoveInv
  BY DEF RosterPart
<1>s. Typed /\ Local(s)
  BY <1>r, Facts
<1>1. RosterPart'
  <2>1. Apart(s) /\ UNCHANGED proto /\ (stale => stale')
    BY <1>s DEF AuthPushClients, Apart
  <2>2. /\ asked'[s] = asked[s] /\ user'[s] = user[s] /\ chan'[s] = chan[s]
        /\ auth[s] = "pushc" /\ auth'[s] = "pushp" /\ finpc'[s] = finpc[s]
        /\ swpc'[s] = swpc[s] /\ sw'[s] = sw[s] /\ fin'[s] = fin[s] /\ stale' = stale
        /\ clients' = [clients EXCEPT ![Default] = Append(@, user[s])]
    BY <1>s DEF AuthPushClients, IsFirst
  <2>3. ClientsLedger'
    <3>1. /\ ~EnteredClients(s) /\ (EnteredClients(s) /\ ~LeftClients(s))'
          /\ ~BetweenClients(s) /\ ~BetweenClients(s)' /\ ClientsAt(s)' = Default
          /\ Default \in Channels /\ user[s] \in Users
      BY <2>1, <2>2, <1>s, ConstantsOK DEF EnteredClients, LeftClients, BetweenClients,
         ClientsAt, HasClientsEntry, LoginInv, OwnInv
    <3> QED
      BY <1>r, <1>s, <2>1, <2>2, <3>1, ClientsEnter
  <2>4. ProtoSame(s)
    BY <2>2, <1>s DEF ProtoSame, EnteredProto, LeftProto, BetweenProto, ProtoAt
  <2>5. ProtoLedger'
    BY <1>r, <2>1, <2>4, ProtoCalm
  <2>6. LoginInv(s)' /\ FirstInv(s)' /\ OwnInv(s)'
    BY <2>1, <2>2, <1>s DEF LoginInv, FirstInv, OwnInv, BetweenClients, LeftClients,
       BetweenProto, LeftProto
  <2>7. (\A t \in Conns : asked[t] = 0) /\ ~stale => asked'[s] # 0 \/ ~stale'
    BY <2>1, <2>2
  <2>8. MoveInv'
    BY <1>r, <2>1, <2>2, <2>6, <2>7, ApartMove
  <2> QED
    BY <2>3, <2>5, <2>8 DEF RosterPart
<1> QED
  BY <1>1

LEMMA AuthPushProtoKeeps ==
  ASSUME SessionPart, DataPart, RosterPart, NEW s \in Conns, AuthPushProto(s)
  PROVE  RosterPart'
<1> USE DEF sessVars, accVars, rosterVars, swVars, finVars, history, Typed, Local
<1>r. ClientsLedger /\ ProtoLedger /\ MoveInv
  BY DEF RosterPart
<1>s. Typed /\ Local(s)
  BY <1>r, Facts
<1>1. CASE Default \notin poison
  <2>1. Apart(s) /\ UNCHANGED clients /\ (stale => stale')
    BY <1>1, <1>s DEF AuthPushProto, Apart
  <2>2. /\ asked'[s] = asked[s] /\ user'[s] = user[s] /\ chan'[s] = chan[s]
        /\ auth[s] = "pushp" /\ auth'[s] = "snap" /\ finpc'[s] = finpc[s]
        /\ swpc'[s] = swpc[s] /\ sw'[s] = sw[s] /\ fin'[s] = fin[s] /\ stale' = stale
        /\ proto' = [proto EXCEPT ![Default] = Append(@, user[s])]
    BY <1>1, <1>s DEF AuthPushProto, IsFirst
  <2>3. ProtoLedger'
    <3>1. /\ ~EnteredProto(s) /\ (EnteredProto(s) /\ ~LeftProto(s))'
          /\ ~BetweenProto(s) /\ ~BetweenProto(s)' /\ ProtoAt(s)' = Default
          /\ Default \in Channels /\ user[s] \in Users
      BY <2>1, <2>2, <1>s, ConstantsOK DEF EnteredProto, LeftProto, BetweenProto, ProtoAt,
         HasProtoEntry, LoginInv, OwnInv
    <3> QED
      BY <1>r, <1>s, <2>1, <2>2, <3>1, ProtoEnter
  <2>4. ClientsSame(s)
    BY <2>2, <1>s DEF ClientsSame, EnteredClients, LeftClients, BetweenClients, ClientsAt
  <2>5. ClientsLedger'
    BY <1>r, <2>1, <2>4, ClientsCalm
  <2>6. LoginInv(s)' /\ FirstInv(s)' /\ OwnInv(s)'
    BY <2>1, <2>2, <1>s DEF LoginInv, FirstInv, OwnInv, BetweenClients, LeftClients,
       BetweenProto, LeftProto
  <2>7. (\A t \in Conns : asked[t] = 0) /\ ~stale => asked'[s] # 0 \/ ~stale'
    BY <2>1, <2>2
  <2>8. MoveInv'
    BY <1>r, <2>1, <2>2, <2>6, <2>7, ApartMove
  <2> QED
    BY <2>3, <2>5, <2>8 DEF RosterPart
<1>2. CASE Default \in poison
  <2>1. Apart(s) /\ UNCHANGED <<clients, proto, stale>>
    BY <1>2, <1>s DEF AuthPushProto, Panic, FinishPanic, Apart
  <2>2. /\ auth'[s] = auth[s] /\ finpc'[s] = finpc[s] /\ swpc'[s] = swpc[s]
        /\ user'[s] = user[s] /\ chan'[s] = chan[s] /\ asked'[s] = asked[s]
        /\ sw'[s] = sw[s] /\ fin'[s].ch = fin[s].ch
    BY <1>2, <1>s DEF AuthPushProto, Panic, FinishPanic
  <2>3. ClientsSame(s) /\ ProtoSame(s)
    BY <2>2 DEF ClientsSame, ProtoSame, EnteredClients, LeftClients, BetweenClients,
       ClientsAt,
       EnteredProto, LeftProto, BetweenProto, ProtoAt
  <2>4. LoginInv(s)' /\ FirstInv(s)' /\ OwnInv(s)' /\ (asked'[s] = 0 => asked[s] = 0)
    BY <2>1, <2>2, <1>s DEF LoginInv, FirstInv, OwnInv, BetweenClients, LeftClients,
       BetweenProto, LeftProto
  <2> QED
    BY <2>1, <2>3, <2>4, CalmKeeps DEF Calm
<1> QED
  BY <1>1, <1>2 DEF AuthPushProto

LEMMA SwitchRemoveClientKeeps ==
  ASSUME SessionPart, DataPart, RosterPart, NEW s \in Conns, SwitchRemoveClient(s)
  PROVE  RosterPart'
<1> USE DEF sessVars, accVars, rosterVars, swVars, finVars, history, Typed, Local
<1>r. ClientsLedger /\ ProtoLedger /\ MoveInv
  BY DEF RosterPart
<1>s. Typed /\ Local(s)
  BY <1>r, Facts
<1>1. CASE sw[s].idx \in DOMAIN clients[chan[s]]
  <2>1. Apart(s) /\ UNCHANGED proto /\ (stale => stale')
    BY <1>1, <1>s DEF SwitchRemoveClient, Apart
  <2>2. /\ asked'[s] = asked[s] /\ user'[s] = user[s] /\ chan'[s] = chan[s]
        /\ swpc[s] = "rmc" /\ swpc'[s] = "findp" /\ sw'[s].prof = sw[s].prof
        /\ auth'[s] = auth[s] /\ finpc'[s] = finpc[s] /\ fin'[s] = fin[s]
        /\ clients' = [clients EXCEPT ![chan[s]] = RemoveAt(@, sw[s].idx)]
    BY <1>1, <1>s DEF SwitchRemoveClient, IsFirst
  <2>h. ~stale' => /\ clients[chan[s]][sw[s].idx] = user[s] /\ ~stale
              /\ HasClientsEntry(s, chan[s])
    BY <1>1, <1>s DEF SwitchRemoveClient, IsFirst
  <2>3. ClientsLedger'
    <3>1. /\ \/ /\ (EnteredClients(s) /\ ~LeftClients(s))' = (EnteredClients(s) /\ ~LeftClients(s))
                /\ ~BetweenClients(s) /\ BetweenClients(s)'
             \/ /\ EnteredClients(s) /\ ~LeftClients(s) /\ ~(EnteredClients(s) /\ ~LeftClients(s))'
                /\ BetweenClients(s)' = BetweenClients(s)
          /\ chan[s] \in Channels
      BY <2>1, <2>2, <2>h, <1>s DEF EnteredClients, LeftClients, BetweenClients, ClientsAt,
         HasClientsEntry, LoginInv, OwnInv
    <3> QED
      BY <1>1, <1>r, <1>s, <2>1, <2>2, <2>h, <3>1, ClientsTake
  <2>4. ProtoSame(s)
    BY <2>2, <1>s DEF ProtoSame, EnteredProto, LeftProto, BetweenProto, ProtoAt
  <2>5. ProtoLedger'
    BY <1>r, <2>1, <2>4, ProtoCalm
  <2>6. LoginInv(s)' /\ FirstInv(s)' /\ OwnInv(s)'
    BY <2>1, <2>2, <2>h, <1>s DEF LoginInv, FirstInv, OwnInv, BetweenClients, LeftClients,
       BetweenProto, LeftProto, HasClientsEntry
  <2>7. (\A t \in Conns : asked[t] = 0) /\ ~stale => asked'[s] # 0 \/ ~stale'
    BY <2>2, <2>h, <1>s DEF FirstInv
  <2>8. MoveInv'
    BY <1>r, <2>1, <2>2, <2>6, <2>7, ApartMove
  <2> QED
    BY <2>3, <2>5, <2>8 DEF RosterPart
<1>2. CASE sw[s].idx \notin DOMAIN clients[chan[s]]
  <2>1. Apart(s) /\ UNCHANGED <<clients, proto, stale>>
    BY <1>2, <1>s DEF SwitchRemoveClient, Panic, FinishPanic, Apart
  <2>2. /\ auth'[s] = auth[s] /\ finpc'[s] = finpc[s] /\ swpc'[s] = swpc[s]
        /\ user'[s] = user[s] /\ chan'[s] = chan[s] /\ asked'[s] = asked[s]
        /\ sw'[s] = sw[s] /\ fin'[s].ch = fin[s].ch
    BY <1>2, <1>s DEF SwitchRemoveClient, Panic, FinishPanic
  <2>3. ClientsSame(s) /\ ProtoSame(s)
    BY <2>2 DEF ClientsSame, ProtoSame, EnteredClients, LeftClients, BetweenClients,
       ClientsAt,
       EnteredProto, LeftProto, BetweenProto, ProtoAt
  <2>4. LoginInv(s)' /\ FirstInv(s)' /\ OwnInv(s)' /\ (asked'[s] = 0 => asked[s] = 0)
    BY <2>1, <2>2, <1>s DEF LoginInv, FirstInv, OwnInv, BetweenClients, LeftClients,
       BetweenProto, LeftProto
  <2> QED
    BY <2>1, <2>3, <2>4, CalmKeeps DEF Calm
<1> QED
  BY <1>1, <1>2 DEF SwitchRemoveClient

LEMMA SwitchRemoveProtoKeeps ==
  ASSUME SessionPart, DataPart, RosterPart, NEW s \in Conns, SwitchRemoveProto(s)
  PROVE  RosterPart'
<1> USE DEF sessVars, accVars, rosterVars, swVars, finVars, history, Typed, Local
<1>r. ClientsLedger /\ ProtoLedger /\ MoveInv
  BY DEF RosterPart
<1>s. Typed /\ Local(s)
  BY <1>r, Facts
<1>1. CASE chan[s] \notin poison /\ sw[s].idx \in DOMAIN proto[chan[s]]
  <2>1. Apart(s) /\ UNCHANGED clients /\ (stale => stale')
    BY <1>1, <1>s DEF SwitchRemoveProto, Apart
  <2>2. /\ asked'[s] = asked[s] /\ user'[s] = user[s] /\ chan'[s] = chan[s]
        /\ swpc[s] = "rmp" /\ swpc'[s] = "pushc" /\ sw'[s].prof = proto[chan[s]][sw[s].idx]
        /\ auth'[s] = auth[s] /\ finpc'[s] = finpc[s] /\ fin'[s] = fin[s]
        /\ proto' = [proto EXCEPT ![chan[s]] = RemoveAt(@, sw[s].idx)]
    BY <1>1, <1>s DEF SwitchRemoveProto, IsFirst
  <2>h. ~stale' => /\ proto[chan[s]][sw[s].idx] = user[s] /\ ~stale
              /\ HasProtoEntry(s, chan[s])
    BY <1>1, <1>s DEF SwitchRemoveProto, IsFirst
  <2>3. ProtoLedger'
    <3>1. /\ \/ /\ (EnteredProto(s) /\ ~LeftProto(s))' = (EnteredProto(s) /\ ~LeftProto(s))
                /\ ~BetweenProto(s) /\ BetweenProto(s)'
             \/ /\ EnteredProto(s) /\ ~LeftProto(s) /\ ~(EnteredProto(s) /\ ~LeftProto(s))'
                /\ BetweenProto(s)' = BetweenProto(s)
          /\ chan[s] \in Channels
      BY <2>1, <2>2, <2>h, <1>s DEF EnteredProto, LeftProto, BetweenProto, ProtoAt,
         HasProtoEntry, LoginInv, OwnInv
    <3> QED
      BY <1>1, <1>r, <1>s, <2>1, <2>2, <2>h, <3>1, ProtoTake
  <2>4. ClientsSame(s)
    BY <2>2, <1>s DEF ClientsSame, EnteredClients, LeftClients, BetweenClients, ClientsAt
  <2>5. ClientsLedger'
    BY <1>r, <2>1, <2>4, ClientsCalm
  <2>6. LoginInv(s)' /\ FirstInv(s)' /\ OwnInv(s)'
    BY <2>1, <2>2, <2>h, <1>s DEF LoginInv, FirstInv, OwnInv, BetweenClients, LeftClients,
       BetweenProto, LeftProto, HasProtoEntry
  <2>7. (\A t \in Conns : asked[t] = 0) /\ ~stale => asked'[s] # 0 \/ ~stale'
    BY <2>2, <2>h, <1>s DEF FirstInv
  <2>8. MoveInv'
    BY <1>r, <2>1, <2>2, <2>6, <2>7, ApartMove
  <2> QED
    BY <2>3, <2>5, <2>8 DEF RosterPart
<1>2. CASE chan[s] \in poison \/ sw[s].idx \notin DOMAIN proto[chan[s]]
  <2>1. Apart(s) /\ UNCHANGED <<clients, proto, stale>>
    BY <1>2, <1>s DEF SwitchRemoveProto, Panic, FinishPanic, Apart
  <2>2. /\ auth'[s] = auth[s] /\ finpc'[s] = finpc[s] /\ swpc'[s] = swpc[s]
        /\ user'[s] = user[s] /\ chan'[s] = chan[s] /\ asked'[s] = asked[s]
        /\ sw'[s] = sw[s] /\ fin'[s].ch = fin[s].ch
    BY <1>2, <1>s DEF SwitchRemoveProto, Panic, FinishPanic
  <2>3. ClientsSame(s) /\ ProtoSame(s)
    BY <2>2 DEF ClientsSame, ProtoSame, EnteredClients, LeftClients, BetweenClients,
       ClientsAt,
       EnteredProto, LeftProto, BetweenProto, ProtoAt
  <2>4. LoginInv(s)' /\ FirstInv(s)' /\ OwnInv(s)' /\ (asked'[s] = 0 => asked[s] = 0)
    BY <2>1, <2>2, <1>s DEF LoginInv, FirstInv, OwnInv, BetweenClients, LeftClients,
       BetweenProto, LeftProto
  <2> QED
    BY <2>1, <2>3, <2>4, CalmKeeps DEF Calm
<1> QED
  BY <1>1, <1>2 DEF SwitchRemoveProto

LEMMA SwitchPushClientsKeeps ==
  ASSUME SessionPart, DataPart, RosterPart, NEW s \in Conns, SwitchPushClients(s)
  PROVE  RosterPart'
<1> USE DEF sessVars, accVars, rosterVars, swVars, finVars, history, Typed, Local
<1>r. ClientsLedger /\ ProtoLedger /\ MoveInv
  BY DEF RosterPart
<1>s. Typed /\ Local(s)
  BY <1>r, Facts
<1>1. RosterPart'
  <2>1. Apart(s) /\ UNCHANGED proto /\ (stale => stale')
    BY <1>s DEF SwitchPushClients, Apart
  <2>2. /\ asked'[s] = asked[s] /\ user'[s] = user[s] /\ chan'[s] = chan[s]
        /\ swpc[s] = "pushc" /\ swpc'[s] = "pushp" /\ sw'[s] = sw[s] /\ auth[s] = "done"
        /\ auth'[s] = auth[s] /\ finpc'[s] = finpc[s] /\ fin'[s] = fin[s] /\ stale' = stale
        /\ clients' = [clients EXCEPT ![sw[s].to] = Append(@, user[s])]
    BY <1>s DEF SwitchPushClients, IsFirst
  <2>3. ClientsLedger'
    <3>1. /\ (EnteredClients(s) /\ ~LeftClients(s))' = (EnteredClients(s) /\ ~LeftClients(s))
          /\ BetweenClients(s) /\ ~BetweenClients(s)'
          /\ ~stale => user[s] = user[s] /\ EnteredClients(s) /\ ~LeftClients(s) /\ ClientsAt(s)' = sw[s].to
          /\ sw[s].to \in Channels /\ user[s] \in Users
      BY <2>1, <2>2, <1>s DEF EnteredClients, LeftClients, BetweenClients, ClientsAt,
         HasClientsEntry, LoginInv, OwnInv
    <3> QED
      BY <1>r, <1>s, <2>1, <2>2, <3>1, ClientsPut
  <2>4. ProtoSame(s)
    BY <2>2, <1>s DEF ProtoSame, EnteredProto, LeftProto, BetweenProto, ProtoAt
  <2>5. ProtoLedger'
    BY <1>r, <2>1, <2>4, ProtoCalm
  <2>6. LoginInv(s)' /\ FirstInv(s)' /\ OwnInv(s)'
    BY <2>1, <2>2, <1>s DEF LoginInv, FirstInv, OwnInv, BetweenClients, LeftClients,
       BetweenProto, LeftProto
  <2>7. (\A t \in Conns : asked[t] = 0) /\ ~stale => asked'[s] # 0 \/ ~stale'
    BY <2>1, <2>2
  <2>8. MoveInv'
    BY <1>r, <2>1, <2>2, <2>6, <2>7, ApartMove
  <2> QED
    BY <2>3, <2>5, <2>8 DEF RosterPart
<1> QED
  BY <1>1

LEMMA SwitchPushProtoKeeps ==
  ASSUME SessionPart, DataPart, RosterPart, NEW s \in Conns, SwitchPushProto(s)
  PROVE  RosterPart'
<1> USE DEF sessVars, accVars, rosterVars, swVars, finVars, history, Typed, Local
<1>r. ClientsLedger /\ ProtoLedger /\ MoveInv
  BY DEF RosterPart
<1>s. Typed /\ Local(s)
  BY <1>r, Facts
<1>1. CASE sw[s].to \notin poison
  <2>1. Apart(s) /\ UNCHANGED clients /\ (stale => stale')
    BY <1>1, <1>s DEF SwitchPushProto, Apart
  <2>2. /\ asked'[s] = asked[s] /\ user'[s] = user[s] /\ chan'[s] = chan[s]
        /\ swpc[s] = "pushp" /\ swpc'[s] = "store" /\ sw'[s].to = sw[s].to /\ auth[s] = "done"
        /\ auth'[s] = auth[s] /\ finpc'[s] = finpc[s] /\ fin'[s] = fin[s] /\ stale' = stale
        /\ sw[s].prof \in Users
        /\ proto' = [proto EXCEPT ![sw[s].to] = Append(@, sw[s].prof)]
    BY <1>1, <1>s DEF SwitchPushProto, DataPart, ProfInv
  <2>3. ProtoLedger'
    <3>1. /\ (EnteredProto(s) /\ ~LeftProto(s))' = (EnteredProto(s) /\ ~LeftProto(s))
          /\ BetweenProto(s) /\ ~BetweenProto(s)'
          /\ ~stale => sw[s].prof = user[s] /\ EnteredProto(s) /\ ~LeftProto(s) /\ ProtoAt(s)' = sw[s].to
          /\ sw[s].to \in Channels /\ sw[s].prof \in Users
      BY <2>1, <2>2, <1>s DEF EnteredProto, LeftProto, BetweenProto, ProtoAt,
         HasProtoEntry, LoginInv, OwnInv
    <3> QED
      BY <1>r, <1>s, <2>1, <2>2, <3>1, ProtoPut
  <2>4. ClientsSame(s)
    BY <2>2, <1>s DEF ClientsSame, EnteredClients, LeftClients, BetweenClients, ClientsAt
  <2>5. ClientsLedger'
    BY <1>r, <2>1, <2>4, ClientsCalm
  <2>6. LoginInv(s)' /\ FirstInv(s)' /\ OwnInv(s)'
    BY <2>1, <2>2, <1>s DEF LoginInv, FirstInv, OwnInv, BetweenClients, LeftClients,
       BetweenProto, LeftProto
  <2>7. (\A t \in Conns : asked[t] = 0) /\ ~stale => asked'[s] # 0 \/ ~stale'
    BY <2>1, <2>2
  <2>8. MoveInv'
    BY <1>r, <2>1, <2>2, <2>6, <2>7, ApartMove
  <2> QED
    BY <2>3, <2>5, <2>8 DEF RosterPart
<1>2. CASE sw[s].to \in poison
  <2>1. Apart(s) /\ UNCHANGED <<clients, proto, stale>>
    BY <1>2, <1>s DEF SwitchPushProto, Panic, FinishPanic, Apart
  <2>2. /\ auth'[s] = auth[s] /\ finpc'[s] = finpc[s] /\ swpc'[s] = swpc[s]
        /\ user'[s] = user[s] /\ chan'[s] = chan[s] /\ asked'[s] = asked[s]
        /\ sw'[s] = sw[s] /\ fin'[s].ch = fin[s].ch
    BY <1>2, <1>s DEF SwitchPushProto, Panic, FinishPanic
  <2>3. ClientsSame(s) /\ ProtoSame(s)
    BY <2>2 DEF ClientsSame, ProtoSame, EnteredClients, LeftClients, BetweenClients,
       ClientsAt,
       EnteredProto, LeftProto, BetweenProto, ProtoAt
  <2>4. LoginInv(s)' /\ FirstInv(s)' /\ OwnInv(s)' /\ (asked'[s] = 0 => asked[s] = 0)
    BY <2>1, <2>2, <1>s DEF LoginInv, FirstInv, OwnInv, BetweenClients, LeftClients,
       BetweenProto, LeftProto
  <2> QED
    BY <2>1, <2>3, <2>4, CalmKeeps DEF Calm
<1> QED
  BY <1>1, <1>2 DEF SwitchPushProto

LEMMA FinishClientsKeeps ==
  ASSUME SessionPart, DataPart, RosterPart, NEW s \in Conns, FinishClients(s)
  PROVE  RosterPart'
<1> USE DEF sessVars, accVars, rosterVars, swVars, finVars, history, Typed, Local
<1>r. ClientsLedger /\ ProtoLedger /\ MoveInv
  BY DEF RosterPart
<1>s. Typed /\ Local(s)
  BY <1>r, Facts
<1>1. ASSUME NEW i \in DOMAIN clients[fin[s].ch], IsFirst(clients[fin[s].ch], user[s], i),
             clients' = [clients EXCEPT ![fin[s].ch] = RemoveAt(@, i)],
             finpc' = [finpc EXCEPT ![s] = "proto"], UNCHANGED fin,
             stale' = (stale \/ ~HasClientsEntry(s, fin[s].ch))
      PROVE  RosterPart'
  <2>1. Apart(s) /\ UNCHANGED proto /\ (stale => stale')
    BY <1>1, <1>s DEF FinishClients, Apart
  <2>2. /\ asked'[s] = asked[s] /\ user'[s] = user[s] /\ chan'[s] = chan[s]
        /\ finpc[s] = "clients" /\ finpc'[s] \in {"proto"} /\ fin'[s].ch = fin[s].ch
        /\ auth[s] = "done" /\ auth'[s] = auth[s] /\ swpc'[s] = swpc[s] /\ sw'[s] = sw[s]
        /\ clients' = [clients EXCEPT ![fin[s].ch] = RemoveAt(@, i)] /\ clients[fin[s].ch][i] = user[s]
    BY <1>1, <1>s DEF FinishClients, IsFirst
  <2>h. ~stale' <=> ~stale /\ HasClientsEntry(s, fin[s].ch)
    BY <1>1, <1>s DEF FinishClients, IsFirst
  <2>3. ClientsLedger'
    <3>1. /\ \/ /\ (EnteredClients(s) /\ ~LeftClients(s))' = (EnteredClients(s) /\ ~LeftClients(s))
                /\ ~BetweenClients(s) /\ BetweenClients(s)'
             \/ /\ EnteredClients(s) /\ ~LeftClients(s) /\ ~(EnteredClients(s) /\ ~LeftClients(s))'
                /\ BetweenClients(s)' = BetweenClients(s)
          /\ fin[s].ch \in Channels
      BY <2>1, <2>2, <2>h, <1>s DEF EnteredClients, LeftClients, BetweenClients, ClientsAt,
         HasClientsEntry, LoginInv, OwnInv
    <3> QED
      BY <1>r, <1>s, <2>1, <2>2, <2>h, <3>1, ClientsTake
  <2>4. ProtoSame(s)
    BY <2>2, <1>s DEF ProtoSame, EnteredProto, LeftProto, BetweenProto, ProtoAt
  <2>5. ProtoLedger'
    BY <1>r, <2>1, <2>4, ProtoCalm
  <2>6. LoginInv(s)' /\ FirstInv(s)' /\ OwnInv(s)'
    BY <2>1, <2>2, <2>h, <1>s DEF LoginInv, FirstInv, OwnInv, BetweenClients, LeftClients,
       BetweenProto, LeftProto, HasClientsEntry
  <2>7. (\A t \in Conns : asked[t] = 0) /\ ~stale => asked'[s] # 0 \/ ~stale'
    BY <2>2, <2>h, <1>s DEF FirstInv, HasClientsEntry, EnteredClients, LeftClients,
       BetweenClients, ClientsAt
  <2>8. MoveInv'
    BY <1>r, <2>1, <2>2, <2>6, <2>7, ApartMove
  <2> QED
    BY <2>3, <2>5, <2>8 DEF RosterPart
<1>2. ASSUME ~Listed(clients[fin[s].ch], user[s]), FinishPanic(s),
             UNCHANGED <<clients, finpc, stale>>
      PROVE  RosterPart'
  <2>1. Apart(s) /\ UNCHANGED <<clients, proto, stale>>
    BY <1>2, <1>s DEF FinishClients, Panic, FinishPanic, Apart
  <2>2. /\ auth'[s] = auth[s] /\ finpc'[s] = finpc[s] /\ swpc'[s] = swpc[s]
        /\ user'[s] = user[s] /\ chan'[s] = chan[s] /\ asked'[s] = asked[s]
        /\ sw'[s] = sw[s] /\ fin'[s].ch = fin[s].ch
    BY <1>2, <1>s DEF FinishClients, Panic, FinishPanic
  <2>3. ClientsSame(s) /\ ProtoSame(s)
    BY <2>2 DEF ClientsSame, ProtoSame, EnteredClients, LeftClients, BetweenClients,
       ClientsAt,
       EnteredProto, LeftProto, BetweenProto, ProtoAt
  <2>4. LoginInv(s)' /\ FirstInv(s)' /\ OwnInv(s)' /\ (asked'[s] = 0 => asked[s] = 0)
    BY <2>1, <2>2, <1>s DEF LoginInv, FirstInv, OwnInv, BetweenClients, LeftClients,
       BetweenProto, LeftProto
  <2> QED
    BY <2>1, <2>3, <2>4, CalmKeeps DEF Calm
<1> QED
  BY <1>1, <1>2 DEF FinishClients

LEMMA FinishProtoKeeps ==
  ASSUME SessionPart, DataPart, RosterPart, NEW s \in Conns, FinishProto(s)
  PROVE  RosterPart'
<1> USE DEF sessVars, accVars, rosterVars, swVars, finVars, history, Typed, Local
<1>r. ClientsLedger /\ ProtoLedger /\ MoveInv
  BY DEF RosterPart
<1>s. Typed /\ Local(s)
  BY <1>r, Facts
<1>1. ASSUME NEW i \in DOMAIN proto[fin[s].ch], IsFirst(proto[fin[s].ch], user[s], i),
             proto' = [proto EXCEPT ![fin[s].ch] = RemoveAt(@, i)],
             finpc' = [finpc EXCEPT ![s] = IF fin[s].send THEN "bcast" ELSE "shut"],
             fin' = [fin EXCEPT ![s].todo = IF fin[s].send THEN Users ELSE {},
                                ![s].send = FALSE],
             stale' = (stale \/ ~HasProtoEntry(s, fin[s].ch))
      PROVE  RosterPart'
  <2>1. Apart(s) /\ UNCHANGED clients /\ (stale => stale')
    BY <1>1, <1>s DEF FinishProto, Apart
  <2>2. /\ asked'[s] = asked[s] /\ user'[s] = user[s] /\ chan'[s] = chan[s]
        /\ finpc[s] = "proto" /\ finpc'[s] \in {"bcast", "shut"} /\ fin'[s].ch = fin[s].ch
        /\ auth[s] = "done" /\ auth'[s] = auth[s] /\ swpc'[s] = swpc[s] /\ sw'[s] = sw[s]
        /\ proto' = [proto EXCEPT ![fin[s].ch] = RemoveAt(@, i)] /\ proto[fin[s].ch][i] = user[s]
    BY <1>1, <1>s DEF FinishProto, IsFirst
  <2>h. ~stale' <=> ~stale /\ HasProtoEntry(s, fin[s].ch)
    BY <1>1, <1>s DEF FinishProto, IsFirst
  <2>3. ProtoLedger'
    <3>1. /\ \/ /\ (EnteredProto(s) /\ ~LeftProto(s))' = (EnteredProto(s) /\ ~LeftProto(s))
                /\ ~BetweenProto(s) /\ BetweenProto(s)'
             \/ /\ EnteredProto(s) /\ ~LeftProto(s) /\ ~(EnteredProto(s) /\ ~LeftProto(s))'
                /\ BetweenProto(s)' = BetweenProto(s)
          /\ fin[s].ch \in Channels
      BY <2>1, <2>2, <2>h, <1>s DEF EnteredProto, LeftProto, BetweenProto, ProtoAt,
         HasProtoEntry, LoginInv, OwnInv
    <3> QED
      BY <1>r, <1>s, <2>1, <2>2, <2>h, <3>1, ProtoTake
  <2>4. ClientsSame(s)
    BY <2>2, <1>s DEF ClientsSame, EnteredClients, LeftClients, BetweenClients, ClientsAt
  <2>5. ClientsLedger'
    BY <1>r, <2>1, <2>4, ClientsCalm
  <2>6. LoginInv(s)' /\ FirstInv(s)' /\ OwnInv(s)'
    BY <2>1, <2>2, <2>h, <1>s DEF LoginInv, FirstInv, OwnInv, BetweenClients, LeftClients,
       BetweenProto, LeftProto, HasProtoEntry
  <2>7. (\A t \in Conns : asked[t] = 0) /\ ~stale => asked'[s] # 0 \/ ~stale'
    BY <2>2, <2>h, <1>s DEF FirstInv, HasProtoEntry, EnteredProto, LeftProto, BetweenProto,
       ProtoAt
  <2>8. MoveInv'
    BY <1>r, <2>1, <2>2, <2>6, <2>7, ApartMove
  <2> QED
    BY <2>3, <2>5, <2>8 DEF RosterPart
<1>2. ASSUME FinishPanic(s), UNCHANGED <<proto, finpc, stale>>
      PROVE  RosterPart'
  <2>1. Apart(s) /\ UNCHANGED <<clients, proto, stale>>
    BY <1>2, <1>s DEF FinishProto, Panic, FinishPanic, Apart
  <2>2. /\ auth'[s] = auth[s] /\ finpc'[s] = finpc[s] /\ swpc'[s] = swpc[s]
        /\ user'[s] = user[s] /\ chan'[s] = chan[s] /\ asked'[s] = asked[s]
        /\ sw'[s] = sw[s] /\ fin'[s].ch = fin[s].ch
    BY <1>2, <1>s DEF FinishProto, Panic, FinishPanic
  <2>3. ClientsSame(s) /\ ProtoSame(s)
    BY <2>2 DEF ClientsSame, ProtoSame, EnteredClients, LeftClients, BetweenClients,
       ClientsAt,
       EnteredProto, LeftProto, BetweenProto, ProtoAt
  <2>4. LoginInv(s)' /\ FirstInv(s)' /\ OwnInv(s)' /\ (asked'[s] = 0 => asked[s] = 0)
    BY <2>1, <2>2, <1>s DEF LoginInv, FirstInv, OwnInv, BetweenClients, LeftClients,
       BetweenProto, LeftProto
  <2> QED
    BY <2>1, <2>3, <2>4, CalmKeeps DEF Calm
<1> QED
  BY <1>1, <1>2 DEF FinishProto

LEMMA StepRoster == IInv /\ RosterPart /\ [Next]_vars => RosterPart'
<1> SUFFICES ASSUME IInv, RosterPart, [Next]_vars PROVE RosterPart'
  OBVIOUS
<1>1. SessionPart /\ DataPart /\ MoveInv
  BY DEF IInv, RosterPart
<1>2. ASSUME NEW s \in Conns, Acceptor(s), ~AuthPanic(s) PROVE RosterPart'
  BY <1>1, <1>2, AcceptorCalm, CalmKeeps, AuthPushClientsKeeps, AuthPushProtoKeeps
<1>3. ASSUME NEW s \in Conns, Switching(s) PROVE RosterPart'
  BY <1>1, <1>3, HandlerCalm, CalmKeeps, SwitchRemoveClientKeeps, SwitchRemoveProtoKeeps,
     SwitchPushClientsKeeps, SwitchPushProtoKeeps DEF Switching
<1>4. ASSUME NEW s \in Conns, NEW c \in Channels, SwitchRequest(s, c) PROVE RosterPart'
  BY <1>1, <1>4, HandlerCalm, CalmKeeps
<1>5. ASSUME NEW s \in Conns, Finishing(s) PROVE RosterPart'
  BY <1>1, <1>5, ClosingCalm, CalmKeeps, FinishClientsKeeps, FinishProtoKeeps DEF Finishing
<1>6. ASSUME NEW s \in Conns,
             \/ LinkDown(s) \/ DisconnectPacket(s) \/ PanicPacket(s) \/ VoicePanic(s)
             \/ \E t \in Readers : ReaderError(s, t)
      PROVE  RosterPart'
  BY <1>1, <1>6, ClosingCalm, CalmKeeps
<1>7. ASSUME UNCHANGED <<auth, finpc, swpc, sw, user, chan, asked, fin, clients, proto, stale>>
      PROVE  RosterPart'
  <2>1. UNCHANGED <<ClientsIn, ClientsOut, ClientsOwn, ProtoIn, ProtoOut, ProtoOwn>>
    BY <1>7 DEF ClientsIn, ClientsOut, ClientsOwn, ProtoIn, ProtoOut, ProtoOwn,
       HasClientsEntry, HasProtoEntry, EnteredClients, LeftClients, BetweenClients, ClientsAt,
       EnteredProto, LeftProto, BetweenProto, ProtoAt
  <2>2. ClientsLedger /\ ProtoLedger /\ MoveInv
    BY DEF RosterPart
  <2>3. ClientsLedger'
    BY <1>7, <2>1, <2>2 DEF ClientsLedger, Sums, Exact, Entries, Places, Occurrences
  <2>4. ProtoLedger'
    BY <1>7, <2>1, <2>2 DEF ProtoLedger, Sums, Exact, Entries, Places, Occurrences
  <2>5. MoveInv'
    BY <1>7, <2>2 DEF MoveInv, NoSwitchInv, LoginInv, FirstInv, OwnInv, BetweenClients,
       LeftClients, BetweenProto, LeftProto
  <2> QED
    BY <2>3, <2>4, <2>5 DEF RosterPart
<1>8. ASSUME Shutdown \/ UNCHANGED vars \/ \E s \in Conns : AuthPanic(s) PROVE RosterPart'
  BY <1>7, <1>8 DEF Shutdown, AuthPanic, vars, sessVars, accVars, swVars, finVars, history,
     rosterVars
<1>9. ASSUME NEW c \in Channels, CreateChannel(c) \/ DeleteChannel(c) PROVE RosterPart'
  BY <1>7, <1>9 DEF CreateChannel, DeleteChannel, sessVars, accVars, swVars, finVars,
     history,
     rosterVars
<1> QED
  BY <1>2, <1>3, <1>4, <1>5, <1>6, <1>8, <1>9, StepCases

LEMMA RosterInductive == Spec => []RosterPart
<1>1. Init => RosterPart
  BY InitRoster DEF RosterPart
<1> QED
  BY <1>1, Inductive, StepRoster, PTL DEF Spec

\* However the steps of switches, logins and finish_ups interleave, and wherever one
\* of them panics, both lists hold over all channels one entry for each session
\* entered, not left and not in transit.
THEOREM EntriesAreConserved == Spec => []EntriesConserved
<1>1. RosterPart => EntriesConserved
  BY LedgersConserve DEF RosterPart
<1> QED
  BY <1>1, RosterInductive, PTL

\* Until a removal has hit the entry of another session - and always while nobody has
\* asked for a switch - each channel lists exactly the users whose sessions stand in it.
THEOREM RosterIsExact == Spec => []RosterExact
<1>1. RosterPart => RosterExact
  BY LedgersExact DEF RosterPart, MoveInv
<1> QED
  BY <1>1, RosterInductive, PTL

-------------------------------------------------------------------------------
(* The clients restrict and observe the server; they add no step to it.         *)

LEMMA InitImplements == RSInit => Init
BY DEF RSInit

LEMMA StepImplements == [RSNext]_rsVars => [Next]_vars
<1> SUFFICES ASSUME [RSNext]_rsVars PROVE [Next]_vars
  OBVIOUS
<1>1. ASSUME Alive, NEW s \in Conns, Silent(s) PROVE Next
  <2>1. Session(s)
    BY <1>1 DEF Silent, Session, Acceptor, Switching, Finishing
  <2> QED
    BY <1>1, <2>1 DEF Next
<1>2. ASSUME Alive, NEW s \in Conns, Speaking(s), ~SendRemove(s) PROVE Next
  <2>1. \/ AuthReject(s) \/ AuthBroadcast(s) \/ AuthSnapshot(s) \/ AuthReply(s)
        \/ AuthKeepAlive(s) \/ (\E c \in Channels : SwitchRequest(s, c))
        \/ SwitchBroadcast(s) \/ FinishOnline(s) \/ FinishBroadcast(s)
    BY <1>2 DEF Speaking, LoginRefused, LoginBroadcast, LoginSnapshot, LoginReply,
       LoginKeepAlive, StartSwitch, SendAdd, LeaveOnline, FarewellBroadcast
  <2>2. Session(s)
    BY <2>1 DEF Session, Acceptor, Switching, Finishing
  <2> QED
    BY <1>2, <2>2 DEF Next
<1>3. ASSUME NEW s \in Conns, SendRemove(s) PROVE UNCHANGED vars
  BY <1>3 DEF SendRemove
<1>4. ASSUME Alive, Operator PROVE Next
  BY <1>4 DEF Operator, Next
<1>5. CASE UNCHANGED rsVars
  BY <1>5 DEF rsVars
<1> QED
  BY <1>1, <1>2, <1>3, <1>4, <1>5 DEF RSNext, rsVars

\* Whatever the clients show, panics included, every behaviour of the composition
\* is one of the server's session core (main.rs:347-543, network.rs:121-403).
THEOREM ServerUnaffected == RSSpec => Spec
BY InitImplements, StepImplements, PTL DEF RSSpec, Spec

COROLLARY ComposedIInv == RSSpec => []IInv
BY ServerUnaffected, Inductive, PTL

-------------------------------------------------------------------------------
(* The handlers of a client keep the type of its view, and its tables agree.    *)

TablesAgree(lists) ==
  \A u \in Users : lists.known[u] \in lists.listed \cup {NoChannel}

Good(v) == v \in View /\ (v.phase # "panicked" => TablesAgree(v.lists))

LEMMA NewViewGood == Good(NewView) /\ EmptyLists \in Lists /\ TablesAgree(EmptyLists)
BY DEF Good, NewView, View, EmptyLists, Lists, TablesAgree

LEMMA WithChannelKeeps ==
  ASSUME NEW lists \in Lists, TablesAgree(lists), NEW c \in Channels,
         NEW users \in SUBSET Users
  PROVE  WithChannel(lists, c, users) \in Lists /\ TablesAgree(WithChannel(lists, c, users))
BY DEF WithChannel, Lists, TablesAgree

LEMMA PanickedGood == ASSUME NEW v \in View PROVE Good(Panicked(v))
BY DEF Good, View, Panicked

LEMMA HandledGood ==
  ASSUME NEW v, Good(v), NEW ok \in BOOLEAN, NEW lists,
         v.phase # "panicked" /\ ok => lists \in Lists /\ TablesAgree(lists)
  PROVE  Good(Handled(v, ok, lists))
<1>1. CASE v.phase # "panicked" /\ ok
  BY <1>1 DEF Handled, Good, View
<1>2. CASE ~(v.phase # "panicked" /\ ok)
  BY <1>2, PanickedGood DEF Handled, Good
<1> QED
  BY <1>1, <1>2

LEMMA AuthGood ==
  ASSUME NEW v, Good(v), NEW lists \in Lists, TablesAgree(lists), NEW reason
  PROVE  Good(HandleAuthSuccess(v, lists)) /\ Good(HandleAuthFailure(v, reason))
<1>1. Good(HandleAuthSuccess(v, lists))
  <2>1. CASE v.phase = "waiting"
    BY <2>1 DEF HandleAuthSuccess, Good, View
  <2>2. CASE v.phase # "waiting"
    BY <2>2, PanickedGood DEF HandleAuthSuccess, Good
  <2> QED
    BY <2>1, <2>2
<1>2. Good(HandleAuthFailure(v, reason))
  BY DEF HandleAuthFailure, Good, View
<1> QED
  BY <1>1, <1>2

LEMMA ConnectedGood ==
  ASSUME NEW v, Good(v), NEW u \in Users
  PROVE  Good(HandleClientConnected(v, u))
<1> DEFINE ok == v.phase = "connected" /\ ConfigDefault \in v.lists.listed
           new == [v.lists EXCEPT !.members[ConfigDefault] = @ \cup {u},
                                  !.known[u] = ConfigDefault]
<1>1. ASSUME v.phase # "panicked", ok PROVE new \in Lists /\ TablesAgree(new)
  BY <1>1, ClientConstantsOK DEF Good, View, Lists, TablesAgree
<1>2. ok \in BOOLEAN
  OBVIOUS
<1> HIDE DEF new, ok
<1>3. Good(Handled(v, ok, new))
  BY <1>1, <1>2, HandledGood
<1> QED
  BY <1>3 DEF HandleClientConnected, new, ok

LEMMA DisconnectedGood ==
  ASSUME NEW v, Good(v), NEW u \in Users
  PROVE  Good(HandleClientDisconnected(v, u))
<1> DEFINE c == v.lists.known[u]
           lists == [v.lists EXCEPT !.known[u] = NoChannel]
           new == [lists EXCEPT !.members[c] = @ \cup {u}]
<1>1. CASE v.phase = "panicked"
  BY <1>1 DEF HandleClientDisconnected
<1>2. CASE v.phase # "panicked"
  <2>1. lists \in Lists
    BY DEF Good, View, Lists
  <2>2. CASE c \in lists.listed
    <3>1. new \in Lists
      BY <2>1 DEF Lists
    <3>2. TablesAgree(new)
      BY <1>2, <2>2 DEF Good, View, Lists, TablesAgree
    <3>3. Good([v EXCEPT !.lists = new])
      BY <3>1, <3>2 DEF Good, View
    <3> QED
      BY <1>2, <2>2, <3>3 DEF HandleClientDisconnected
  <2>3. CASE c \notin lists.listed
    <3>1. [v EXCEPT !.lists = lists] \in View
      BY <2>1 DEF Good, View
    <3> QED
      BY <1>2, <2>3, <3>1, PanickedGood DEF HandleClientDisconnected
  <2> QED
    BY <2>2, <2>3
<1> QED
  BY <1>1, <1>2

LEMMA RemoveGood ==
  ASSUME NEW v, Good(v), NEW c \in Channels, NEW u \in Users
  PROVE  Good(HandleRemove(v, c, u))
<1> DEFINE ok == c \in v.lists.listed /\ u \in v.lists.members[c]
           new == [v.lists EXCEPT !.members[c] = @ \ {u}]
<1>1. ASSUME v.phase # "panicked", ok PROVE new \in Lists /\ TablesAgree(new)
  BY <1>1 DEF Good, View, Lists, TablesAgree
<1>2. ok \in BOOLEAN
  OBVIOUS
<1> HIDE DEF new, ok
<1>3. Good(Handled(v, ok, new))
  BY <1>1, <1>2, HandledGood
<1> QED
  BY <1>3 DEF HandleRemove, new, ok

LEMMA AddGood ==
  ASSUME NEW v, Good(v), NEW c \in Channels, NEW u \in Users
  PROVE  Good(HandleAdd(v, c, u))
<1> DEFINE lists == [v.lists EXCEPT !.known[u] = c]
           new == [lists EXCEPT !.members[c] = @ \cup {u}]
<1>1. CASE v.phase = "panicked" \/ v.lists.known[u] = NoChannel
  BY <1>1, PanickedGood DEF HandleAdd, Good
<1>2. CASE ~(v.phase = "panicked" \/ v.lists.known[u] = NoChannel)
  <2>1. lists \in Lists
    BY DEF Good, View, Lists
  <2>2. CASE c \in lists.listed
    <3>1. new \in Lists
      BY <2>1 DEF Lists
    <3>2. TablesAgree(new)
      BY <1>2, <2>2 DEF Good, View, Lists, TablesAgree
    <3>3. Good([v EXCEPT !.lists = new])
      BY <3>1, <3>2 DEF Good, View
    <3> QED
      BY <1>2, <2>2, <3>3 DEF HandleAdd
  <2>3. CASE c \notin lists.listed
    <3>1. [v EXCEPT !.lists = lists] \in View
      BY <2>1 DEF Good, View
    <3> QED
      BY <1>2, <2>3, <3>1, PanickedGood DEF HandleAdd
  <2> QED
    BY <2>2, <2>3
<1> QED
  BY <1>1, <1>2

-------------------------------------------------------------------------------
(* The invariant of the composition.                                            *)

CInv ==
  /\ ClientTypeOK
  /\ \A s \in Conns : Good(view[s])
  /\ TablesAgree(response)

\* What is written down of the last packet about each user is a session, or none.
LEMMA TellTyped ==
  ASSUME told \in [Conns -> [Users -> Conns \cup {NoConn}]], NEW s \in Conns, NEW ts, Tell(ts, s)
  PROVE  told' \in [Conns -> [Users -> Conns \cup {NoConn}]]
<1>1. ASSUME NEW t \in Conns
      PROVE  /\ told[t] \in [Users -> Conns \cup {NoConn}]
             /\ [told[t] EXCEPT ![user[s]] = s] \in [Users -> Conns \cup {NoConn}]
  OBVIOUS
<1> QED
  BY <1>1 DEF Tell

LEMMA InitCInv == RSInit => CInv
<1> SUFFICES ASSUME RSInit PROVE CInv
  OBVIOUS
<1>1. view = [s \in Conns |-> NewView] /\ response = EmptyLists
  BY DEF RSInit
<1>2. NewView \in View
  BY NewViewGood DEF Good
<1>3. left \in [Conns -> Channels] /\ owed \in [Conns -> Users \cup {NoUser}]
  BY ConstantsOK DEF RSInit
<1>4. told \in [Conns -> [Users -> Conns \cup {NoConn}]]
  BY DEF RSInit
<1> QED
  BY <1>1, <1>2, <1>3, <1>4, NewViewGood DEF CInv, ClientTypeOK

LEMMA SilentCInv == ASSUME CInv, UNCHANGED clientVars PROVE CInv'
BY DEF CInv, clientVars, ClientTypeOK, Good, TablesAgree

LEMMA LoginCInv ==
  ASSUME IInv, CInv, NEW s \in Conns,
         LoginRefused(s) \/ LoginBroadcast(s) \/ LoginSnapshot(s) \/ LoginReply(s)
  PROVE  CInv'
<1>a. /\ ClientTypeOK /\ TablesAgree(response)
      /\ \A t \in Conns : Good(view[t])
  BY DEF CInv
<1>1. CASE LoginRefused(s)
  <2>1. PICK reason \in Refusals :
          view' = [view EXCEPT ![s] = IF link[s] = "up" THEN HandleAuthFailure(@, reason)
                                      ELSE @]
    BY <1>1 DEF LoginRefused, Refusals
  <2>2. Good(HandleAuthFailure(view[s], reason))
    BY <1>a, AuthGood DEF ClientTypeOK
  <2>3. Good(HandleAuthFailure(view[s], reason)) /\ HandleAuthFailure(view[s], reason) \in View
    BY <2>2 DEF Good
  <2>4. view' \in [Conns -> View] /\ \A t \in Conns : Good(view'[t])
    BY <2>1, <2>3, <1>a DEF ClientTypeOK
  <2>5. UNCHANGED <<response, left, owed, told>>
    BY <1>1 DEF LoginRefused
  <2> QED
    BY <2>4, <2>5, <1>a DEF CInv, ClientTypeOK, TablesAgree
<1>2. CASE LoginBroadcast(s)
  <2>1. PICK ts \in SUBSET Conns :
          view' = [t \in Conns |-> IF t \in ts THEN HandleClientConnected(view[t], user[s])
                                  ELSE view[t]]
    <3> DEFINE sent == IF acc' = s THEN accTodo \ accTodo' ELSE {}
               ts == Conns \cap Reached(sent)
    <3>1. view' = [t \in Conns |-> IF t \in ts THEN HandleClientConnected(view[t], user[s])
                                  ELSE view[t]]
      BY <1>2 DEF LoginBroadcast
    <3> HIDE DEF ts
    <3>2. ts \in SUBSET Conns
      BY DEF ts
    <3> QED
      BY <3>1, <3>2
  <2>2. user[s] \in Users
    BY <1>2 DEF LoginBroadcast, AuthBroadcast, IInv, SessionPart, SessInv, TypeSession
  <2>3. \A t \in Conns : /\ Good(HandleClientConnected(view[t], user[s]))
                         /\ HandleClientConnected(view[t], user[s]) \in View
    BY <1>a, <2>2, ConnectedGood DEF Good
  <2>4. view' \in [Conns -> View] /\ \A t \in Conns : Good(view'[t])
    BY <2>1, <2>3, <1>a DEF ClientTypeOK
  <2>5. UNCHANGED <<response, left, owed>>
    BY <1>2 DEF LoginBroadcast
  <2>6. told' \in [Conns -> [Users -> Conns \cup {NoConn}]]
    BY <1>2, <1>a, TellTyped DEF LoginBroadcast, ClientTypeOK
  <2> QED
    BY <2>4, <2>5, <2>6, <1>a DEF CInv, ClientTypeOK, TablesAgree
<1>3. CASE LoginSnapshot(s)
  <2>1. UNCHANGED <<view, left, owed, told>>
    BY <1>3 DEF LoginSnapshot
  <2>2. response' \in Lists /\ TablesAgree(response)'
    <3>1. CASE UNCHANGED response
      BY <3>1, <1>a DEF ClientTypeOK, TablesAgree
    <3>2. ASSUME NEW c \in accTodo \ accTodo',
                 response' = WithChannel(response, c, ToSet(proto[c]))
          PROVE  response' \in Lists /\ TablesAgree(response)'
      <4>1. c \in Channels
        <5>1. accTodo \ accTodo' \subseteq Channels
          BY <1>3 DEF LoginSnapshot, AuthSnapshot
        <5> QED
          BY <5>1
      <4>2. ToSet(proto[c]) \subseteq Users
        BY <4>1 DEF IInv, DataPart, TypeRoster, ToSet
      <4>3. /\ WithChannel(response, c, ToSet(proto[c])) \in Lists
            /\ TablesAgree(WithChannel(response, c, ToSet(proto[c])))
        BY <4>1, <4>2, <1>a, WithChannelKeeps DEF ClientTypeOK
      <4> QED
        BY <3>2, <4>3 DEF TablesAgree
    <3> QED
      BY <1>3, <3>1, <3>2 DEF LoginSnapshot
  <2> QED
    BY <2>1, <2>2, <1>a DEF CInv, ClientTypeOK, Good, TablesAgree
<1>4. CASE LoginReply(s)
  <2>1. /\ view' = [view EXCEPT ![s] =
                      IF link[s] = "up" THEN HandleAuthSuccess(@, response) ELSE @]
        /\ response' = EmptyLists
        /\ UNCHANGED <<left, owed>>
    BY <1>4 DEF LoginReply
  <2>2. /\ Good(HandleAuthSuccess(view[s], response))
        /\ HandleAuthSuccess(view[s], response) \in View
    BY <1>a, AuthGood DEF Good, ClientTypeOK
  <2>3. view' \in [Conns -> View] /\ \A t \in Conns : Good(view'[t])
    BY <2>1, <2>2, <1>a DEF ClientTypeOK
  <2>4. response' \in Lists /\ TablesAgree(response)'
    BY <2>1, NewViewGood DEF TablesAgree
  <2>5. told' \in [Conns -> [Users -> Conns \cup {NoConn}]]
    BY <1>4, <1>a DEF LoginReply, ClientTypeOK
  <2> QED
    BY <2>1, <2>3, <2>4, <2>5, <1>a DEF CInv, ClientTypeOK
<1> QED
  BY <1>1, <1>2, <1>3, <1>4

LEMMA SwitchCInv ==
  ASSUME IInv, CInv, NEW s \in Conns,
         (\E c \in Channels : StartSwitch(s, c)) \/ SendRemove(s) \/ SendAdd(s)
  PROVE  CInv'
<1>a. /\ ClientTypeOK /\ TablesAgree(response)
      /\ \A t \in Conns : Good(view[t])
  BY DEF CInv
<1>b. /\ \A t \in Conns : chan[t] \in Channels /\ sw[t].to \in Channels
      /\ \A t \in Conns : sw[t].todo \subseteq Users
      /\ \A t \in Conns : swpc[t] # "idle" => user[t] \in Users
  <2>1. ASSUME NEW t \in Conns
        PROVE  chan[t] \in Channels /\ sw[t].to \in Channels /\ sw[t].todo \subseteq Users
    <3>1. chan[t] \in Channels /\ sw[t] \in SwitchLocals
      BY DEF IInv, DataPart, TypeRoster, TypeLocals
    <3> QED
      BY <3>1 DEF SwitchLocals
  <2>2. ASSUME NEW t \in Conns, swpc[t] # "idle" PROVE user[t] \in Users
    <3>1. user[t] \in Users \cup {NoUser}
      BY DEF IInv, SessionPart, TypeSession
    <3>2. auth[t] = "done" /\ (user[t] = NoUser => auth[t] \in {"none", "recv", "rejected"})
      BY <2>2 DEF IInv, SessionPart, SessInv
    <3> QED
      BY <3>1, <3>2
  <2> QED
    BY <2>1, <2>2
<1>1. ASSUME NEW c \in Channels, StartSwitch(s, c) PROVE CInv'
  <2>1. left' = [left EXCEPT ![s] = chan[s]] /\ UNCHANGED <<view, response, owed, told>>
    BY <1>1 DEF StartSwitch
  <2> QED
    BY <2>1, <1>a, <1>b DEF CInv, ClientTypeOK, Good, TablesAgree
<1>2. CASE SendRemove(s)
  <2>1. PICK u \in sw[s].todo :
          /\ online[u] # NoConn
          /\ owed' = [owed EXCEPT ![s] = u]
          /\ view' = [view EXCEPT ![online[u]] = HandleRemove(@, left[s], user[s])]
    BY <1>2 DEF SendRemove
  <2>2. user[s] \in Users /\ left[s] \in Channels /\ u \in Users
    BY <1>2, <1>a, <1>b DEF SendRemove, ClientTypeOK
  <2>3. online[u] \in Conns
    BY <2>1, <2>2 DEF IInv, SessionPart, TypeSession
  <2>4. /\ Good(HandleRemove(view[online[u]], left[s], user[s]))
        /\ HandleRemove(view[online[u]], left[s], user[s]) \in View
    BY <1>a, <2>2, <2>3, RemoveGood DEF Good
  <2>5. view' \in [Conns -> View] /\ \A t \in Conns : Good(view'[t])
    BY <2>1, <2>3, <2>4, <1>a DEF ClientTypeOK
  <2>6. UNCHANGED <<response, left>>
    BY <1>2 DEF SendRemove
  <2>7. told' \in [Conns -> [Users -> Conns \cup {NoConn}]]
    BY <1>2, <1>a, TellTyped DEF SendRemove, ClientTypeOK
  <2> QED
    BY <2>1, <2>2, <2>5, <2>6, <2>7, <1>a DEF CInv, ClientTypeOK, TablesAgree
<1>3. CASE SendAdd(s)
  <2>1. PICK ts \in SUBSET Conns :
          view' = [t \in Conns |-> IF t \in ts THEN HandleAdd(view[t], sw[s].to, user[s])
                                  ELSE view[t]]
    <3> DEFINE sent == IF tasks' = tasks THEN sw[s].todo \ sw'[s].todo ELSE {}
               ts == Conns \cap Reached(sent)
    <3>1. view' = [t \in Conns |-> IF t \in ts THEN HandleAdd(view[t], sw[s].to, user[s])
                                  ELSE view[t]]
      BY <1>3 DEF SendAdd
    <3> HIDE DEF ts
    <3>2. ts \in SUBSET Conns
      BY DEF ts
    <3> QED
      BY <3>1, <3>2
  <2>2. user[s] \in Users /\ sw[s].to \in Channels
    BY <1>3, <1>b DEF SendAdd, SwitchBroadcast
  <2>3. \A t \in Conns : /\ Good(HandleAdd(view[t], sw[s].to, user[s]))
                         /\ HandleAdd(view[t], sw[s].to, user[s]) \in View
    BY <1>a, <2>2, AddGood DEF Good
  <2>4. view' \in [Conns -> View] /\ \A t \in Conns : Good(view'[t])
    BY <2>1, <2>3, <1>a DEF ClientTypeOK
  <2>5. /\ owed' = [owed EXCEPT ![s] = NoUser]
        /\ left' = [left EXCEPT ![s] = IF swpc'[s] = "idle" THEN Default ELSE @]
        /\ UNCHANGED response
    BY <1>3 DEF SendAdd
  <2>6. told' \in [Conns -> [Users -> Conns \cup {NoConn}]]
    BY <1>3, <1>a, TellTyped DEF SendAdd, ClientTypeOK
  <2> QED
    BY <2>4, <2>5, <2>6, <1>a, ConstantsOK DEF CInv, ClientTypeOK, TablesAgree
<1> QED
  BY <1>1, <1>2, <1>3

LEMMA FarewellCInv ==
  ASSUME IInv, CInv, NEW s \in Conns, FarewellBroadcast(s)
  PROVE  CInv'
<1>a. /\ ClientTypeOK /\ TablesAgree(response)
      /\ \A t \in Conns : Good(view[t])
  BY DEF CInv
<1>1. PICK ts \in SUBSET Conns :
        view' = [t \in Conns |-> IF t \in ts THEN HandleClientDisconnected(view[t], user[s])
                                ELSE view[t]]
  <2> DEFINE ts == Conns \cap Reached(fin[s].todo \ fin'[s].todo)
  <2>1. view' = [t \in Conns |-> IF t \in ts THEN HandleClientDisconnected(view[t], user[s])
                                ELSE view[t]]
    BY DEF FarewellBroadcast
  <2> HIDE DEF ts
  <2>2. ts \in SUBSET Conns
    BY DEF ts
  <2> QED
    BY <2>1, <2>2
<1>2. user[s] \in Users
  BY DEF FarewellBroadcast, FinishBroadcast, IInv, SessionPart, SessInv, TypeSession
<1>3. \A t \in Conns : /\ Good(HandleClientDisconnected(view[t], user[s]))
                       /\ HandleClientDisconnected(view[t], user[s]) \in View
  BY <1>a, <1>2, DisconnectedGood DEF Good
<1>4. view' \in [Conns -> View] /\ \A t \in Conns : Good(view'[t])
  BY <1>1, <1>3, <1>a DEF ClientTypeOK
<1>5. UNCHANGED <<response, left, owed>>
  BY DEF FarewellBroadcast
<1>6. told' \in [Conns -> [Users -> Conns \cup {NoConn}]]
  BY <1>a, TellTyped DEF FarewellBroadcast, ClientTypeOK
<1> QED
  BY <1>4, <1>5, <1>6, <1>a DEF CInv, ClientTypeOK, TablesAgree

LEMMA StepCInv == IInv /\ CInv /\ [RSNext]_rsVars => CInv'
<1> SUFFICES ASSUME IInv, CInv, [RSNext]_rsVars PROVE CInv'
  OBVIOUS
<1>1. ASSUME UNCHANGED clientVars PROVE CInv'
  BY <1>1, SilentCInv
<1>2. ASSUME NEW s \in Conns, Silent(s) PROVE CInv'
  BY <1>1, <1>2 DEF Silent
<1>3. ASSUME NEW s \in Conns, Speaking(s) PROVE CInv'
  <2>1. CASE LoginKeepAlive(s)
    BY <1>1, <2>1 DEF LoginKeepAlive
  <2>2. CASE LoginRefused(s) \/ LoginBroadcast(s) \/ LoginSnapshot(s) \/ LoginReply(s)
    BY <2>2, LoginCInv
  <2>3. CASE (\E c \in Channels : StartSwitch(s, c)) \/ SendRemove(s) \/ SendAdd(s)
    BY <2>3, SwitchCInv
  <2>4. CASE FarewellBroadcast(s)
    BY <2>4, FarewellCInv
  <2>5. CASE LeaveOnline(s)
    <3>1. UNCHANGED <<view, response, left, owed>>
      BY <2>5 DEF LeaveOnline
    <3>2. told' \in [Conns -> [Users -> Conns \cup {NoConn}]]
      BY <2>5 DEF LeaveOnline, CInv, ClientTypeOK
    <3> QED
      BY <3>1, <3>2 DEF CInv, ClientTypeOK, Good, TablesAgree
  <2> QED
    BY <1>3, <2>1, <2>2, <2>3, <2>4, <2>5 DEF Speaking
<1>4. CASE Operator
  BY <1>1, <1>4 DEF Operator
<1>5. CASE UNCHANGED rsVars
  BY <1>1, <1>5 DEF rsVars
<1> QED
  BY <1>2, <1>3, <1>4, <1>5 DEF RSNext

LEMMA ComposedCInv == RSSpec => []CInv
BY InitCInv, StepCInv, ComposedIInv, PTL DEF RSSpec

\* Each variable of the composition keeps its type: the clients' tables hold users
\* and channels only.
THEOREM ClientTypeCorrect == RSSpec => []ClientTypeOK
<1>1. CInv => ClientTypeOK
  BY DEF CInv
<1> QED
  BY <1>1, ComposedCInv, PTL

\* For any number of clients, users and channels, created and deleted at will: the
\* channel that a client knows of a user is one it lists (server.rs:384, client).
THEOREM KnownUsersAreListed == RSSpec => []KnownIsListed
<1>1. CInv => KnownIsListed
  BY DEF CInv, Good, TablesAgree, KnownIsListed
<1> QED
  BY <1>1, ComposedCInv, PTL

-------------------------------------------------------------------------------
(* What a client shows of a session.  A client takes part from the moment in    *)
(* which its AuthResponse is encoded: until that is handled, the client is going *)
(* to show what has been encoded.                                               *)

Reading(t) ==
  /\ acc = t /\ auth[t] \in {"snap", "reply"} /\ view[t].phase = "waiting"
  /\ link[t] = "up" /\ online[user[t]] = t
Follows(t) == Watching(t) \/ Reading(t)
Table(t) == IF view[t].phase = "waiting" THEN response ELSE view[t].lists

\* Of whom the last packet about each user was: of nobody, while the snapshot is read.
Latest(t) == IF view[t].phase = "waiting" THEN [u \in Users |-> NoConn] ELSE told[t]

\* The channel exists, and the encoding has passed it.
Seen(t, c) == channels[c] = "live" /\ ~(acc = t /\ auth[t] = "snap" /\ c \in accTodo)

\* The login of s has yet to be announced to t; it has been, or t's snapshot shows it.
Unmet(t, s) == acc = s /\ auth[s] = "bcast" /\ user[t] \in accTodo
Met(t, s) ==
  \/ EnteredProto(s)
  \/ acc = s /\ auth[s] \in {"insert", "pushc", "pushp"}
  \/ acc = s /\ auth[s] = "bcast" /\ user[t] \notin accTodo

\* Of the last switch of s, t has been told, or there was nothing to tell.
Told(t, s) ==
  swpc[s] \in {"idle", "refuse"} \/ (swpc[s] = "bcast" /\ user[t] \notin sw[s].todo)

Alone(s) == Others(s) = {}

\* Where t may show the user of s.
MayShow(t, s) ==
  IF Told(t, s) THEN {chan[s]}
  ELSE IF owed[s] = user[t] THEN {sw[s].to} \ {left[s]}
  ELSE {left[s], sw[s].to}

\* What t shows of s.  Packets name users: of a user with other sessions less is known,
\* since what is sent of one of them looks like news of the other: what t shows is
\* where the session stands that it was last told of.
PairInv(t, s) ==
  /\ Unmet(t, s) /\ Alone(s) => \A d \in Channels : user[s] \notin Table(t).members[d]
  /\ Met(t, s) /\ Alone(s) =>
       \A d \in Channels \ MayShow(t, s) : user[s] \notin Table(t).members[d]
  /\ Met(t, s) /\ Told(t, s) /\ Seen(t, chan[s]) =>
       /\ Latest(t)[user[s]] \in {s, NoConn} => user[s] \in Table(t).members[chan[s]]
       /\ Latest(t)[user[s]] = s \/ Alone(s) => Table(t).known[user[s]] = chan[s]

\* Nobody is shown who never logged in.
NoStranger(t) ==
  \A u \in Users : (\A s \in Conns : user[s] # u) =>
     \A d \in Channels : u \notin Table(t).members[d]

\* A session that is being finished up is no longer followed.
Shows(t) == NoStranger(t) /\ \A s \in Conns : finpc[s] = "none" => PairInv(t, s)

FollowInv == ~stale => \A t \in Conns : Follows(t) => Shows(t)

-------------------------------------------------------------------------------
(* How the variables of the composition go with those of the server.            *)

\* Nothing is shown before the AuthResponse, and that comes at the end of the login.
ViewPhases ==
  \A t \in Conns :
    /\ view[t].phase = "waiting" => view[t].lists = EmptyLists
    /\ view[t].phase = "connected" => auth[t] \in {"ka", "done"}

\* Nothing is encoded but by the login under way.
ResponseInv ==
  response # EmptyLists => acc # NoConn /\ auth[acc] \in {"snap", "reply"}

\* Who has got Remove but not Add is online until it gets Add.
OwedInv ==
  \A s \in Conns : owed[s] # NoUser =>
    /\ swpc[s] = "bcast" /\ owed[s] \in sw[s].todo
    /\ online[owed[s]] # NoConn /\ view[online[owed[s]]].phase # "waiting"

\* A switch remembers the channel it leaves.
LeftInv ==
  \A s \in Conns :
    /\ swpc[s] \in {"findc", "rmc", "findp", "rmp", "pushc", "pushp", "store"} =>
         chan[s] = left[s]
    /\ swpc[s] \in {"reply", "bcast"} => chan[s] = sw[s].to

\* Nobody stands in a channel that has never been there.
ChannelInv == \A s \in Conns : user[s] # NoUser => channels[chan[s]] # "absent"

LinkInv == ViewPhases /\ ResponseInv /\ OwedInv /\ LeftInv /\ ChannelInv

-------------------------------------------------------------------------------
(* ViewFollows: a step that tells a client nothing.                             *)

\* What PairInv(t, s) says besides the table of t becomes no stronger.
Steady(t, s) ==
  /\ Unmet(t, s)' => Unmet(t, s)
  /\ Met(t, s)' => Met(t, s)
  /\ Met(t, s)' /\ Told(t, s)' =>
       Told(t, s) /\ chan'[s] = chan[s] /\ (Seen(t, chan[s])' => Seen(t, chan[s]))
  /\ MayShow(t, s) \subseteq MayShow(t, s)'

SameFor(t, u) ==
  /\ Latest(t)'[u] = Latest(t)[u]
  /\ Table(t)'.known[u] = Table(t).known[u]
  /\ \A d \in Channels : u \in Table(t)'.members[d] <=> u \in Table(t).members[d]

LEMMA PairSteady ==
  ASSUME NEW t \in Conns, NEW s \in Conns, UNCHANGED user,
         PairInv(t, s), Steady(t, s), SameFor(t, user[s]), chan[s] \in Channels
  PROVE  PairInv(t, s)'
<1>1. Others(s)' = Others(s) /\ Others(s) \subseteq Conns
  BY DEF Others
<1>2. Alone(s)' <=> Alone(s)
  BY <1>1 DEF Alone
<1>4. user'[s] = user[s]
  OBVIOUS
<1>5. ASSUME Unmet(t, s)', Alone(s)'
      PROVE  \A d \in Channels : user'[s] \notin Table(t)'.members[d]
  BY <1>2, <1>4, <1>5 DEF PairInv, Steady, SameFor
<1>6. ASSUME Met(t, s)', Alone(s)'
      PROVE  \A d \in Channels \ MayShow(t, s)' : user'[s] \notin Table(t)'.members[d]
  BY <1>2, <1>4, <1>6 DEF PairInv, Steady, SameFor
<1>7. ASSUME Met(t, s)', Told(t, s)', Seen(t, chan[s])'
      PROVE  /\ Latest(t)'[user'[s]] \in {s, NoConn} => user'[s] \in Table(t)'.members[chan'[s]]
             /\ Latest(t)'[user'[s]] = s \/ Alone(s)' => Table(t)'.known[user'[s]] = chan'[s]
  BY <1>2, <1>4, <1>7 DEF PairInv, Steady, SameFor
<1> QED
  BY <1>5, <1>6, <1>7 DEF PairInv

-------------------------------------------------------------------------------
(* ViewFollows: the steps of the server that are alike to the clients.          *)

\* A step by which a session at most ends, or an entry of online_users goes.
Fades ==
  /\ UNCHANGED <<user, chan, auth, acc, accTodo, channels, swpc, sw, asked>>
  /\ \A t \in Conns : /\ link'[t] = "up" => link[t] = "up"
                      /\ finpc'[t] = "none" => finpc[t] = "none"
  /\ \A u \in Users : online'[u] = online[u] \/ (online'[u] = NoConn /\ ~Pinned(u))
  /\ stale => stale'

LEMMA FadeSteps ==
  ASSUME IInv, NEW s \in Conns,
         \/ (\E t \in Readers : ReaderError(s, t)) \/ VoicePanic(s) \/ AuthPanic(s)
         \/ FinishLoad(s) \/ FinishClients(s) \/ FinishProto(s) \/ FinishBroadcast(s) \/ CloseLink(s)
         \/ LinkDown(s) \/ PanicPacket(s)
         \/ ((DisconnectPacket(s) \/ FinishOnline(s)) /\ ~Pinned(user[s]))
  PROVE  Fades
<1> USE DEF sessVars, accVars, rosterVars, swVars, finVars, history, Fades
<1>a. /\ link \in [Conns -> {"new", "up", "down"}] /\ finpc \in [Conns -> FinPc]
      /\ online \in [Users -> Conns \cup {NoConn}]
  BY DEF IInv, SessionPart, TypeSession
<1>1. CASE \E t \in Readers : ReaderError(s, t)
  BY <1>1, <1>a DEF ReaderError
<1>2. CASE VoicePanic(s) \/ PanicPacket(s) \/ AuthPanic(s)
  BY <1>2 DEF VoicePanic, PanicPacket, AuthPanic, Panic
<1>3. CASE FinishClients(s)
  <2>1. stale => stale'
    BY <1>3 DEF FinishClients
  <2> QED
    BY <1>3, <1>a, <2>1 DEF FinishClients
<1>4. CASE FinishProto(s)
  <2>1. stale => stale'
    BY <1>4 DEF FinishProto
  <2> QED
    BY <1>4, <1>a, <2>1 DEF FinishProto
<1>5. CASE FinishBroadcast(s)
  BY <1>5, <1>a DEF FinishBroadcast
<1>6. CASE CloseLink(s) \/ LinkDown(s)
  BY <1>6, <1>a DEF CloseLink, LinkDown
<1>7. CASE DisconnectPacket(s) /\ ~Pinned(user[s])
  BY <1>7, <1>a DEF DisconnectPacket
<1>8. CASE FinishOnline(s) /\ ~Pinned(user[s])
  BY <1>8, <1>a DEF FinishOnline
<1>9. CASE FinishLoad(s)
  BY <1>9, <1>a DEF FinishLoad
<1> QED
  BY <1>1, <1>2, <1>3, <1>4, <1>5, <1>6, <1>7, <1>8, <1>9

LEMMA OperatorFades ==
  ASSUME IInv, Shutdown, \A u \in Users : ~Pinned(u)
  PROVE  Fades
BY DEF Shutdown, Fades, sessVars, accVars, swVars, finVars

\* A step of a switch between its request and its broadcast.
MidSwitch == {"findc", "rmc", "findp", "rmp", "pushc", "pushp"}

SwitchMoves(s) ==
  /\ UNCHANGED <<link, user, auth, acc, accTodo, online, channels, asked, finpc>>
  /\ \A t \in Conns \ {s} : swpc'[t] = swpc[t] /\ sw'[t] = sw[t] /\ chan'[t] = chan[t]
  /\ stale => stale'
  /\ \/ UNCHANGED <<swpc, sw, chan>>
     \/ swpc[s] = "refuse" /\ swpc'[s] = "idle" /\ chan'[s] = chan[s]
     \/ /\ swpc[s] \in MidSwitch /\ swpc'[s] \in MidSwitch \cup {"store"}
        /\ chan'[s] = chan[s] /\ sw'[s].to = sw[s].to
     \/ /\ swpc[s] = "store" /\ swpc'[s] = "reply" /\ chan'[s] = sw[s].to
        /\ sw'[s] = sw[s] /\ Handling(s)
     \/ /\ swpc[s] = "reply" /\ swpc'[s] = "bcast" /\ chan'[s] = chan[s]
        /\ sw'[s].to = sw[s].to /\ sw'[s].todo = Users

LEMMA SwitchSteps ==
  ASSUME IInv, NEW s \in Conns,
         \/ SwitchRefuse(s) \/ SwitchFindClient(s) \/ SwitchRemoveClient(s)
         \/ SwitchFindProto(s) \/ SwitchRemoveProto(s) \/ SwitchPushClients(s)
         \/ SwitchPushProto(s) \/ SwitchStore(s) \/ SwitchReply(s)
  PROVE  SwitchMoves(s)
<1> USE DEF accVars, rosterVars, finVars, history, SwitchMoves, MidSwitch
<1>a. /\ swpc \in [Conns -> SwPc] /\ chan \in [Conns -> Channels]
      /\ sw \in [Conns -> [to : Channels, idx : Nat, prof : Users \cup {NoUser},
                          todo : SUBSET Users]]
  BY DEF IInv, SessionPart, DataPart, TypeSession, TypeRoster, TypeLocals, SwitchLocals
<1>1. CASE SwitchRefuse(s)
  BY <1>1, <1>a DEF SwitchRefuse
<1>2. CASE SwitchFindClient(s)
  BY <1>2, <1>a DEF SwitchFindClient
<1>3. CASE SwitchRemoveClient(s)
  <2>1. stale => stale'
    BY <1>3 DEF SwitchRemoveClient
  <2> QED
    BY <1>3, <1>a, <2>1 DEF SwitchRemoveClient
<1>4. CASE SwitchFindProto(s)
  BY <1>4, <1>a DEF SwitchFindProto
<1>5. CASE SwitchRemoveProto(s)
  <2>1. stale => stale'
    BY <1>5 DEF SwitchRemoveProto
  <2> QED
    BY <1>5, <1>a, <2>1 DEF SwitchRemoveProto
<1>6. CASE SwitchPushClients(s)
  BY <1>6, <1>a DEF SwitchPushClients, sessVars
<1>7. CASE SwitchPushProto(s)
  BY <1>7, <1>a DEF SwitchPushProto
<1>8. CASE SwitchStore(s)
  BY <1>8, <1>a DEF SwitchStore
<1>9. CASE SwitchReply(s)
  BY <1>9, <1>a DEF SwitchReply
<1> QED
  BY <1>1, <1>2, <1>3, <1>4, <1>5, <1>6, <1>7, <1>8, <1>9

-------------------------------------------------------------------------------
(* ViewFollows: how the variables of the composition go with the server.        *)

\* What a packet makes of a view: only the AuthResponse connects a client.
Later(v, w) == w = v \/ (w.phase # "waiting" /\ (w.phase = "connected" => v.phase = "connected"))

LEMMA HandlersLater ==
  ASSUME NEW v \in View, v.phase = "waiting" => v.lists = EmptyLists,
         NEW u \in Users, NEW c \in Channels
  PROVE  /\ \A reason \in Refusals : Later(v, HandleAuthFailure(v, reason))
         /\ Later(v, HandleClientConnected(v, u)) /\ Later(v, HandleClientDisconnected(v, u))
         /\ Later(v, HandleRemove(v, c, u)) /\ Later(v, HandleAdd(v, c, u))
<1>1. \A reason \in Refusals : Later(v, HandleAuthFailure(v, reason))
  BY DEF Later, HandleAuthFailure, View
<1>2. Later(v, Panicked(v))
  BY DEF Later, Panicked, View
<1>3. Later(v, HandleClientConnected(v, u))
  BY <1>2 DEF Later, HandleClientConnected, Handled, View
<1>4. Later(v, HandleClientDisconnected(v, u))
  <2>1. CASE v.phase = "waiting"
    <3>1. v.lists.known[u] = NoChannel /\ v.lists.listed = {}
      BY <2>1 DEF EmptyLists
    <3> QED
      BY <2>1, <3>1 DEF Later, HandleClientDisconnected, Panicked, View
  <2>2. CASE v.phase # "waiting"
    BY <2>2 DEF Later, HandleClientDisconnected, Panicked, View
  <2> QED
    BY <2>1, <2>2
<1>5. Later(v, HandleRemove(v, c, u))
  <2>1. CASE v.phase = "waiting"
    <3>1. c \notin v.lists.listed
      BY <2>1 DEF EmptyLists
    <3> QED
      BY <1>2, <3>1 DEF HandleRemove, Handled
  <2>2. CASE v.phase # "waiting"
    BY <1>2, <2>2 DEF Later, HandleRemove, Handled, View
  <2> QED
    BY <2>1, <2>2
<1>6. Later(v, HandleAdd(v, c, u))
  <2>1. CASE v.phase = "waiting"
    <3>1. v.lists.known[u] = NoChannel
      BY <2>1 DEF EmptyLists
    <3> QED
      BY <1>2, <3>1 DEF HandleAdd
  <2>2. CASE v.phase # "waiting"
    BY <1>2, <2>2 DEF Later, HandleAdd, Panicked, View
  <2> QED
    BY <2>1, <2>2
<1> QED
  BY <1>1, <1>3, <1>4, <1>5, <1>6

\* The types that are needed all the time.
ViewTyped ==
  /\ view \in [Conns -> View] /\ response \in Lists
  /\ left \in [Conns -> Channels] /\ owed \in [Conns -> Users \cup {NoUser}]
  /\ told \in [Conns -> [Users -> Conns \cup {NoConn}]]
  /\ online \in [Users -> Conns \cup {NoConn}] /\ auth \in [Conns -> AuthPc]
  /\ user \in [Conns -> Users \cup {NoUser}] /\ chan \in [Conns -> Channels]
  /\ swpc \in [Conns -> SwPc] /\ asked \in [Conns -> Nat] /\ acc \in Conns \cup {NoConn}
  /\ sw \in [Conns -> [to : Channels, idx : Nat, prof : Users \cup {NoUser},
                       todo : SUBSET Users]]
  /\ finpc \in [Conns -> FinPc] /\ link \in [Conns -> {"new", "up", "down"}]
  /\ channels \in [Channels -> {"absent", "live", "deleted"}]
  /\ NoUser \notin Users /\ NoConn \notin Conns

LEMMA ViewTypes == ASSUME IInv, CInv PROVE ViewTyped
BY ConstantsOK DEF IInv, SessionPart, TypeSession, DataPart, TypeServer, TypeRoster,
   TypeLocals, SwitchLocals, CInv, ClientTypeOK, ViewTyped

LEMMA LinkKept ==
  ASSUME LinkInv, ViewTyped, \A t \in Conns : Later(view[t], view'[t]),
         \A t \in Conns : auth[t] \in {"ka", "done"} => auth'[t] \in {"ka", "done"},
         \A s \in Conns : owed'[s] # NoUser =>
            /\ owed'[s] = owed[s] /\ swpc'[s] = swpc[s] /\ sw'[s].todo = sw[s].todo
            /\ online'[owed[s]] = online[owed[s]],
         ResponseInv', LeftInv', ChannelInv'
  PROVE  LinkInv'
<1>1. ViewPhases'
  BY DEF LinkInv, ViewPhases, Later
<1>2. OwedInv'
  <2> SUFFICES ASSUME NEW s \in Conns, owed'[s] # NoUser
               PROVE  /\ swpc'[s] = "bcast" /\ owed'[s] \in sw'[s].todo
                      /\ online'[owed'[s]] # NoConn /\ view'[online'[owed'[s]]].phase # "waiting"
    BY DEF OwedInv
  <2>1. /\ swpc[s] = "bcast" /\ owed[s] \in sw[s].todo
        /\ online[owed[s]] # NoConn /\ view[online[owed[s]]].phase # "waiting"
    BY DEF LinkInv, OwedInv
  <2>2. online[owed[s]] \in Conns
    BY <2>1 DEF ViewTyped
  <2>3. view'[online[owed[s]]].phase # "waiting"
    BY <2>1, <2>2 DEF Later
  <2> QED
    BY <2>1, <2>3
<1> QED
  BY <1>1, <1>2 DEF LinkInv

LEMMA FadesLink ==
  ASSUME LinkInv, ViewTyped, Fades, UNCHANGED <<response, left, owed>>,
         \A t \in Conns : Later(view[t], view'[t])
  PROVE  LinkInv'
<1>1. ASSUME NEW s \in Conns, owed'[s] # NoUser
      PROVE  online'[owed[s]] = online[owed[s]]
  <2>1. owed[s] \in Users /\ Pinned(owed[s])
    BY <1>1 DEF ViewTyped, Pinned
  <2> QED
    BY <2>1 DEF Fades
<1>2. ResponseInv' /\ LeftInv' /\ ChannelInv'
  BY DEF LinkInv, ResponseInv, LeftInv, ChannelInv, Fades
<1> QED
  BY <1>1, <1>2, LinkKept DEF Fades

LEMMA SwitchMovesLink ==
  ASSUME LinkInv, ViewTyped, EntryIsLive, NEW s \in Conns, SwitchMoves(s),
         UNCHANGED clientVars
  PROVE  LinkInv'
<1>a. UNCHANGED <<view, response, left, owed>>
  BY DEF clientVars
<1>b. /\ ResponseInv /\ LeftInv /\ ChannelInv /\ OwedInv
      /\ UNCHANGED <<user, auth, acc, online, channels>>
  BY DEF LinkInv, SwitchMoves
<1>1. ASSUME NEW t \in Conns, owed'[t] # NoUser
      PROVE  swpc'[t] = swpc[t] /\ sw'[t].todo = sw[t].todo
  <2>1. swpc[t] = "bcast"
    BY <1>1, <1>a, <1>b DEF OwedInv
  <2> QED
    BY <2>1 DEF SwitchMoves, MidSwitch
<1>2. ResponseInv'
  BY <1>a, <1>b DEF ResponseInv
<1>3. LeftInv'
  BY <1>a, <1>b DEF LeftInv, SwitchMoves, MidSwitch
<1>4. ChannelInv'
  <2>1. swpc[s] = "store" /\ Handling(s) => channels[sw[s].to] = "live"
    BY DEF EntryIsLive
  <2>2. chan'[s] = chan[s] \/ (chan'[s] = sw[s].to /\ swpc[s] = "store" /\ Handling(s))
    BY DEF SwitchMoves
  <2>3. \A t \in Conns \ {s} : chan'[t] = chan[t]
    BY DEF SwitchMoves
  <2> QED
    BY <1>b, <2>1, <2>2, <2>3 DEF ChannelInv
<1>5. \A t \in Conns : Later(view[t], view'[t])
  BY <1>a DEF Later
<1> QED
  BY <1>a, <1>b, <1>1, <1>2, <1>3, <1>4, <1>5, LinkKept

LEMMA LoginLink ==
  ASSUME LinkInv, ViewTyped, SessionPart, NEW s \in Conns,
         \/ Accept(s) \/ (\E u \in Users : AuthAccept(s, u)) \/ AuthInsert(s)
         \/ AuthPushClients(s) \/ AuthPushProto(s) \/ AuthKeepAlive(s),
         UNCHANGED clientVars
  PROVE  LinkInv'
<1> USE DEF sessVars, accVars, rosterVars, swVars, finVars, history
<1>a. UNCHANGED <<view, response, left, owed>>
  BY DEF clientVars
<1>b. /\ ResponseInv /\ LeftInv /\ ChannelInv /\ OwedInv
      /\ UNCHANGED <<swpc, sw, channels>>
  BY DEF LinkInv, Accept, AuthAccept, AuthInsert, AuthPushClients, AuthPushProto,
     AuthKeepAlive
<1>c. NoConn \notin Conns
  BY ConstantsOK
<1>1. \A t \in Conns : auth[t] \in {"ka", "done"} => auth'[t] \in {"ka", "done"}
  <2>1. SessInv
    BY DEF SessionPart
  <2>2. CASE Accept(s)
    BY <2>1, <2>2 DEF Accept, ViewTyped, SessInv
  <2>3. ASSUME NEW u \in Users, AuthAccept(s, u)
        PROVE  \A t \in Conns : auth[t] \in {"ka", "done"} => auth'[t] \in {"ka", "done"}
    BY <2>3 DEF AuthAccept, ViewTyped
  <2>4. CASE AuthInsert(s) \/ AuthPushClients(s) \/ AuthPushProto(s) \/ AuthKeepAlive(s)
    BY <2>4 DEF AuthInsert, AuthPushClients, AuthPushProto, AuthKeepAlive, ViewTyped
  <2> QED
    BY <2>2, <2>3, <2>4
<1>2. ASSUME NEW t \in Conns, owed'[t] # NoUser
      PROVE  online'[owed[t]] = online[owed[t]]
  <2>1. online[owed[t]] # NoConn
    BY <1>a, <1>b, <1>2 DEF OwedInv
  <2>2. CASE AuthInsert(s)
    <3>1. online[user[s]] = NoConn
      BY <2>2 DEF AuthInsert, SessionPart, PlaceInv
    <3> QED
      BY <2>1, <2>2, <3>1 DEF AuthInsert, ViewTyped
  <2>3. CASE ~AuthInsert(s)
    BY <2>3 DEF Accept, AuthAccept, AuthPushClients, AuthPushProto, AuthKeepAlive
  <2> QED
    BY <2>2, <2>3
<1>3. ResponseInv'
  <2>1. /\ acc = s \/ acc = NoConn
        /\ auth[s] \in {"snap", "reply"} => acc # s
        /\ auth[s] = "none" \/ acc = s
    <3>1. CASE Accept(s)
      BY <3>1 DEF Accept, SessionPart, SessInv
    <3> QED
      BY <3>1 DEF AuthAccept, AuthInsert, AuthPushClients, AuthPushProto, AuthKeepAlive
  <2>2. response = EmptyLists
    BY <1>b, <2>1, <1>c DEF ResponseInv
  <2> QED
    BY <1>a, <2>2 DEF ResponseInv
<1>4. LeftInv' /\ ChannelInv'
  <2>1. CASE \E u \in Users : AuthAccept(s, u)
    <3>1. PICK u \in Users : AuthAccept(s, u)
      BY <2>1
    <3>2. swpc[s] = "idle"
      BY <3>1 DEF AuthAccept, SessionPart, SessInv
    <3>3. LeftInv'
      BY <1>a, <1>b, <3>1, <3>2 DEF AuthAccept, LeftInv, ViewTyped
    <3>4. ChannelInv'
      BY <1>a, <1>b, <3>1 DEF AuthAccept, ChannelInv, ViewTyped
    <3> QED
      BY <3>3, <3>4
  <2>2. CASE ~\E u \in Users : AuthAccept(s, u)
    <3>1. UNCHANGED <<user, chan>>
      BY <2>2 DEF Accept, AuthInsert, AuthPushClients, AuthPushProto, AuthKeepAlive
    <3> QED
      BY <1>a, <1>b, <3>1 DEF LeftInv, ChannelInv
  <2> QED
    BY <2>1, <2>2
<1>5. \A t \in Conns : Later(view[t], view'[t])
  BY <1>a DEF Later
<1> QED
  BY <1>a, <1>b, <1>1, <1>2, <1>3, <1>4, <1>5, LinkKept

\* The steps of a login that write to a client or to the response.
LEMMA AnswerLink ==
  ASSUME LinkInv, ViewTyped, SessionPart, NEW s \in Conns,
         LoginRefused(s) \/ LoginBroadcast(s) \/ LoginSnapshot(s)
  PROVE  LinkInv'
<1> USE DEF sessVars, accVars, rosterVars, swVars, finVars, history
<1>b. /\ ResponseInv /\ LeftInv /\ ChannelInv /\ OwedInv /\ ViewPhases
      /\ UNCHANGED <<user, chan, online, swpc, sw, channels, left, owed>>
  BY DEF LinkInv, LoginRefused, LoginBroadcast, LoginSnapshot, AuthReject, AuthBroadcast,
     AuthSnapshot
<1>1. \A t \in Conns : auth[t] \in {"ka", "done"} => auth'[t] \in {"ka", "done"}
  BY DEF LoginRefused, LoginBroadcast, LoginSnapshot, AuthReject, AuthBroadcast,
     AuthSnapshot, ViewTyped
<1>2. ResponseInv'
  <2>1. CASE LoginSnapshot(s)
    BY <2>1, <1>b DEF LoginSnapshot, AuthSnapshot, ResponseInv, ViewTyped
  <2>2. CASE LoginRefused(s) \/ LoginBroadcast(s)
    <3>1. acc = s /\ auth[s] \notin {"snap", "reply"} /\ response' = response
      BY <2>2 DEF LoginRefused, AuthReject, LoginBroadcast, AuthBroadcast
    <3> QED
      BY <3>1, <1>b DEF ResponseInv
  <2> QED
    BY <2>1, <2>2
<1>3. LeftInv' /\ ChannelInv'
  BY <1>b DEF LeftInv, ChannelInv
<1>4. \A t \in Conns : Later(view[t], view'[t])
  <2> SUFFICES ASSUME NEW t \in Conns PROVE Later(view[t], view'[t])
    OBVIOUS
  <2>0. view[t] \in View /\ (view[t].phase = "waiting" => view[t].lists = EmptyLists)
    BY <1>b DEF ViewTyped, ViewPhases
  <2>1. CASE LoginRefused(s)
    <3>1. PICK reason \in Refusals :
            view' = [view EXCEPT ![s] = IF link[s] = "up" THEN HandleAuthFailure(@, reason)
                                        ELSE @]
      BY <2>1 DEF LoginRefused, Refusals
    <3>2. Later(view[t], HandleAuthFailure(view[t], reason))
      BY DEF Later, HandleAuthFailure, View, ViewTyped
    <3> QED
      BY <2>0, <3>1, <3>2 DEF ViewTyped, Later
  <2>2. CASE LoginBroadcast(s)
    <3>1. user[s] \in Users /\ Default \in Channels
      BY <2>2, ConstantsOK DEF LoginBroadcast, AuthBroadcast, SessionPart, SessInv,
         TypeSession
    <3>2. Later(view[t], HandleClientConnected(view[t], user[s]))
      BY <2>0, <3>1, HandlersLater
    <3>3. view'[t] \in {view[t], HandleClientConnected(view[t], user[s])}
      BY <2>2 DEF LoginBroadcast
    <3> QED
      BY <3>2, <3>3 DEF Later
  <2>3. CASE LoginSnapshot(s)
    BY <2>3 DEF LoginSnapshot, Later
  <2> QED
    BY <2>1, <2>2, <2>3
<1> QED
  BY <1>b, <1>1, <1>2, <1>3, <1>4, LinkKept

LEMMA ReplyLink ==
  ASSUME LinkInv, ViewTyped, NEW s \in Conns, LoginReply(s)
  PROVE  LinkInv'
<1> USE DEF sessVars, accVars, rosterVars, swVars, finVars, history
<1>b. /\ ResponseInv /\ LeftInv /\ ChannelInv /\ OwedInv /\ ViewPhases
      /\ UNCHANGED <<user, chan, online, swpc, sw, channels, left, owed>>
      /\ response' = EmptyLists
  BY DEF LinkInv, LoginReply, AuthReply
<1>1. LeftInv' /\ ChannelInv' /\ ResponseInv'
  BY <1>b DEF LeftInv, ChannelInv, ResponseInv
<1>2. CASE link[s] # "up"
  <2>1. UNCHANGED <<auth, view>>
    BY <1>2 DEF LoginReply, AuthReply, ViewTyped
  <2>2. \A t \in Conns : Later(view[t], view'[t])
    BY <2>1 DEF Later
  <2> QED
    BY <1>b, <1>1, <2>1, <2>2, LinkKept
<1>3. CASE link[s] = "up"
  <2>1. /\ auth' = [auth EXCEPT ![s] = "ka"]
        /\ view' = [view EXCEPT ![s] = HandleAuthSuccess(view[s], response)]
    BY <1>3 DEF LoginReply, AuthReply
  <2>2. HandleAuthSuccess(view[s], response).phase \in {"connected", "panicked"}
    BY DEF HandleAuthSuccess, Panicked, ViewTyped, View
  <2>3. ViewPhases'
    BY <1>b, <2>1, <2>2 DEF ViewPhases, ViewTyped
  <2>4. OwedInv'
    <3>1. \A t \in Conns : view'[t].phase # "waiting" \/ view[t].phase = "waiting"
      BY <2>1, <2>2 DEF ViewTyped
    <3>2. \A t \in Conns : owed[t] # NoUser => owed[t] \in Users
      BY DEF ViewTyped
    <3> QED
      BY <1>b, <3>1, <3>2 DEF OwedInv, ViewTyped
  <2> QED
    BY <1>1, <2>3, <2>4 DEF LinkInv
<1> QED
  BY <1>2, <1>3

\* A send of a switch: Add goes to whoever has got Remove, or one of the sends fails.
AddMoves(s) ==
  /\ UNCHANGED <<link, user, chan, auth, acc, accTodo, online, channels, asked, finpc, stale>>
  /\ \A t \in Conns \ {s} : swpc'[t] = swpc[t] /\ sw'[t] = sw[t]
  /\ swpc[s] = "bcast"
  /\ \/ /\ sw[s].todo = {} /\ swpc'[s] = "idle" /\ owed[s] = NoUser
        /\ UNCHANGED <<view, told>>
     \/ UNCHANGED <<swpc, sw, view, told>> /\ (owed[s] # NoUser => Unreachable(owed[s]))
     \/ \E u \in sw[s].todo :
          /\ UNCHANGED swpc /\ ~Unreachable(u)
          /\ sw'[s].to = sw[s].to /\ sw'[s].todo = sw[s].todo \ {u}
          /\ owed[s] \in {u, NoUser} /\ (owed[s] = NoUser => online[u] = NoConn)
          /\ view' = [t \in Conns |-> IF t = online[u] THEN HandleAdd(view[t], sw[s].to, user[s])
                                      ELSE view[t]]
          /\ Tell({online[u]}, s)

LEMMA SendAddMoves ==
  ASSUME ViewTyped, OwedInv, NEW s \in Conns, SendAdd(s)
  PROVE  AddMoves(s)
<1> USE DEF sessVars, accVars, rosterVars, swVars, finVars, history
<1> DEFINE sent == IF tasks' = tasks THEN sw[s].todo \ sw'[s].todo ELSE {}
<1>1. /\ Handling(s) /\ swpc[s] = "bcast"
      /\ UNCHANGED <<link, user, chan, auth, acc, accTodo, online, channels, asked, finpc,
                     stale>>
      /\ IF owed[s] = NoUser THEN Reached(sent) = {}
         ELSE IF Unreachable(owed[s]) THEN tasks' # tasks ELSE sent = {owed[s]}
      /\ view' = [t \in Conns |-> IF t \in Reached(sent)
                                  THEN HandleAdd(view[t], sw[s].to, user[s]) ELSE view[t]]
      /\ Tell(Reached(sent), s)
  BY DEF SendAdd, SwitchBroadcast
<1>2. view = [t \in Conns |-> view[t]] /\ told = [t \in Conns |-> told[t]]
  BY DEF ViewTyped
<1>3. sent = {} => UNCHANGED <<view, told>>
  <2>1. sent = {} => Reached(sent) = {}
    BY DEF Reached
  <2> HIDE DEF sent
  <2>2. sent = {} => UNCHANGED view
    BY <1>1, <1>2, <2>1
  <2>3. sent = {} => UNCHANGED told
    BY <1>1, <1>2, <2>1 DEF Tell
  <2> QED
    BY <2>2, <2>3
<1>4. CASE sw[s].todo = {} /\ swpc' = [swpc EXCEPT ![s] = "idle"]
           /\ sw' = [sw EXCEPT ![s] = NoSwitch]
  <2>1. sent = {} /\ owed[s] = NoUser
    BY <1>4 DEF OwedInv
  <2>2. UNCHANGED <<view, told>>
    BY <1>3, <2>1
  <2> QED
    BY <1>1, <1>4, <2>1, <2>2 DEF AddMoves, ViewTyped
<1>5. ASSUME NEW u \in sw[s].todo, Unreachable(u), Panic(s), UNCHANGED <<swpc, sw>>
      PROVE  AddMoves(s)
  <2>1. sent = {}
    BY <1>5
  <2>2. owed[s] # NoUser => Unreachable(owed[s])
    <3> HIDE DEF sent
    <3> QED
      BY <1>1, <2>1
  <2>3. UNCHANGED <<view, told>>
    BY <1>3, <2>1
  <2> QED
    BY <1>1, <1>5, <2>2, <2>3 DEF AddMoves
<1>6. ASSUME NEW u \in sw[s].todo, ~Unreachable(u),
             sw' = [sw EXCEPT ![s].todo = @ \ {u}], UNCHANGED <<swpc, tasks>>
      PROVE  AddMoves(s)
  <2>1. sw'[s].todo = sw[s].todo \ {u} /\ sw'[s].to = sw[s].to
        /\ \A t \in Conns \ {s} : sw'[t] = sw[t]
    BY <1>6 DEF ViewTyped
  <2>2. sent = {u}
    BY <1>6, <2>1
  <2>3. Reached(sent) = {online[u]} \ {NoConn}
    BY <2>2 DEF Reached
  <2>4. owed[s] \in {u, NoUser}
    <3> HIDE DEF sent
    <3> QED
      BY <1>1, <1>6, <2>2
  <2>5. owed[s] = NoUser => online[u] = NoConn
    <3> HIDE DEF sent
    <3> QED
      BY <1>1, <2>3
  <2>6. view' = [t \in Conns |-> IF t = online[u] THEN HandleAdd(view[t], sw[s].to, user[s])
                                 ELSE view[t]]
    <3>1. \A t \in Conns : t \in Reached(sent) <=> t = online[u]
      BY <2>3 DEF ViewTyped
    <3> HIDE DEF sent
    <3> QED
      BY <1>1, <3>1
  <2>7. Tell({online[u]}, s)
    <3>1. \A t \in Conns : t \in Reached(sent) <=> t \in {online[u]}
      BY <2>3 DEF ViewTyped
    <3> HIDE DEF sent
    <3> QED
      BY <1>1, <3>1 DEF Tell
  <2> QED
    BY <1>1, <1>6, <2>1, <2>4, <2>5, <2>6, <2>7 DEF AddMoves
<1> QED
  BY <1>4, <1>5, <1>6 DEF SendAdd, SwitchBroadcast

LEMMA AddLater ==
  ASSUME LinkInv, ViewTyped, NEW s \in Conns, AddMoves(s), user[s] \in Users
  PROVE  \A t \in Conns : Later(view[t], view'[t])
<1> SUFFICES ASSUME NEW t \in Conns PROVE Later(view[t], view'[t])
  OBVIOUS
<1>1. view[t] \in View /\ (view[t].phase = "waiting" => view[t].lists = EmptyLists)
  BY DEF ViewTyped, LinkInv, ViewPhases
<1>2. Later(view[t], HandleAdd(view[t], sw[s].to, user[s]))
  <2>1. sw[s].to \in Channels
    BY DEF ViewTyped
  <2> QED
    BY <1>1, <2>1, HandlersLater
<1>3. view'[t] \in {view[t], HandleAdd(view[t], sw[s].to, user[s])}
  BY DEF AddMoves
<1> QED
  BY <1>2, <1>3 DEF Later

LEMMA SwitchLink ==
  ASSUME LinkInv, ViewTyped, SessionPart, NEW s \in Conns,
         (\E c \in Channels : StartSwitch(s, c)) \/ SendRemove(s) \/ SendAdd(s)
  PROVE  LinkInv'
<1> USE DEF sessVars, accVars, rosterVars, swVars, finVars, history
<1>b. ResponseInv /\ LeftInv /\ ChannelInv /\ OwedInv /\ ViewPhases
  BY DEF LinkInv
<1>u. swpc[s] = "bcast" => user[s] \in Users
  BY DEF SessionPart, SessInv, TypeSession
<1>1. ASSUME NEW c \in Channels, StartSwitch(s, c) PROVE LinkInv'
  <2>1. /\ UNCHANGED <<user, chan, auth, acc, online, channels, view, response, owed>>
        /\ swpc[s] = "idle" /\ swpc'[s] \in {"refuse", "findc"} /\ left'[s] = chan[s]
        /\ \A t \in Conns \ {s} : swpc'[t] = swpc[t] /\ sw'[t] = sw[t] /\ left'[t] = left[t]
    BY <1>1 DEF StartSwitch, SwitchRequest, ViewTyped
  <2>2. ResponseInv' /\ LeftInv' /\ ChannelInv'
    BY <1>b, <2>1 DEF ResponseInv, LeftInv, ChannelInv
  <2>3. owed[s] = NoUser
    BY <1>b, <2>1 DEF OwedInv
  <2>4. \A t \in Conns : Later(view[t], view'[t])
    BY <2>1 DEF Later
  <2> QED
    BY <2>1, <2>2, <2>3, <2>4, LinkKept
<1>2. CASE SendRemove(s)
  <2>1. PICK u \in sw[s].todo :
          /\ online[u] # NoConn /\ owed' = [owed EXCEPT ![s] = u]
          /\ view' = [view EXCEPT ![online[u]] = HandleRemove(@, left[s], user[s])]
    BY <1>2 DEF SendRemove
  <2>2. /\ UNCHANGED <<user, chan, auth, acc, online, channels, swpc, sw, response, left>>
        /\ swpc[s] = "bcast" /\ u \in Users /\ online[u] \in Conns
    BY <1>2, <2>1 DEF SendRemove, vars, ViewTyped
  <2>3. view'[online[u]].phase # "waiting"
    <3>1. CASE view[online[u]].phase = "waiting"
      BY <1>b, <2>1, <2>2, <3>1 DEF HandleRemove, Handled, Panicked, EmptyLists, ViewPhases,
         ViewTyped, View
    <3>2. CASE view[online[u]].phase # "waiting"
      BY <2>1, <2>2, <3>2 DEF HandleRemove, Handled, Panicked, ViewTyped, View
    <3> QED
      BY <3>1, <3>2
  <2>4. \A t \in Conns : Later(view[t], view'[t])
    <3> SUFFICES ASSUME NEW t \in Conns PROVE Later(view[t], view'[t])
      OBVIOUS
    <3>1. view[t] \in View /\ (view[t].phase = "waiting" => view[t].lists = EmptyLists)
      BY <1>b DEF ViewTyped, ViewPhases
    <3>2. Later(view[t], HandleRemove(view[t], left[s], user[s]))
      <4>1. left[s] \in Channels /\ user[s] \in Users
        BY <1>u, <2>2 DEF ViewTyped
      <4> QED
        BY <3>1, <4>1, HandlersLater
    <3> QED
      BY <2>1, <3>2 DEF Later, ViewTyped
  <2>5. OwedInv'
    <3> SUFFICES ASSUME NEW t \in Conns, owed'[t] # NoUser
                 PROVE  /\ swpc'[t] = "bcast" /\ owed'[t] \in sw'[t].todo
                        /\ online'[owed'[t]] # NoConn
                        /\ view'[online'[owed'[t]]].phase # "waiting"
      BY DEF OwedInv
    <3>1. CASE t = s
      BY <2>1, <2>2, <2>3, <3>1 DEF ViewTyped
    <3>2. CASE t # s
      <4>1. owed'[t] = owed[t] /\ owed[t] \in Users
        BY <2>1, <3>2 DEF ViewTyped
      <4>2. /\ swpc[t] = "bcast" /\ owed[t] \in sw[t].todo /\ online[owed[t]] \in Conns
            /\ online[owed[t]] # NoConn /\ view[online[owed[t]]].phase # "waiting"
        BY <1>b, <4>1 DEF OwedInv, ViewTyped
      <4> QED
        BY <2>2, <2>4, <4>1, <4>2 DEF Later
    <3> QED
      BY <3>1, <3>2
  <2>6. ViewPhases'
    BY <1>b, <2>2, <2>4 DEF ViewPhases, Later
  <2>7. ResponseInv' /\ LeftInv' /\ ChannelInv'
    BY <1>b, <2>2 DEF ResponseInv, LeftInv, ChannelInv
  <2> QED
    BY <2>5, <2>6, <2>7 DEF LinkInv
<1>3. CASE SendAdd(s)
  <2>1. /\ owed' = [owed EXCEPT ![s] = NoUser]
        /\ left' = [left EXCEPT ![s] = IF swpc'[s] = "idle" THEN Default ELSE @]
        /\ UNCHANGED response
    BY <1>3 DEF SendAdd
  <2>2. AddMoves(s)
    BY <1>3, <1>b, SendAddMoves
  <2>3. user[s] \in Users
    BY <1>u, <2>2 DEF AddMoves
  <2>4. \A t \in Conns : Later(view[t], view'[t])
    BY <2>2, <2>3, AddLater
  <2>5. /\ UNCHANGED <<user, chan, auth, acc, online, channels>>
        /\ \A t \in Conns \ {s} : swpc'[t] = swpc[t] /\ sw'[t] = sw[t]
        /\ swpc[s] = "bcast"
        /\ swpc'[s] = "idle" \/ (swpc'[s] = "bcast" /\ sw'[s].to = sw[s].to)
    BY <2>2 DEF AddMoves
  <2>6. ResponseInv' /\ LeftInv' /\ ChannelInv'
    BY <1>b, <2>1, <2>5 DEF ResponseInv, LeftInv, ChannelInv, ViewTyped
  <2>7. owed'[s] = NoUser /\ \A t \in Conns \ {s} : owed'[t] = owed[t]
    BY <2>1 DEF ViewTyped
  <2> QED
    BY <2>4, <2>5, <2>6, <2>7, LinkKept
<1> QED
  BY <1>1, <1>2, <1>3

LEMMA StepLink == IInv /\ CInv /\ EntryIsLive /\ LinkInv /\ [RSNext]_rsVars => LinkInv'
<1> SUFFICES ASSUME IInv, CInv, EntryIsLive, LinkInv, [RSNext]_rsVars PROVE LinkInv'
  OBVIOUS
<1>a. ViewTyped /\ SessionPart
  BY ViewTypes DEF IInv
<1>b. UNCHANGED clientVars =>
        UNCHANGED <<view, response, left, owed>> /\ \A t \in Conns : Later(view[t], view'[t])
  BY DEF clientVars, Later
<1>1. ASSUME NEW s \in Conns, Silent(s) PROVE LinkInv'
  <2>1. UNCHANGED clientVars
    BY <1>1 DEF Silent
  <2>2. CASE \/ Accept(s) \/ (\E u \in Users : AuthAccept(s, u)) \/ AuthInsert(s)
             \/ AuthPushClients(s) \/ AuthPushProto(s)
    BY <1>a, <2>1, <2>2, LoginLink
  <2>3. CASE \/ SwitchRefuse(s) \/ SwitchFindClient(s) \/ SwitchRemoveClient(s)
             \/ SwitchFindProto(s) \/ SwitchRemoveProto(s) \/ SwitchPushClients(s)
             \/ SwitchPushProto(s) \/ SwitchStore(s) \/ SwitchReply(s)
    BY <1>a, <2>1, <2>3, SwitchSteps, SwitchMovesLink
  <2>4. CASE \/ (\E t \in Readers : ReaderError(s, t)) \/ VoicePanic(s) \/ AuthPanic(s)
             \/ FinishLoad(s) \/ FinishClients(s) \/ FinishProto(s) \/ CloseLink(s) \/ LinkDown(s)
             \/ PanicPacket(s) \/ (DisconnectPacket(s) /\ ~Pinned(user[s]))
    <3>1. Fades
      BY <2>4, FadeSteps
    <3> QED
      BY <1>a, <1>b, <2>1, <3>1, FadesLink
  <2> QED
    BY <1>1, <2>2, <2>3, <2>4 DEF Silent
<1>2. ASSUME NEW s \in Conns, Speaking(s) PROVE LinkInv'
  <2>1. CASE LoginRefused(s) \/ LoginBroadcast(s) \/ LoginSnapshot(s)
    BY <1>a, <2>1, AnswerLink
  <2>2. CASE LoginReply(s)
    BY <1>a, <2>2, ReplyLink
  <2>3. CASE LoginKeepAlive(s)
    BY <1>a, <2>3, LoginLink DEF LoginKeepAlive
  <2>4. CASE (\E c \in Channels : StartSwitch(s, c)) \/ SendRemove(s) \/ SendAdd(s)
    BY <1>a, <2>4, SwitchLink
  <2>5. CASE LeaveOnline(s)
    <3>1. Fades /\ UNCHANGED <<view, response, left, owed>>
      BY <2>5, FadeSteps DEF LeaveOnline
    <3>2. \A t \in Conns : Later(view[t], view'[t])
      BY <3>1 DEF Later
    <3> QED
      BY <1>a, <3>1, <3>2, FadesLink
  <2>6. CASE FarewellBroadcast(s)
    <3>1. Fades /\ UNCHANGED <<response, left, owed>>
      BY <2>6, FadeSteps DEF FarewellBroadcast
    <3>2. \A t \in Conns : Later(view[t], view'[t])
      <4> SUFFICES ASSUME NEW t \in Conns PROVE Later(view[t], view'[t])
        OBVIOUS
      <4>1. user[s] \in Users /\ Default \in Channels
        BY <1>a, <2>6, ConstantsOK DEF FarewellBroadcast, FinishBroadcast, SessionPart, SessInv,
           TypeSession
      <4>2. view[t] \in View /\ (view[t].phase = "waiting" => view[t].lists = EmptyLists)
        BY <1>a DEF ViewTyped, LinkInv, ViewPhases
      <4>3. Later(view[t], HandleClientDisconnected(view[t], user[s]))
        BY <4>1, <4>2, HandlersLater
      <4>4. view'[t] \in {view[t], HandleClientDisconnected(view[t], user[s])}
        BY <2>6 DEF FarewellBroadcast
      <4> QED
        BY <4>3, <4>4 DEF Later
    <3> QED
      BY <1>a, <3>1, <3>2, FadesLink
  <2> QED
    BY <1>2, <2>1, <2>2, <2>3, <2>4, <2>5, <2>6 DEF Speaking
<1>3. ASSUME NEW c \in Channels, CreateChannel(c) \/ DeleteChannel(c), UNCHANGED clientVars
      PROVE  LinkInv'
  <2>1. UNCHANGED <<user, chan, auth, acc, online, swpc, sw>>
    BY <1>3 DEF CreateChannel, DeleteChannel, sessVars, accVars, rosterVars, swVars
  <2>2. \A d \in Channels : channels'[d] = "absent" => channels[d] = "absent"
    BY <1>3, <1>a DEF CreateChannel, DeleteChannel, ViewTyped
  <2>3. ResponseInv' /\ LeftInv' /\ ChannelInv'
    BY <1>a, <1>b, <1>3, <2>1, <2>2 DEF LinkInv, ResponseInv, LeftInv, ChannelInv, ViewTyped
  <2> QED
    BY <1>a, <1>b, <1>3, <2>1, <2>3, LinkKept
<1>4. CASE Operator
  <2>1. CASE Shutdown /\ \A u \in Users : ~Pinned(u)
    BY <1>4, <1>a, <1>b, <2>1, OperatorFades, FadesLink DEF Operator
  <2> QED
    BY <1>3, <1>4, <2>1 DEF Operator
<1>5. CASE UNCHANGED rsVars
  <2>1. Fades /\ UNCHANGED clientVars
    BY <1>5 DEF rsVars, vars, sessVars, accVars, rosterVars, swVars, finVars, history, Fades
  <2> QED
    BY <1>a, <1>b, <2>1, FadesLink
<1> QED
  BY <1>1, <1>2, <1>4, <1>5 DEF RSNext

LEMMA InitLink == RSInit => LinkInv
<1> SUFFICES ASSUME RSInit PROVE LinkInv
  OBVIOUS
<1>1. \A t \in Conns : view[t] = NewView /\ swpc[t] = "idle" /\ owed[t] = NoUser
                       /\ user[t] = NoUser
  BY DEF RSInit, Init
<1>2. response = EmptyLists
  BY DEF RSInit
<1> QED
  BY <1>1, <1>2 DEF LinkInv, ViewPhases, ResponseInv, OwedInv, LeftInv, ChannelInv, NewView

-------------------------------------------------------------------------------
(* ViewFollows: what follows for one client from the effect of a step.          *)

LEMMA Known ==
  ASSUME ViewTyped, SessInv, ViewPhases, NEW t \in Conns
  PROVE  /\ view[t].phase = "connected" \/ auth[t] \in {"snap", "reply"} => user[t] \in Users
         /\ Follows(t) => user[t] \in Users
         /\ \A s \in Conns : Met(t, s) \/ Unmet(t, s) => user[s] \in Users
<1>1. \A s \in Conns : auth[s] \notin {"none", "recv", "rejected"} => user[s] \in Users
  BY DEF SessInv, ViewTyped
<1>2. view[t].phase = "connected" => auth[t] \in {"ka", "done"}
  BY DEF ViewPhases
<1> QED
  BY <1>1, <1>2 DEF Follows, Watching, Reading, Met, Unmet, EnteredProto

LEMMA BusyUser ==
  ASSUME ViewTyped, SessInv, NEW s \in Conns, swpc[s] # "idle" \/ finpc[s] \notin {"none", "done"}
  PROVE  auth[s] = "done" /\ user[s] \in Users
<1>1. auth[s] = "done"
  BY DEF SessInv
<1>2. user[s] # NoUser
  BY <1>1 DEF SessInv
<1> QED
  BY <1>1, <1>2 DEF ViewTyped

LEMMA SteadyFollower ==
  ASSUME ViewTyped, NEW t \in Conns, Shows(t), UNCHANGED user,
         Table(t)' = Table(t), Latest(t)' = Latest(t),
         \A s \in Conns : finpc'[s] = "none" => finpc[s] = "none" /\ Steady(t, s)
  PROVE  Shows(t)'
<1>1. NoStranger(t)'
  BY DEF Shows, NoStranger
<1>2. ASSUME NEW s \in Conns, finpc'[s] = "none" PROVE PairInv(t, s)'
  <2>1. PairInv(t, s) /\ Steady(t, s) /\ chan[s] \in Channels
    BY <1>2 DEF Shows, ViewTyped
  <2>2. SameFor(t, user[s])
    BY DEF SameFor
  <2> QED
    BY <2>1, <2>2, PairSteady
<1> QED
  BY <1>1, <1>2 DEF Shows

\* The same of a step of s that tells t of s.
LEMMA ToldFollower ==
  ASSUME ViewTyped, SessInv, ViewPhases, NEW t \in Conns, NEW s \in Conns, Shows(t),
         UNCHANGED user,
         user[s] \in Users, \A u \in Users \ {user[s]} : SameFor(t, u),
         \A x \in Conns \ {s} : finpc'[x] = "none" => finpc[x] = "none" /\ Steady(t, x),
         Latest(t)'[user[s]] = s \/ SameFor(t, user[s]),
         finpc'[s] = "none" => PairInv(t, s)'
  PROVE  Shows(t)'
<1>1. NoStranger(t)'
  <2> SUFFICES ASSUME NEW u \in Users, \A x \in Conns : user'[x] # u
               PROVE  \A d \in Channels : u \notin Table(t)'.members[d]
    BY DEF NoStranger
  <2>1. \A x \in Conns : user[x] # u
    OBVIOUS
  <2>2. SameFor(t, u)
    BY <2>1
  <2> QED
    BY <2>1, <2>2 DEF Shows, NoStranger, SameFor
<1>2. ASSUME NEW x \in Conns \ {s}, finpc'[x] = "none" PROVE PairInv(t, x)'
  <2>1. PairInv(t, x) /\ Steady(t, x) /\ chan[x] \in Channels
    BY <1>2 DEF Shows, ViewTyped
  <2>2. CASE user[x] \in Users /\ user[x] # user[s]
    <3>1. SameFor(t, user[x])
      BY <2>2
    <3> QED
      BY <2>1, <3>1, PairSteady
  <2>3. CASE user[x] = user[s]
    <3>1. s \in Others(x) /\ Others(x)' = Others(x) /\ user'[x] = user[s]
      BY <2>3 DEF Others
    <3>2. ~Alone(x)'
      BY <3>1 DEF Alone
    <3>3. CASE Latest(t)'[user[s]] = s
      <4>1. Latest(t)'[user'[x]] \notin {x, NoConn}
        BY <3>1, <3>3 DEF ViewTyped
      <4> QED
        BY <3>2, <4>1 DEF PairInv
    <3>4. CASE SameFor(t, user[s])
      BY <2>1, <2>3, <3>4, PairSteady
    <3> QED
      BY <3>3, <3>4
  <2>4. CASE user[x] \notin Users
    <3>1. ~Met(t, x) /\ ~Unmet(t, x)
      BY <2>4, Known
    <3> QED
      BY <2>1, <3>1 DEF Steady, PairInv
  <2> QED
    BY <2>2, <2>3, <2>4
<1> QED
  BY <1>1, <1>2 DEF Shows

\* A packet about s is the last one about its user, and changes nothing about others.
LEMMA TellSame ==
  ASSUME ViewTyped, NEW t \in Conns, NEW s \in Conns, NEW ts, Tell(ts, s), user[s] \in Users,
         Later(view[t], view'[t]), Follows(t)', t \in ts \/ view'[t] = view[t]
  PROVE  /\ \A x \in Users \ {user[s]} : Latest(t)'[x] = Latest(t)[x]
         /\ \/ Latest(t)'[user[s]] = s
            \/ view'[t] = view[t] /\ Latest(t)' = Latest(t)
<1>1. view'[t].phase \in {"waiting", "connected"}
  BY DEF Follows, Watching, Reading
<1>2. told'[t] = IF t \in ts THEN [told[t] EXCEPT ![user[s]] = s] ELSE told[t]
  BY <1>1 DEF Tell
<1>3. told[t] \in [Users -> Conns \cup {NoConn}]
  BY DEF ViewTyped
<1>4. CASE view'[t].phase = "waiting"
  <2>1. view'[t] = view[t]
    BY <1>4 DEF Later
  <2> QED
    BY <1>4, <2>1 DEF Latest
<1>5. CASE view'[t].phase = "connected"
  <2>1. Latest(t)' = told'[t] /\ Latest(t) = told[t]
    BY <1>5 DEF Latest, Later
  <2>2. CASE t \in ts
    BY <1>2, <1>3, <2>1, <2>2
  <2>3. CASE t \notin ts
    BY <1>2, <2>1, <2>3
  <2> QED
    BY <2>2, <2>3
<1> QED
  BY <1>1, <1>4, <1>5

-------------------------------------------------------------------------------
(* ViewFollows: the steps that tell nobody anything.                            *)

LEMMA FadesFollow ==
  ASSUME ViewTyped, SessInv, LinkInv, FollowInv, Fades,
         UNCHANGED <<view, response, left, owed>>,
         \A t \in Conns : Follows(t)' => told'[t] = told[t]
  PROVE  FollowInv'
<1>a. UNCHANGED <<view, response, left, owed>> /\ ViewPhases
  BY DEF LinkInv
<1> SUFFICES ASSUME ~stale', NEW t \in Conns, Follows(t)' PROVE Shows(t)'
  BY DEF FollowInv
<1>1. UNCHANGED <<user, chan, auth, acc, accTodo, channels, swpc, sw, asked>> /\ ~stale
  BY DEF Fades
<1>2. user[t] \in Users
  <2>1. view[t].phase = "connected" \/ auth[t] \in {"snap", "reply"}
    BY <1>a, <1>1 DEF Follows, Watching, Reading
  <2> QED
    BY <1>a, <2>1, Known
<1>3. Follows(t)
  <2>1. online'[user[t]] = t => online[user[t]] = t
    BY <1>2 DEF Fades, ViewTyped
  <2> QED
    BY <1>a, <1>1, <2>1 DEF Follows, Watching, Reading, Fades
<1>4. Table(t)' = Table(t) /\ Latest(t)' = Latest(t)
  BY <1>a DEF Table, Latest
<1>5. \A s \in Conns : Steady(t, s)
  BY <1>a, <1>1 DEF Steady, Unmet, Met, EnteredProto, Told, Seen, MayShow
<1>6. \A s \in Conns : finpc'[s] = "none" => finpc[s] = "none"
  BY DEF Fades
<1> QED
  BY <1>1, <1>3, <1>4, <1>5, <1>6, SteadyFollower DEF FollowInv

LEMMA SwitchMovesFollow ==
  ASSUME ViewTyped, SessInv, LinkInv, FollowInv, NEW s \in Conns, SwitchMoves(s),
         UNCHANGED clientVars
  PROVE  FollowInv'
<1>a. UNCHANGED <<view, response, left, owed, told>> /\ ViewPhases
  BY DEF clientVars, LinkInv
<1> SUFFICES ASSUME ~stale', NEW t \in Conns, Follows(t)' PROVE Shows(t)'
  BY DEF FollowInv
<1>1. /\ UNCHANGED <<link, user, auth, acc, accTodo, online, channels, asked, finpc>>
      /\ ~stale
  BY DEF SwitchMoves
<1>2. Follows(t) /\ Table(t)' = Table(t) /\ Latest(t)' = Latest(t)
  BY <1>a, <1>1 DEF Follows, Watching, Reading, Table, Latest
<1>3. user[t] \in Users
  BY <1>a, <1>2, Known
<1>4. ASSUME NEW x \in Conns PROVE Steady(t, x)
  <2>1. /\ Unmet(t, x)' = Unmet(t, x) /\ Met(t, x)' = Met(t, x)
        /\ \A c \in Channels : Seen(t, c)' = Seen(t, c)
    BY <1>1 DEF Unmet, Met, EnteredProto, Seen
  <2>2. CASE x # s \/ UNCHANGED <<swpc, sw, chan>>
    <3>1. swpc'[x] = swpc[x] /\ sw'[x] = sw[x] /\ chan'[x] = chan[x]
      BY <2>2 DEF SwitchMoves
    <3>2. Told(t, x)' = Told(t, x) /\ MayShow(t, x)' = MayShow(t, x)
      BY <1>a, <1>1, <3>1 DEF Told, MayShow
    <3> QED
      BY <2>1, <3>1, <3>2 DEF Steady, ViewTyped
  <2>3. CASE x = s /\ swpc[s] = "refuse" /\ swpc'[s] = "idle" /\ chan'[s] = chan[s]
    <3>1. Told(t, x) /\ Told(t, x)'
      BY <2>3 DEF Told
    <3> QED
      BY <2>1, <2>3, <3>1 DEF Steady, MayShow, ViewTyped
  <2>4. CASE /\ x = s /\ ~Told(t, x) /\ ~Told(t, x)' /\ sw'[s].to = sw[s].to
    BY <1>a, <1>1, <2>1, <2>4 DEF Steady, MayShow
  <2> QED
    BY <1>1, <1>3, <2>2, <2>3, <2>4 DEF SwitchMoves, MidSwitch, Told
<1> QED
  BY <1>1, <1>2, <1>4, SteadyFollower DEF FollowInv

\* Steps of a login that tell nobody of it.
LEMMA LoginFollow ==
  ASSUME ViewTyped, SessInv, LinkInv, FollowInv, NEW s \in Conns,
         Accept(s) \/ AuthInsert(s) \/ AuthPushClients(s) \/ AuthKeepAlive(s),
         UNCHANGED clientVars
  PROVE  FollowInv'
<1> USE DEF sessVars, accVars, rosterVars, swVars, finVars, history
<1>a. UNCHANGED <<view, response, left, owed, told>> /\ ViewPhases
  BY DEF clientVars, LinkInv
<1>1. /\ UNCHANGED <<user, chan, channels, swpc, sw, asked, finpc, stale>>
      /\ \A t \in Conns \ {s} : auth'[t] = auth[t] /\ link'[t] = link[t]
  BY DEF Accept, AuthInsert, AuthPushClients, AuthKeepAlive, ViewTyped
<1>2. acc \in {s, NoConn} /\ acc' \in {s, NoConn} /\ auth'[s] \notin {"snap", "reply", "bcast"}
      /\ (acc = s => auth[s] \notin {"snap", "reply", "bcast"})
  BY DEF Accept, AuthInsert, AuthPushClients, AuthKeepAlive, Return, ViewTyped
<1>3. ASSUME NEW t \in Conns, Follows(t)' PROVE Follows(t)
  <2>1. Watching(t)'
    BY <1>2, <1>3 DEF Follows, Reading, ViewTyped
  <2>2. auth[t] \in {"ka", "done"}
    BY <1>a, <2>1 DEF Watching, ViewPhases
  <2>3. link[t] = "up"
    BY <1>1, <2>1, <2>2 DEF Watching, Accept, AuthInsert, AuthPushClients, AuthKeepAlive,
       SessInv
  <2>4. user[t] \in Users
    BY <1>a, <2>1, Known DEF Watching
  <2>5. online[user[t]] = t
    <3>1. online'[user[t]] = t
      BY <1>1, <2>1 DEF Watching
    <3>2. CASE AuthInsert(s)
      <4>1. t # s
        BY <2>2, <3>2 DEF AuthInsert
      <4> QED
        BY <2>4, <3>1, <3>2, <4>1 DEF AuthInsert, ViewTyped
    <3>3. CASE ~AuthInsert(s)
      BY <3>1, <3>3 DEF Accept, AuthPushClients, AuthKeepAlive
    <3> QED
      BY <3>2, <3>3
  <2> QED
    BY <1>a, <1>1, <2>1, <2>3, <2>5 DEF Follows, Watching
<1>4. ASSUME NEW t \in Conns, NEW x \in Conns PROVE Steady(t, x)
  <2>1. Told(t, x)' = Told(t, x) /\ MayShow(t, x)' = MayShow(t, x)
    BY <1>a, <1>1 DEF Told, MayShow
  <2>2. \A c \in Channels : Seen(t, c)' => Seen(t, c)
    BY <1>1, <1>2 DEF Seen, ViewTyped
  <2>3. ~Unmet(t, x)'
    BY <1>2 DEF Unmet, ViewTyped
  <2>4. Met(t, x)' => Met(t, x)
    <3>1. CASE x # s
      BY <1>1, <1>2, <3>1 DEF Met, EnteredProto, ViewTyped
    <3>2. CASE x = s
      BY <3>2 DEF Met, EnteredProto, Accept, AuthInsert, AuthPushClients, AuthKeepAlive,
         ViewTyped
    <3> QED
      BY <3>1, <3>2
  <2> QED
    BY <1>1, <2>1, <2>2, <2>3, <2>4 DEF Steady, ViewTyped
<1> SUFFICES ASSUME ~stale', NEW t \in Conns, Follows(t)' PROVE Shows(t)'
  BY DEF FollowInv
<1>5. Shows(t)
  BY <1>1, <1>3 DEF FollowInv
<1>6. Table(t)' = Table(t) /\ Latest(t)' = Latest(t)
  BY <1>a DEF Table, Latest
<1> QED
  BY <1>1, <1>4, <1>5, <1>6, SteadyFollower

\* A login that is refused was never announced.
LEMMA RefusedFollow ==
  ASSUME ViewTyped, SessInv, LinkInv, FollowInv, NEW s \in Conns, LoginRefused(s)
  PROVE  FollowInv'
<1> USE DEF sessVars, accVars, rosterVars, swVars, finVars, history
<1>a. /\ ViewPhases
      /\ UNCHANGED <<response, left, owed, told, user, chan, online, channels, swpc, sw, asked,
                     stale>>
      /\ acc = s /\ auth[s] = "recv" /\ acc' = NoConn
      /\ auth' = [auth EXCEPT ![s] = "rejected"]
      /\ \A t \in Conns \ {s} : view'[t] = view[t] /\ link'[t] = link[t] /\ finpc'[t] = finpc[t]
      /\ view'[s].phase = "connected" => view[s].phase = "connected"
      /\ finpc'[s] = "none" => finpc[s] = "none"
      /\ NoConn \notin Conns
  BY DEF LinkInv, LoginRefused, AuthReject, Return, HandleAuthFailure, ViewTyped, View, Refusals
<1> SUFFICES ASSUME ~stale', NEW t \in Conns, Follows(t)' PROVE Shows(t)'
  BY DEF FollowInv
<1>1. Watching(t)' /\ t # s
  BY <1>a DEF Follows, Reading, Watching, ViewPhases
<1>2. Follows(t) /\ Table(t)' = Table(t) /\ Latest(t)' = Latest(t)
  BY <1>a, <1>1 DEF Follows, Watching, Table, Latest
<1>3. ASSUME NEW x \in Conns PROVE Steady(t, x)
  BY <1>a, <1>1 DEF Steady, Unmet, Met, EnteredProto, Told, Seen, MayShow, ViewTyped
<1> QED
  BY <1>a, <1>2, <1>3, SteadyFollower DEF FollowInv

\* A session is pushed to its last list and its snapshot begins, with nothing in it.
LEMMA PushFollow ==
  ASSUME ViewTyped, SessInv, LinkInv, FollowInv, NEW s \in Conns, AuthPushProto(s),
         UNCHANGED clientVars
  PROVE  FollowInv'
<1> USE DEF sessVars, accVars, rosterVars, swVars, finVars, history
<1>a. /\ UNCHANGED <<view, response, left, owed, told>> /\ ViewPhases /\ ResponseInv
      /\ UNCHANGED <<user, chan, link, online, channels, swpc, sw, asked, finpc, stale, acc>>
      /\ acc = s /\ auth[s] = "pushp" /\ NoConn \notin Conns
  BY DEF clientVars, LinkInv, AuthPushProto, ViewTyped
<1>b. \/ UNCHANGED <<auth, accTodo>>
      \/ /\ auth' = [auth EXCEPT ![s] = "snap"]
         /\ accTodo' = {c \in Channels : channels[c] = "live"}
  BY DEF AuthPushProto
<1> SUFFICES ASSUME ~stale', NEW t \in Conns, Follows(t)' PROVE Shows(t)'
  BY DEF FollowInv
<1>1. CASE UNCHANGED <<auth, accTodo>> \/ t # s
  <2>1. Follows(t) /\ Table(t)' = Table(t) /\ Latest(t)' = Latest(t)
    BY <1>a, <1>b, <1>1 DEF Follows, Watching, Reading, Table, Latest
  <2>2. ASSUME NEW x \in Conns PROVE Steady(t, x)
    BY <1>a, <1>b, <1>1 DEF Steady, Unmet, Met, EnteredProto, Told, Seen, MayShow, ViewTyped
  <2> QED
    BY <1>a, <2>1, <2>2, SteadyFollower DEF FollowInv
<1>2. CASE t = s /\ auth' = [auth EXCEPT ![s] = "snap"]
                 /\ accTodo' = {c \in Channels : channels[c] = "live"}
  <2>1. view[s].phase = "waiting"
    BY <1>a, <1>2 DEF Follows, Watching, Reading, ViewPhases
  <2>2. response = EmptyLists
    BY <1>a DEF ResponseInv
  <2>3. Table(s)' = EmptyLists
    BY <1>a, <2>1, <2>2 DEF Table
  <2>4. \A u : \A d \in Channels : u \notin Table(s)'.members[d]
    BY <2>3 DEF EmptyLists
  <2>5. NoStranger(s)'
    BY <2>4 DEF NoStranger
  <2>6. \A c \in Channels : ~Seen(s, c)'
    BY <1>a, <1>2 DEF Seen, ViewTyped
  <2>7. \A x \in Conns : PairInv(s, x)'
    BY <1>a, <2>4, <2>6 DEF PairInv, ViewTyped
  <2> QED
    BY <1>2, <2>5, <2>7 DEF Shows
<1> QED
  BY <1>b, <1>1, <1>2

\* A switch begins: from now on its user may show in two channels.
LEMMA RequestFollow ==
  ASSUME ViewTyped, SessInv, LinkInv, FollowInv, NEW s \in Conns, NEW c \in Channels,
         StartSwitch(s, c)
  PROVE  FollowInv'
<1> USE DEF sessVars, accVars, rosterVars, swVars, finVars, history
<1>a. /\ UNCHANGED <<view, response, owed, told>> /\ ViewPhases /\ OwedInv
      /\ UNCHANGED <<user, chan, link, online, channels, auth, acc, accTodo, finpc, stale>>
      /\ left'[s] = chan[s] /\ swpc[s] = "idle" /\ swpc'[s] \in {"refuse", "findc"}
      /\ \A x \in Conns \ {s} : left'[x] = left[x] /\ swpc'[x] = swpc[x] /\ sw'[x] = sw[x]
                                /\ asked'[x] = asked[x]
      /\ asked'[s] # 0
  BY DEF LinkInv, StartSwitch, SwitchRequest, ViewTyped
<1> SUFFICES ASSUME ~stale', NEW t \in Conns, Follows(t)' PROVE Shows(t)'
  BY DEF FollowInv
<1>1. Follows(t) /\ Table(t)' = Table(t) /\ Latest(t)' = Latest(t)
  BY <1>a DEF Follows, Watching, Reading, Table, Latest
<1>2. user[t] \in Users
  BY <1>a, <1>1, Known
<1>3. ASSUME NEW x \in Conns PROVE Steady(t, x)
  <2>1. /\ Unmet(t, x)' = Unmet(t, x) /\ Met(t, x)' = Met(t, x)
        /\ \A d \in Channels : Seen(t, d)' = Seen(t, d)
    BY <1>a DEF Unmet, Met, EnteredProto, Seen
  <2>2. CASE x # s
    BY <1>a, <2>1, <2>2 DEF Steady, Told, MayShow, ViewTyped
  <2>3. CASE x = s
    <3>1. Told(t, s) /\ MayShow(t, s) = {chan[s]}
      BY <1>a DEF Told, MayShow
    <3>2. owed'[s] # user'[t]
      BY <1>a, <1>2 DEF OwedInv, ViewTyped
    <3>3. chan[s] \in MayShow(t, s)'
      BY <1>a, <3>2 DEF MayShow
    <3> QED
      BY <1>a, <2>1, <2>3, <3>1, <3>3 DEF Steady, ViewTyped
  <2> QED
    BY <2>2, <2>3
<1> QED
  BY <1>a, <1>1, <1>3, SteadyFollower DEF FollowInv

\* No session is in a channel that is only just created.
LEMMA ChannelFollow ==
  ASSUME ViewTyped, SessInv, LinkInv, FollowInv, NEW c \in Channels,
         CreateChannel(c) \/ DeleteChannel(c), UNCHANGED clientVars
  PROVE  FollowInv'
<1> USE DEF sessVars, accVars, rosterVars, swVars, finVars, history
<1>a. /\ UNCHANGED <<view, response, left, owed, told>> /\ ViewPhases /\ ChannelInv
      /\ UNCHANGED <<user, chan, link, online, swpc, sw, auth, acc, accTodo, finpc, stale, asked>>
      /\ \A d \in Channels : channels'[d] = "live" => channels[d] \in {"live", "absent"}
  BY DEF clientVars, LinkInv, CreateChannel, DeleteChannel, ViewTyped
<1> SUFFICES ASSUME ~stale', NEW t \in Conns, Follows(t)' PROVE Shows(t)'
  BY DEF FollowInv
<1>1. Follows(t) /\ Table(t)' = Table(t) /\ Latest(t)' = Latest(t)
  BY <1>a DEF Follows, Watching, Reading, Table, Latest
<1>3. ASSUME NEW x \in Conns PROVE Steady(t, x)
  <2>1. /\ Unmet(t, x)' = Unmet(t, x) /\ Met(t, x)' = Met(t, x)
        /\ Told(t, x)' = Told(t, x) /\ MayShow(t, x)' = MayShow(t, x)
    BY <1>a DEF Unmet, Met, EnteredProto, Told, MayShow
  <2>2. Met(t, x) => channels[chan[x]] # "absent"
    BY <1>a, Known DEF ChannelInv, ViewTyped
  <2>3. Met(t, x) => (Seen(t, chan[x])' => Seen(t, chan[x]))
    BY <1>a, <2>2 DEF Seen, ViewTyped
  <2> QED
    BY <1>a, <2>1, <2>3 DEF Steady
<1> QED
  BY <1>a, <1>1, <1>3, SteadyFollower DEF FollowInv

\* A login passes the AlreadyOnline test: nobody shows a user without a session.
LEMMA AcceptFollow ==
  ASSUME ViewTyped, SessInv, LinkInv, FollowInv, NEW s \in Conns, NEW u \in Users,
         AuthAccept(s, u), UNCHANGED clientVars
  PROVE  FollowInv'
<1> USE DEF sessVars, accVars, rosterVars, swVars, finVars, history
<1>a. /\ UNCHANGED <<view, response, left, owed, told>> /\ ViewPhases
      /\ UNCHANGED <<link, online, channels, swpc, sw, asked, finpc, stale, acc>>
      /\ acc = s /\ auth[s] = "recv" /\ user[s] = NoUser /\ NoUser \notin Users
  BY DEF clientVars, LinkInv, AuthAccept, SessInv, ViewTyped
<1> SUFFICES ASSUME ~stale', NEW t \in Conns, Follows(t)' PROVE Shows(t)'
  BY DEF FollowInv
<1>1. CASE UNCHANGED <<user, chan, auth, accTodo>>
  <2>1. Follows(t) /\ Table(t)' = Table(t) /\ Latest(t)' = Latest(t)
    BY <1>a, <1>1 DEF Follows, Watching, Reading, Table, Latest
  <2>2. \A x \in Conns : Steady(t, x)
    BY <1>a, <1>1 DEF Steady, Unmet, Met, EnteredProto, Told, Seen, MayShow
  <2> QED
    BY <1>a, <1>1, <2>1, <2>2, SteadyFollower DEF FollowInv
<1>2. CASE /\ user' = [user EXCEPT ![s] = u] /\ chan' = [chan EXCEPT ![s] = Default]
           /\ auth' = [auth EXCEPT ![s] = "bcast"] /\ accTodo' = Users
  <2>1. /\ user'[s] = u /\ auth'[s] = "bcast"
        /\ \A x \in Conns \ {s} : user'[x] = user[x] /\ chan'[x] = chan[x] /\ auth'[x] = auth[x]
    BY <1>2 DEF ViewTyped
  <2>2. t # s /\ Watching(t)
    BY <1>a, <2>1 DEF Follows, Watching, Reading, ViewPhases
  <2>3. Shows(t) /\ user[t] \in Users /\ Table(t)' = Table(t) /\ Latest(t)' = Latest(t)
    BY <1>a, <2>2, Known DEF FollowInv, Follows, Table, Latest
  <2>4. NoStranger(t)'
    <3> SUFFICES ASSUME NEW v \in Users, \A x \in Conns : user'[x] # v
                 PROVE  \A d \in Channels : v \notin Table(t)'.members[d]
      BY DEF NoStranger
    <3>1. \A x \in Conns : user[x] # v
      BY <1>a, <2>1
    <3> QED
      BY <2>3, <3>1 DEF Shows, NoStranger
  <2>5. PairInv(t, s)'
    <3>1. ~Met(t, s)'
      BY <1>a, <1>2, <2>1, <2>2, <2>3 DEF Met, EnteredProto
    <3>2. ASSUME Alone(s)' PROVE \A d \in Channels : u \notin Table(t)'.members[d]
      <4>1. \A x \in Conns : user[x] # u
        BY <1>a, <2>1, <3>2 DEF Alone, Others
      <4> QED
        BY <2>3, <4>1 DEF Shows, NoStranger
    <3> QED
      BY <2>1, <3>1, <3>2 DEF PairInv
  <2>6. ASSUME NEW x \in Conns \ {s}, finpc'[x] = "none" PROVE PairInv(t, x)'
    <3>1. /\ ~Unmet(t, x)' /\ (Met(t, x)' => Met(t, x)) /\ user'[x] = user[x] /\ chan'[x] = chan[x]
          /\ Told(t, x)' = Told(t, x) /\ MayShow(t, x)' = MayShow(t, x)
          /\ \A c \in Channels : Seen(t, c)' = Seen(t, c)
      BY <1>a, <2>1, <2>2 DEF Unmet, Met, EnteredProto, Told, MayShow, Seen
    <3>2. PairInv(t, x) /\ chan[x] \in Channels
      BY <1>a, <2>3, <2>6 DEF Shows, ViewTyped
    <3>3. CASE Met(t, x)
      <4>1. user[x] \in Users
        BY <1>a, <3>3, Known DEF LinkInv
      <4>2. Others(x) \subseteq Others(x)'
        BY <1>a, <2>1, <4>1 DEF Others
      <4>3. Alone(x)' => Alone(x)
        BY <4>2 DEF Alone
      <4> QED
        BY <2>3, <3>1, <3>2, <4>3 DEF PairInv
    <3>4. CASE ~Met(t, x)
      BY <3>1, <3>4 DEF PairInv
    <3> QED
      BY <3>3, <3>4
  <2> QED
    BY <2>4, <2>5, <2>6 DEF Shows
<1> QED
  BY <1>1, <1>2 DEF AuthAccept

\* The encoding of a channel meets the sessions that stand in it, and nobody else.
LEMMA ListedSessions ==
  ASSUME ProtoLedger, TypeRoster, ~stale, NEW c \in Channels, NEW u \in Users
  PROVE  u \in ToSet(proto[c]) <=> \E x \in Conns : user[x] = u /\ HasProtoEntry(x, c)
<1> DEFINE own == {x \in Conns : user[x] = u /\ HasProtoEntry(x, c)}
           places == {i \in DOMAIN proto[c] : proto[c][i] = u}
<1>1. IsFiniteSet(own) /\ Cardinality(places) = Cardinality(own)
  <2>1. ProtoOwn[c][u] = own
    BY DEF ProtoOwn
  <2>2. IsFiniteSet(ProtoOwn[c][u]) /\ Occurrences(proto[c], u) = Cardinality(ProtoOwn[c][u])
    BY DEF ProtoLedger, Exact
  <2> QED
    BY <2>1, <2>2 DEF Occurrences
<1>2. IsFiniteSet(places)
  <2>1. proto[c] \in Seq(Users)
    BY DEF TypeRoster
  <2>2. Len(proto[c]) \in Nat /\ DOMAIN proto[c] = 1..Len(proto[c])
    BY <2>1
  <2>3. IsFiniteSet(DOMAIN proto[c])
    BY <2>2, FS_Interval
  <2> QED
    BY <2>3, FS_Subset
<1> HIDE DEF own, places
<1>3. own = {} <=> places = {}
  BY <1>1, <1>2, FS_EmptySet
<1> QED
  BY <1>3 DEF own, places, ToSet

LEMMA SnapshotFollow ==
  ASSUME ViewTyped, SessInv, LinkInv, FollowInv, ProtoLedger, TypeRoster,
         NEW s \in Conns, LoginSnapshot(s)
  PROVE  FollowInv'
<1> USE DEF sessVars, accVars, rosterVars, swVars, finVars, history
<1>a. /\ UNCHANGED <<view, left, owed, told, user, chan, link, online, channels, swpc, sw, asked,
                     finpc, stale, acc>>
      /\ ViewPhases /\ OwedInv /\ LeftInv
      /\ acc = s /\ auth[s] = "snap"
      /\ \A x \in Conns \ {s} : auth'[x] = auth[x]
      /\ auth'[s] \in {"snap", "reply"}
  BY DEF LinkInv, LoginSnapshot, AuthSnapshot, ViewTyped
<1>b. \/ accTodo = {} /\ response' = response /\ auth'[s] = "reply"
      \/ \E c \in accTodo \cap Channels :
           /\ auth' = auth /\ accTodo' = accTodo \ {c}
           /\ response' = WithChannel(response, c, ToSet(proto[c]))
  <2>1. CASE accTodo = {} /\ auth' = [auth EXCEPT ![s] = "reply"] /\ accTodo' = accTodo
    BY <2>1 DEF LoginSnapshot, ViewTyped
  <2>2. ASSUME NEW c \in accTodo \cap Channels, auth' = auth, accTodo' = accTodo \ {c}
        PROVE  response' = WithChannel(response, c, ToSet(proto[c]))
    <3>1. accTodo \ accTodo' = {c} /\ accTodo' # accTodo
      BY <2>2
    <3> QED
      BY <3>1 DEF LoginSnapshot
  <2> QED
    BY <2>1, <2>2 DEF LoginSnapshot, AuthSnapshot
<1> SUFFICES ASSUME ~stale', NEW t \in Conns, Follows(t)' PROVE Shows(t)'
  BY DEF FollowInv
<1>1. \A x \in Conns : Met(t, x)' = Met(t, x) /\ ~Unmet(t, x)' /\ Told(t, x)' = Told(t, x)
                       /\ MayShow(t, x)' = MayShow(t, x)
  BY <1>a DEF Met, EnteredProto, Unmet, Told, MayShow
<1>2. Follows(t) /\ Shows(t) /\ Latest(t)' = Latest(t)
  BY <1>a DEF Follows, Watching, Reading, FollowInv, Latest
<1>3. CASE t # s
  <2>1. Table(t)' = Table(t)
    BY <1>a, <1>3 DEF Follows, Watching, Reading, Table
  <2>2. \A x \in Conns : Steady(t, x)
    BY <1>a, <1>1, <1>3 DEF Steady, Seen
  <2> QED
    BY <1>a, <1>2, <2>1, <2>2, SteadyFollower
<1>4. CASE accTodo = {} /\ response' = response
  <2>1. Table(t)' = Table(t)
    BY <1>a, <1>4 DEF Table
  <2>2. \A x \in Conns : Steady(t, x)
    BY <1>a, <1>1, <1>4 DEF Steady, Seen
  <2> QED
    BY <1>a, <1>2, <2>1, <2>2, SteadyFollower
<1>5. ASSUME t = s, NEW c \in accTodo \cap Channels, auth' = auth, accTodo' = accTodo \ {c},
             response' = WithChannel(response, c, ToSet(proto[c]))
      PROVE  Shows(t)'
  <2>1. Reading(t)
    BY <1>a, <1>2, <1>5 DEF Follows, Watching, ViewPhases
  <2>2. /\ Table(t) = response /\ Table(t)' = response'
        /\ \A u \in Users : Latest(t)[u] = NoConn /\ Latest(t)'[u] = NoConn
    BY <1>a, <2>1 DEF Reading, Table, Latest
  <2>3. /\ response'.members[c] = ToSet(proto[c])
        /\ \A d \in Channels \ {c} : response'.members[d] = response.members[d]
        /\ \A u \in Users : response'.known[u] = IF u \in ToSet(proto[c]) THEN c ELSE response.known[u]
    BY <1>5 DEF WithChannel, ViewTyped, Lists
  <2>4. \A u \in Users : u \in ToSet(proto[c]) <=> \E x \in Conns : user[x] = u /\ HasProtoEntry(x, c)
    BY <1>a, ListedSessions
  <2>5. NoStranger(t)'
    BY <1>a, <1>2, <2>2, <2>3, <2>4 DEF NoStranger, Shows
  <2>6. ASSUME NEW x \in Conns, finpc'[x] = "none" PROVE PairInv(t, x)'
    <3>a. /\ PairInv(t, x) /\ chan[x] \in Channels /\ sw[x].to \in Channels
          /\ left[x] \in Channels
          /\ user'[x] = user[x] /\ Others(x)' = Others(x) /\ chan'[x] = chan[x]
      BY <1>a, <1>2, <2>6 DEF Shows, ViewTyped, Others
    <3>b. Alone(x)' <=> Alone(x)
      BY <1>a, <3>a DEF Alone, Others
    <3>c. \A d \in Channels \ {c} : Seen(t, d)' => Seen(t, d)
      BY <1>a, <1>5 DEF Seen
    <3>1. CASE ~Met(t, x)
      BY <1>1, <3>1 DEF PairInv
    <3>2. CASE Met(t, x)
      <4>1. user[x] \in Users /\ EnteredProto(x) /\ ~LeftProto(x)
        BY <1>a, <2>6, <3>2, Known DEF Met, EnteredProto, LeftProto
      <4>2. owed[x] # user[t]
        <5>1. user[t] \in Users /\ online[user[t]] = t /\ view[t].phase = "waiting"
          BY <1>a, <2>1, Known DEF Reading
        <5> QED
          BY <1>a, <5>1 DEF OwedInv, ViewTyped
      <4>3. Told(t, x) => (HasProtoEntry(x, c) <=> c = chan[x])
        BY <4>1 DEF Told, HasProtoEntry, ProtoAt, BetweenProto
      <4>4. HasProtoEntry(x, c) => c \in MayShow(t, x)
        BY <1>a, <4>2 DEF MayShow, Told, HasProtoEntry, ProtoAt, BetweenProto, LeftInv,
           ViewTyped, SwPc
      <4>5. Alone(x) => (user[x] \in ToSet(proto[c]) <=> HasProtoEntry(x, c))
        BY <2>4, <4>1 DEF Alone, Others
      <4>6. HasProtoEntry(x, c) => user[x] \in ToSet(proto[c])
        BY <2>4, <4>1
      <4>7. ASSUME Alone(x)
            PROVE  \A d \in Channels \ MayShow(t, x) : user[x] \notin Table(t)'.members[d]
        BY <2>2, <2>3, <3>2, <3>a, <4>4, <4>5, <4>7 DEF PairInv
      <4>8. ASSUME Told(t, x), Seen(t, chan[x])'
            PROVE  /\ user[x] \in Table(t)'.members[chan[x]]
                   /\ Alone(x) => Table(t)'.known[user[x]] = chan[x]
        <5>1. CASE chan[x] = c
          BY <2>2, <2>3, <4>1, <4>3, <4>6, <4>8, <5>1
        <5>2. CASE chan[x] # c
          <6>1. Seen(t, chan[x])
            BY <1>a, <3>a, <3>c, <4>8, <5>2
          <6>2. Alone(x) => user[x] \notin ToSet(proto[c])
            BY <4>3, <4>5, <4>8, <5>2
          <6> QED
            BY <2>2, <2>3, <3>2, <3>a, <4>1, <4>8, <5>2, <6>1, <6>2 DEF PairInv
        <5> QED
          BY <5>1, <5>2
      <4> QED
        BY <1>1, <2>2, <3>a, <3>b, <4>1, <4>7, <4>8 DEF PairInv, ViewTyped
    <3> QED
      BY <3>1, <3>2
  <2> QED
    BY <2>5, <2>6 DEF Shows
<1> QED
  BY <1>b, <1>3, <1>4, <1>5

\* The client takes the response for its table.
LEMMA ReplyFollow ==
  ASSUME ViewTyped, SessInv, LinkInv, FollowInv, NEW s \in Conns, LoginReply(s)
  PROVE  FollowInv'
<1> USE DEF sessVars, accVars, rosterVars, swVars, finVars, history
<1>a. /\ UNCHANGED <<left, owed, user, chan, link, online, channels, swpc, sw, asked, finpc, stale>>
      /\ told' = [told EXCEPT ![s] = [u \in Users |-> NoConn]]
      /\ ViewPhases /\ acc = s /\ auth[s] = "reply" /\ acc' \in {s, NoConn}
      /\ \A x \in Conns \ {s} : auth'[x] = auth[x] /\ view'[x] = view[x]
      /\ IF link[s] = "up"
         THEN auth'[s] = "ka" /\ view'[s] = HandleAuthSuccess(view[s], response)
         ELSE auth'[s] = "reply" /\ view'[s] = view[s] /\ acc' = NoConn
      /\ NoConn \notin Conns
  BY DEF LinkInv, LoginReply, AuthReply, Return, ViewTyped
<1> SUFFICES ASSUME ~stale', NEW t \in Conns, Follows(t)' PROVE Shows(t)'
  BY DEF FollowInv
<1>1. \A x \in Conns : Steady(t, x)
  BY <1>a DEF Steady, Met, EnteredProto, Unmet, Told, MayShow, Seen, ViewTyped
<1>2. Watching(t)'
  BY <1>a DEF Follows, Reading
<1>3. Follows(t) /\ Table(t)' = Table(t) /\ Latest(t)' = Latest(t)
  <2>1. CASE t # s
    BY <1>a, <1>2, <2>1 DEF Follows, Watching, Table, Latest, ViewTyped
  <2>2. CASE t = s
    <3>1. link[s] = "up" /\ view'[s] = HandleAuthSuccess(view[s], response)
      BY <1>a, <1>2, <2>2 DEF Watching
    <3>2. view[s].phase = "waiting" /\ view'[s].lists = response /\ view'[s].phase = "connected"
      BY <1>2, <2>2, <3>1 DEF Watching, HandleAuthSuccess, Panicked, ViewTyped, View
    <3>3. Reading(s)
      BY <1>a, <1>2, <2>2, <3>1, <3>2 DEF Watching, Reading
    <3>4. Latest(s)' = Latest(s)
      BY <1>a, <3>2 DEF Latest, ViewTyped
    <3> QED
      BY <2>2, <3>2, <3>3, <3>4 DEF Follows, Table
  <2> QED
    BY <2>1, <2>2
<1> QED
  BY <1>a, <1>1, <1>3, SteadyFollower DEF FollowInv

-------------------------------------------------------------------------------
(* ViewFollows: the broadcasts.                                                 *)

\* A packet about u changes what a view shows of u, and nothing else.
Elsewhere(v, w, u) ==
  w.phase = "connected" =>
    /\ v.phase = "connected"
    /\ \A x \in Users \ {u} :
         /\ w.lists.known[x] = v.lists.known[x]
         /\ \A d \in Channels : x \in w.lists.members[d] <=> x \in v.lists.members[d]

LEMMA HandlersElsewhere ==
  ASSUME NEW v \in View, NEW u \in Users, NEW c \in Channels
  PROVE  /\ Elsewhere(v, HandleClientConnected(v, u), u)
         /\ Elsewhere(v, HandleClientDisconnected(v, u), u)
         /\ Elsewhere(v, HandleRemove(v, c, u), u)
         /\ Elsewhere(v, HandleAdd(v, c, u), u)
<1>a. ConfigDefault \in Channels
  BY ClientConstantsOK
<1>1. Elsewhere(v, HandleClientConnected(v, u), u)
  BY <1>a DEF Elsewhere, HandleClientConnected, Handled, Panicked, View, Lists
<1>2. Elsewhere(v, HandleClientDisconnected(v, u), u)
  BY DEF Elsewhere, HandleClientDisconnected, Panicked, View, Lists
<1>3. Elsewhere(v, HandleRemove(v, c, u), u)
  BY DEF Elsewhere, HandleRemove, Handled, Panicked, View, Lists
<1>4. Elsewhere(v, HandleAdd(v, c, u), u)
  BY DEF Elsewhere, HandleAdd, Panicked, View, Lists
<1> QED
  BY <1>1, <1>2, <1>3, <1>4

\* What a view shows of u itself.
LEMMA HandlersShow ==
  ASSUME NEW v \in View, NEW u \in Users, NEW c \in Channels, NEW w, w.phase = "connected"
  PROVE  /\ w = HandleClientConnected(v, u) =>
              /\ w.lists.known[u] = ConfigDefault /\ u \in w.lists.members[ConfigDefault]
              /\ \A d \in Channels \ {ConfigDefault} :
                   u \in w.lists.members[d] <=> u \in v.lists.members[d]
         /\ w = HandleClientDisconnected(v, u) =>
              \A d \in Channels : u \in v.lists.members[d] => u \in w.lists.members[d]
         /\ w = HandleRemove(v, c, u) =>
              /\ u \notin w.lists.members[c]
              /\ \A d \in Channels \ {c} : u \in w.lists.members[d] <=> u \in v.lists.members[d]
         /\ w = HandleAdd(v, c, u) =>
              /\ w.lists.known[u] = c /\ u \in w.lists.members[c]
              /\ \A d \in Channels \ {c} : u \in w.lists.members[d] <=> u \in v.lists.members[d]
<1>a. ConfigDefault \in Channels
  BY ClientConstantsOK
<1>1. w = HandleClientConnected(v, u) =>
              /\ w.lists.known[u] = ConfigDefault /\ u \in w.lists.members[ConfigDefault]
              /\ \A d \in Channels \ {ConfigDefault} :
                   u \in w.lists.members[d] <=> u \in v.lists.members[d]
  BY <1>a DEF HandleClientConnected, Handled, Panicked, View, Lists
<1>2. w = HandleClientDisconnected(v, u) =>
              \A d \in Channels : u \in v.lists.members[d] => u \in w.lists.members[d]
  BY DEF HandleClientDisconnected, Panicked, View, Lists
<1>3. w = HandleRemove(v, c, u) =>
              /\ u \notin w.lists.members[c]
              /\ \A d \in Channels \ {c} : u \in w.lists.members[d] <=> u \in v.lists.members[d]
  BY DEF HandleRemove, Handled, Panicked, View, Lists
<1>4. w = HandleAdd(v, c, u) =>
              /\ w.lists.known[u] = c /\ u \in w.lists.members[c]
              /\ \A d \in Channels \ {c} : u \in w.lists.members[d] <=> u \in v.lists.members[d]
  BY DEF HandleAdd, Panicked, View, Lists
<1> QED
  BY <1>1, <1>2, <1>3, <1>4

\* A client that goes on following has been connected, and goes by its view; or nothing
\* came for it.
LEMMA FollowerTable ==
  ASSUME ViewTyped, ViewPhases, NEW t \in Conns, Later(view[t], view'[t]),
         Follows(t)', response' = response, UNCHANGED <<user, online>>,
         link'[t] = "up" => link[t] = "up", finpc'[t] = "none" => finpc[t] = "none",
         Reading(t)' => acc = t /\ auth[t] \in {"snap", "reply"}
  PROVE  /\ Follows(t)
         /\ view'[t] = view[t] => Table(t)' = Table(t)
         /\ view'[t] # view[t] => /\ view[t].phase = "connected" /\ view'[t].phase = "connected"
                                  /\ Table(t) = view[t].lists /\ Table(t)' = view'[t].lists
<1>1. CASE Watching(t)'
  BY <1>1 DEF Watching, Follows, Table, Later
<1>2. CASE Reading(t)'
  <2>1. view'[t].phase = "waiting"
    BY <1>2 DEF Reading
  <2>2. view'[t] = view[t]
    BY <2>1 DEF Later
  <2> QED
    BY <1>2, <2>2 DEF Reading, Follows, Table
<1> QED
  BY <1>1, <1>2 DEF Follows

LEMMA ElsewhereSame ==
  ASSUME NEW t \in Conns, NEW u \in Users,
         \A x \in Users \ {u} : Latest(t)'[x] = Latest(t)[x],
         view'[t] = view[t] => Table(t)' = Table(t),
         view'[t] # view[t] => /\ view'[t].phase = "connected"
                               /\ Table(t) = view[t].lists /\ Table(t)' = view'[t].lists,
         view'[t] = view[t] \/ Elsewhere(view[t], view'[t], u)
  PROVE  \A x \in Users \ {u} : SameFor(t, x)
BY DEF SameFor, Elsewhere

LEMMA BroadcastFollow ==
  ASSUME ViewTyped, SessionPart, LinkInv, FollowInv, \A x \in Conns : LoginInv(x),
         ConfigDefault = Default, NEW s \in Conns, LoginBroadcast(s)
  PROVE  FollowInv'
<1> USE DEF sessVars, accVars, rosterVars, swVars, finVars, history
<1>a. /\ UNCHANGED <<response, left, owed, user, chan, link, online, channels, swpc, sw, asked,
                     finpc, stale>>
      /\ ViewPhases /\ OwedInv /\ SessInv
      /\ acc = s /\ auth[s] = "bcast" /\ acc' \in {s, NoConn} /\ NoConn \notin Conns
      /\ \A x \in Conns \ {s} : auth'[x] = auth[x]
      /\ auth'[s] \in {"bcast", "insert"}
      /\ auth'[s] = "insert" => accTodo = {} /\ accTodo' = {}
  BY DEF LinkInv, SessionPart, LoginBroadcast, AuthBroadcast, Return, ViewTyped
<1>b. user[s] \in Users /\ Default \in Channels /\ swpc[s] = "idle" /\ chan[s] = Default
  BY <1>a, ConstantsOK DEF SessInv, ViewTyped, LoginInv
<1>c. \A t \in Conns : view'[t] \in {view[t], HandleClientConnected(view[t], user[s])}
  BY DEF LoginBroadcast
<1>d. ASSUME NEW t \in Conns, acc' = s, online[user[t]] = t, user[t] \in accTodo \ accTodo'
      PROVE  view'[t] = HandleClientConnected(view[t], user[s])
  <2>1. t \in Reached(accTodo \ accTodo')
    BY <1>a, <1>d DEF Reached
  <2> QED
    BY <1>d, <2>1 DEF LoginBroadcast
<1> SUFFICES ASSUME ~stale', NEW t \in Conns, Follows(t)' PROVE Shows(t)'
  BY DEF FollowInv
<1>1. Watching(t)'
  BY <1>a DEF Follows, Reading
<1>2. view[t] \in View /\ (view[t].phase = "waiting" => view[t].lists = EmptyLists)
  BY <1>a DEF ViewTyped, ViewPhases
<1>3. Later(view[t], view'[t]) /\ (view'[t] = view[t] \/ Elsewhere(view[t], view'[t], user[s]))
  <2>1. Later(view[t], HandleClientConnected(view[t], user[s]))
    BY <1>b, <1>2, HandlersLater
  <2>2. Elsewhere(view[t], HandleClientConnected(view[t], user[s]), user[s])
    BY <1>b, <1>2, HandlersElsewhere
  <2> QED
    BY <1>c, <2>1, <2>2 DEF Later
<1>4. /\ Follows(t) /\ Table(t) = view[t].lists /\ Table(t)' = view'[t].lists
      /\ view[t].phase = "connected" /\ view'[t].phase = "connected"
  BY <1>a, <1>1, <1>3 DEF Watching, Follows, Table, Later
<1>5. Shows(t) /\ user[t] \in Users /\ online[user[t]] = t /\ t # s
  BY <1>a, <1>1, <1>4, Known DEF FollowInv, Watching, ViewPhases
<1>t. /\ \A x \in Users \ {user[s]} : Latest(t)'[x] = Latest(t)[x]
      /\ \/ Latest(t)'[user[s]] = s
         \/ view'[t] = view[t] /\ Latest(t)' = Latest(t)
  <2> DEFINE ts == Reached(IF acc' = s THEN accTodo \ accTodo' ELSE {})
  <2>1. Tell(ts, s) /\ (t \in ts \/ view'[t] = view[t])
    BY DEF LoginBroadcast
  <2> HIDE DEF ts
  <2> QED
    BY <1>b, <1>3, <2>1, TellSame
<1>6. \A x \in Users \ {user[s]} : SameFor(t, x)
  BY <1>b, <1>3, <1>4, <1>t, ElsewhereSame
<1>7. \A x \in Conns : Unmet(t, x)' = Unmet(t, x) /\ Met(t, x)' = Met(t, x) => Steady(t, x)
  <2>1. ASSUME NEW x \in Conns
        PROVE  Told(t, x)' = Told(t, x) /\ MayShow(t, x)' = MayShow(t, x)
    BY <1>a DEF Told, MayShow
  <2>2. \A c \in Channels : Seen(t, c)' => Seen(t, c)
    BY <1>a, <1>5 DEF Seen
  <2> QED
    BY <1>a, <2>1, <2>2 DEF Steady, ViewTyped
<1>8. ASSUME view'[t] = HandleClientConnected(view[t], user[s])
      PROVE  /\ Table(t)'.known[user[s]] = Default /\ user[s] \in Table(t)'.members[Default]
             /\ \A d \in Channels \ {Default} :
                  user[s] \in Table(t)'.members[d] <=> user[s] \in Table(t).members[d]
  <2>2. /\ view'[t].lists.known[user[s]] = Default
        /\ user[s] \in view'[t].lists.members[Default]
        /\ \A d \in Channels \ {Default} :
             user[s] \in view'[t].lists.members[d] <=> user[s] \in view[t].lists.members[d]
    BY <1>2, <1>4, <1>8, <1>b, HandlersShow
  <2> QED
    BY <1>4, <2>2
<1>9. Latest(t)'[user[s]] = s \/ SameFor(t, user[s])
  BY <1>4, <1>t DEF SameFor
<1>10. finpc'[s] = "none" => PairInv(t, s)'
  <2> SUFFICES ASSUME finpc[s] = "none" PROVE PairInv(t, s)'
    BY <1>a
  <2>1. PairInv(t, s) /\ (Alone(s)' <=> Alone(s))
    BY <1>a, <1>5 DEF Shows, Alone, Others
  <2>2. /\ Told(t, s) /\ Told(t, s)' /\ MayShow(t, s) = {Default} /\ MayShow(t, s)' = {Default}
    BY <1>a, <1>b DEF Told, MayShow
  <2>4. CASE user[t] \in accTodo /\ acc' = s /\ user[t] \notin accTodo'
    <3>1. view'[t] = HandleClientConnected(view[t], user[s])
      BY <1>5, <1>d, <2>4
    <3>2. ~Unmet(t, s)' /\ Unmet(t, s)
      BY <1>a, <2>4 DEF Unmet
    <3> QED
      BY <1>8, <1>a, <1>b, <2>1, <2>2, <3>1, <3>2 DEF PairInv
  <2>5. CASE ~(user[t] \in accTodo /\ acc' = s /\ user[t] \notin accTodo')
    <3>1. (Unmet(t, s)' => Unmet(t, s)) /\ (Met(t, s)' => Met(t, s))
      <4>1. accTodo' \subseteq accTodo
        BY DEF LoginBroadcast, AuthBroadcast, Return
      <4>2. ~EnteredProto(s)' /\ ~EnteredProto(s)
        BY <1>a DEF EnteredProto
      <4> QED
        BY <1>a, <2>5, <4>1, <4>2 DEF Unmet, Met
    <3>2. Seen(t, Default)' => Seen(t, Default)
      BY <1>a, <1>5 DEF Seen
    <3>3. view'[t] = view[t] /\ told'[t] = told[t]
      <4>1. CASE acc' = s /\ t \in Reached(accTodo \ accTodo')
        <5>1. PICK v \in accTodo \ accTodo' : online[v] = t
          BY <4>1 DEF Reached
        <5>2. v \in Users
          BY <5>1, <4>1, <1>a DEF LoginBroadcast, AuthBroadcast, Return
        <5>3. user[t] = v
          BY <1>a, <5>1, <5>2 DEF SessionPart, OnlineIsLive
        <5> QED
          BY <2>5, <4>1, <5>1, <5>3
      <4>2. CASE ~(acc' = s /\ t \in Reached(accTodo \ accTodo'))
        <5>1. t \notin Reached(IF acc' = s THEN accTodo \ accTodo' ELSE {})
          BY <4>2 DEF Reached
        <5> QED
          BY <5>1 DEF LoginBroadcast, Tell
      <4> QED
        BY <4>1, <4>2
    <3>4. SameFor(t, user[s])
      BY <1>4, <3>3 DEF SameFor, Latest
    <3>5. Steady(t, s)
      BY <1>a, <1>b, <2>2, <3>1, <3>2 DEF Steady
    <3> QED
      BY <1>a, <1>b, <2>1, <3>4, <3>5, PairSteady
  <2> QED
    BY <2>4, <2>5
<1>11. \A x \in Conns \ {s} : Steady(t, x)
  BY <1>7, <1>a DEF Unmet, Met, EnteredProto
<1> QED
  BY <1>5, <1>6, <1>9, <1>10, <1>11, <1>a, <1>b, ToldFollower

\* ClientDisconnected is about a session that is no longer followed.
LEMMA FarewellFollow ==
  ASSUME IInv, ViewTyped, SessInv, LinkInv, FollowInv, NEW s \in Conns, FarewellBroadcast(s)
  PROVE  FollowInv'
<1>a. /\ Fades /\ ViewPhases
      /\ UNCHANGED <<response, left, owed, user, online, acc, auth, asked, chan, stale>>
      /\ finpc[s] = "bcast" /\ finpc'[s] # "none" /\ user[s] \in Users
  <2>1. Fades
    BY FadeSteps DEF FarewellBroadcast
  <2>2. user[s] \in Users
    <3>1. finpc[s] = "bcast"
      BY DEF FarewellBroadcast, FinishBroadcast
    <3> QED
      BY <3>1, BusyUser
  <2> QED
    BY <2>1, <2>2 DEF FarewellBroadcast, FinishBroadcast, LinkInv, ViewTyped, sessVars, accVars,
       swVars, history
<1>b. Default \in Channels
  BY ConstantsOK
<1>c. \A t \in Conns : view'[t] \in {view[t], HandleClientDisconnected(view[t], user[s])}
  BY DEF FarewellBroadcast
<1> SUFFICES ASSUME ~stale', NEW t \in Conns, Follows(t)' PROVE Shows(t)'
  BY DEF FollowInv
<1>1. view[t] \in View /\ (view[t].phase = "waiting" => view[t].lists = EmptyLists)
  BY <1>a DEF ViewTyped, ViewPhases
<1>2. Later(view[t], view'[t]) /\ (view'[t] = view[t] \/ Elsewhere(view[t], view'[t], user[s]))
  <2>1. Later(view[t], HandleClientDisconnected(view[t], user[s]))
    BY <1>a, <1>b, <1>1, HandlersLater
  <2>2. Elsewhere(view[t], HandleClientDisconnected(view[t], user[s]), user[s])
    BY <1>a, <1>b, <1>1, HandlersElsewhere
  <2> QED
    BY <1>c, <2>1, <2>2 DEF Later
<1>3. /\ Follows(t)
      /\ view'[t] = view[t] => Table(t)' = Table(t)
      /\ view'[t] # view[t] => /\ view[t].phase = "connected" /\ view'[t].phase = "connected"
                               /\ Table(t) = view[t].lists /\ Table(t)' = view'[t].lists
  <2>1. Reading(t)' => acc = t /\ auth[t] \in {"snap", "reply"}
    BY <1>a DEF Reading
  <2> QED
    BY <1>a, <1>2, <2>1, FollowerTable DEF Fades
<1>t. /\ \A x \in Users \ {user[s]} : Latest(t)'[x] = Latest(t)[x]
      /\ \/ Latest(t)'[user[s]] = s
         \/ view'[t] = view[t] /\ Latest(t)' = Latest(t)
  <2> DEFINE ts == Reached(fin[s].todo \ fin'[s].todo)
  <2>1. Tell(ts, s) /\ (t \in ts \/ view'[t] = view[t])
    BY DEF FarewellBroadcast
  <2> HIDE DEF ts
  <2> QED
    BY <1>a, <1>2, <2>1, TellSame
<1>4. \A u \in Users \ {user[s]} : SameFor(t, u)
  BY <1>a, <1>2, <1>3, <1>t, ElsewhereSame
<1>5. Latest(t)'[user[s]] = s \/ SameFor(t, user[s])
  BY <1>3, <1>t DEF SameFor
<1>6. \A x \in Conns : Steady(t, x)
  BY <1>a DEF Fades, Steady, Unmet, Met, EnteredProto, Told, Seen, MayShow
<1>7. Shows(t) /\ \A x \in Conns : finpc'[x] = "none" => finpc[x] = "none"
  BY <1>a, <1>3 DEF Fades, FollowInv
<1> QED
  BY <1>a, <1>4, <1>5, <1>6, <1>7, ToldFollower

\* Remove: until Add follows, the client may show the user nowhere.
LEMMA RemoveFollow ==
  ASSUME ViewTyped, SessionPart, LinkInv, FollowInv, NEW s \in Conns, SendRemove(s)
  PROVE  FollowInv'
<1>a. /\ ViewPhases /\ UNCHANGED vars /\ UNCHANGED <<response, left>>
      /\ swpc[s] = "bcast" /\ owed[s] = NoUser
      /\ user[s] \in Users /\ left[s] \in Channels
      /\ NoUser \notin Users /\ NoConn \notin Conns /\ SessInv
  <2>1. ViewPhases /\ SessInv
    BY DEF LinkInv, SessionPart
  <2>2. /\ UNCHANGED vars /\ UNCHANGED <<response, left>>
        /\ swpc[s] = "bcast" /\ owed[s] = NoUser
    BY DEF SendRemove
  <2>3. user[s] \in Users
    BY <2>1, <2>2, BusyUser
  <2> QED
    BY <2>1, <2>2, <2>3 DEF ViewTyped
<1>b. PICK r \in sw[s].todo :
        /\ online[r] # NoConn /\ ~Unreachable(r) /\ owed' = [owed EXCEPT ![s] = r]
        /\ view' = [view EXCEPT ![online[r]] = HandleRemove(@, left[s], user[s])]
        /\ Tell({online[r]}, s)
  BY DEF SendRemove
<1>c. /\ r \in Users /\ online[r] \in Conns /\ user[online[r]] = r
      /\ view'[online[r]] = HandleRemove(view[online[r]], left[s], user[s])
      /\ \A t \in Conns \ {online[r]} : view'[t] = view[t] /\ told'[t] = told[t]
      /\ owed'[s] = r /\ \A x \in Conns \ {s} : owed'[x] = owed[x]
  BY <1>b DEF ViewTyped, SessionPart, OnlineIsLive, Tell
<1>d. /\ UNCHANGED <<user, chan, link, online, channels, swpc, sw, asked, finpc, stale, acc, auth,
                     accTodo>>
  BY <1>a DEF vars, sessVars, accVars, rosterVars, swVars, finVars, history
<1> SUFFICES ASSUME ~stale', NEW t \in Conns, Follows(t)' PROVE Shows(t)'
  BY DEF FollowInv
<1>1. view[t] \in View /\ (view[t].phase = "waiting" => view[t].lists = EmptyLists)
  BY <1>a DEF ViewTyped, ViewPhases
<1>2. Later(view[t], view'[t]) /\ (view'[t] = view[t] \/ Elsewhere(view[t], view'[t], user[s]))
  <2>1. Later(view[t], HandleRemove(view[t], left[s], user[s]))
    BY <1>a, <1>1, HandlersLater
  <2>2. Elsewhere(view[t], HandleRemove(view[t], left[s], user[s]), user[s])
    BY <1>a, <1>1, HandlersElsewhere
  <2> QED
    BY <1>c, <2>1, <2>2 DEF Later
<1>3. /\ Follows(t)
      /\ view'[t] = view[t] => Table(t)' = Table(t)
      /\ view'[t] # view[t] => /\ view[t].phase = "connected" /\ view'[t].phase = "connected"
                               /\ Table(t) = view[t].lists /\ Table(t)' = view'[t].lists
  <2>1. Reading(t)' => acc = t /\ auth[t] \in {"snap", "reply"}
    BY <1>d DEF Reading
  <2> QED
    BY <1>a, <1>d, <1>2, <2>1, FollowerTable
<1>t. /\ \A x \in Users \ {user[s]} : Latest(t)'[x] = Latest(t)[x]
      /\ \/ Latest(t)'[user[s]] = s
         \/ view'[t] = view[t] /\ Latest(t)' = Latest(t)
  BY <1>a, <1>b, <1>c, <1>2, TellSame
<1>4. \A u \in Users \ {user[s]} : SameFor(t, u)
  BY <1>a, <1>2, <1>3, <1>t, ElsewhereSame
<1>5. Shows(t) /\ user[t] \in Users /\ online[user[t]] = t
  BY <1>a, <1>d, <1>3, Known DEF FollowInv, Follows, Watching, Reading
<1>6. \A x \in Conns : /\ Met(t, x)' = Met(t, x) /\ Unmet(t, x)' = Unmet(t, x)
                       /\ Told(t, x)' = Told(t, x)
                       /\ \A c \in Channels : Seen(t, c)' = Seen(t, c)
  BY <1>d DEF Met, EnteredProto, Unmet, Told, Seen
<1>7. \A x \in Conns \ {s} : Steady(t, x)
  BY <1>a, <1>c, <1>d, <1>6 DEF Steady, MayShow, ViewTyped
<1>8. finpc'[s] = "none" => PairInv(t, s)'
  <2> SUFFICES ASSUME finpc[s] = "none" PROVE PairInv(t, s)'
    BY <1>d
  <2>1. PairInv(t, s) /\ chan[s] \in Channels /\ sw[s].to \in Channels /\ user'[s] = user[s]
        /\ (Alone(s)' <=> Alone(s))
    BY <1>5, <1>d DEF Shows, ViewTyped, Alone, Others
  <2>2. CASE user[t] = r
    <3>1. online[r] = t /\ ~Told(t, s) /\ ~Told(t, s)'
      BY <1>5, <1>a, <1>6, <2>2, <1>b DEF Told
    <3>2. view'[t] = HandleRemove(view[t], left[s], user[s])
      BY <1>c, <3>1
    <3>3. view'[t].phase = "connected" /\ Table(t) = view[t].lists /\ Table(t)' = view'[t].lists
      <4>1. view'[t].phase # "waiting"
        BY <1>1, <3>2 DEF HandleRemove, Handled, Panicked, View, EmptyLists
      <4>2. Watching(t)'
        BY <4>1 DEF Follows, Reading
      <4> QED
        BY <1>2, <4>2 DEF Watching, Table, Later
    <3>4. /\ user[s] \notin view'[t].lists.members[left[s]]
          /\ \A d \in Channels \ {left[s]} :
               user[s] \in view'[t].lists.members[d] <=> user[s] \in view[t].lists.members[d]
      BY <1>1, <1>a, <3>2, <3>3, HandlersShow
    <3>5. MayShow(t, s)' = {sw[s].to} \ {left[s]} /\ MayShow(t, s) = {left[s], sw[s].to}
      BY <1>a, <1>c, <1>d, <2>2, <3>1, <1>5 DEF MayShow
    <3>6. ASSUME Unmet(t, s)', Alone(s)'
          PROVE  \A d \in Channels : user[s] \notin Table(t)'.members[d]
      BY <1>6, <2>1, <3>3, <3>4, <3>6 DEF PairInv
    <3>7. ASSUME Met(t, s)', Alone(s)'
          PROVE  \A d \in Channels \ MayShow(t, s)' : user[s] \notin Table(t)'.members[d]
      BY <1>6, <1>a, <2>1, <3>3, <3>4, <3>5, <3>7 DEF PairInv
    <3> QED
      BY <2>1, <3>1, <3>6, <3>7 DEF PairInv
  <2>3. CASE user[t] # r
    <3>1. view'[t] = view[t] /\ told'[t] = told[t]
      BY <1>c, <2>3
    <3>2. SameFor(t, user[s])
      BY <1>3, <3>1 DEF SameFor, Latest
    <3>3. Steady(t, s)
      BY <1>6, <1>5, <1>a, <1>c, <1>d, <2>1, <2>3 DEF Steady, MayShow
    <3> QED
      BY <1>d, <2>1, <3>2, <3>3, PairSteady
  <2> QED
    BY <2>2, <2>3
<1>9. \A x \in Conns \ {s} : finpc'[x] = "none" => finpc[x] = "none" /\ Steady(t, x)
  BY <1>7, <1>d
<1>10. Latest(t)'[user[s]] = s \/ SameFor(t, user[s])
  BY <1>3, <1>t DEF SameFor
<1> QED
  BY <1>a, <1>d, <1>4, <1>5, <1>8, <1>9, <1>10, ToldFollower

\* Add: the client shows the user where it stands, and nowhere else.
LEMMA AddFollow ==
  ASSUME ViewTyped, SessionPart, LinkInv, FollowInv, NEW s \in Conns, SendAdd(s)
  PROVE  FollowInv'
<1>a. /\ AddMoves(s) /\ UNCHANGED response /\ ViewPhases /\ OwedInv /\ SessInv
      /\ left'[s] = (IF swpc'[s] = "idle" THEN Default ELSE left[s]) /\ owed'[s] = NoUser
      /\ \A x \in Conns \ {s} : left'[x] = left[x] /\ owed'[x] = owed[x]
      /\ NoUser \notin Users /\ NoConn \notin Conns
  BY SendAddMoves DEF LinkInv, SendAdd, SessionPart, ViewTyped
<1>b. /\ UNCHANGED <<link, user, chan, auth, acc, accTodo, online, channels, asked, finpc, stale>>
      /\ \A x \in Conns \ {s} : swpc'[x] = swpc[x] /\ sw'[x] = sw[x]
      /\ swpc[s] = "bcast" /\ auth[s] = "done" /\ user[s] \in Users
      /\ chan[s] = sw[s].to /\ left[s] \in Channels /\ sw[s].to \in Channels
  <2>1. swpc[s] = "bcast"
    BY <1>a DEF AddMoves
  <2>2. auth[s] = "done" /\ user[s] \in Users
    BY <1>a, <2>1, BusyUser
  <2>3. chan[s] = sw[s].to /\ left[s] \in Channels /\ sw[s].to \in Channels
    BY <2>1 DEF LinkInv, LeftInv, ViewTyped
  <2> QED
    BY <1>a, <2>1, <2>2, <2>3 DEF AddMoves
<1> SUFFICES ASSUME ~stale', NEW t \in Conns, Follows(t)' PROVE Shows(t)'
  BY DEF FollowInv
<1>1. \A x \in Conns : /\ Met(t, x)' = Met(t, x) /\ Unmet(t, x)' = Unmet(t, x)
                       /\ \A c \in Channels : Seen(t, c)' = Seen(t, c)
  BY <1>b DEF Met, EnteredProto, Unmet, Seen
<1>2. \A x \in Conns \ {s} : Steady(t, x)
  BY <1>a, <1>b, <1>1 DEF Steady, Told, MayShow, ViewTyped
<1>3. ASSUME view'[t] = view[t], told'[t] = told[t]
      PROVE  Follows(t) /\ Shows(t) /\ Table(t)' = Table(t) /\ Latest(t)' = Latest(t)
  BY <1>a, <1>b, <1>3 DEF Follows, Watching, Reading, Table, FollowInv, Latest
<1>4. ASSUME view'[t] = view[t], told'[t] = told[t], Steady(t, s) PROVE Shows(t)'
  BY <1>2, <1>3, <1>4, <1>b, SteadyFollower
<1>5. CASE sw[s].todo = {} /\ swpc'[s] = "idle" /\ UNCHANGED <<view, told>>
  <2>1. Told(t, s) /\ Told(t, s)'
    BY <1>b, <1>5 DEF Told
  <2>2. Steady(t, s)
    BY <1>1, <1>b, <2>1 DEF Steady, MayShow
  <2> QED
    BY <1>4, <1>5, <2>2
<1>6. CASE UNCHANGED <<swpc, sw, view, told>>
  <2>1. user[t] \in Users
    BY <1>a, <1>3, <1>6, Known
  <2>2. Told(t, s)' = Told(t, s) /\ MayShow(t, s) \subseteq MayShow(t, s)'
    BY <1>a, <1>b, <1>6, <2>1 DEF Told, MayShow
  <2>3. Steady(t, s)
    BY <1>1, <1>b, <2>2 DEF Steady
  <2> QED
    BY <1>4, <1>6, <2>3
<1>7. ASSUME NEW r \in sw[s].todo, UNCHANGED swpc, sw'[s].to = sw[s].to,
             sw'[s].todo = sw[s].todo \ {r}, owed[s] \in {r, NoUser},
             owed[s] = NoUser => online[r] = NoConn,
             view' = [x \in Conns |-> IF x = online[r] THEN HandleAdd(view[x], sw[s].to, user[s])
                                      ELSE view[x]],
             Tell({online[r]}, s)
      PROVE  Shows(t)'
  <2>a. r \in Users /\ left'[s] = left[s]
    BY <1>a, <1>b, <1>7 DEF ViewTyped
  <2>b. online[user[t]] = t
    BY <1>b DEF Follows, Watching, Reading
  <2>1. CASE user[t] = r
    <3>1. owed[s] = r /\ online[r] = t /\ r # NoUser
      BY <1>7, <1>a, <2>a, <2>b, <2>1
    <3>2. view'[t] = HandleAdd(view[t], sw[s].to, user[s]) /\ view[t].phase # "waiting"
      BY <1>7, <1>a, <3>1 DEF OwedInv
    <3>3. view[t] \in View /\ Later(view[t], view'[t])
      <4>1. view[t] \in View /\ (view[t].phase = "waiting" => view[t].lists = EmptyLists)
        BY <1>a DEF ViewTyped, ViewPhases
      <4> QED
        BY <1>b, <3>2, <4>1, HandlersLater
    <3>4. Watching(t)'
      BY <3>2, <3>3 DEF Follows, Reading, Later
    <3>5. /\ Follows(t) /\ Shows(t) /\ user[t] \in Users
          /\ view'[t].phase = "connected" /\ Table(t) = view[t].lists /\ Table(t)' = view'[t].lists
      BY <1>a, <1>b, <2>1, <2>a, <3>3, <3>4 DEF Later, Watching, Follows, Table, FollowInv
    <3>6. /\ view'[t].lists.known[user[s]] = sw[s].to
          /\ user[s] \in view'[t].lists.members[sw[s].to]
          /\ \A d \in Channels \ {sw[s].to} :
               user[s] \in view'[t].lists.members[d] <=> user[s] \in view[t].lists.members[d]
      BY <1>b, <3>2, <3>3, <3>5, HandlersShow
    <3>t. /\ \A x \in Users \ {user[s]} : Latest(t)'[x] = Latest(t)[x]
          /\ \/ Latest(t)'[user[s]] = s
             \/ view'[t] = view[t] /\ Latest(t)' = Latest(t)
      BY <1>7, <1>b, <3>1, <3>3, TellSame
    <3>7. \A x \in Users \ {user[s]} : SameFor(t, x)
      <4>1. Elsewhere(view[t], view'[t], user[s])
        BY <1>b, <3>2, <3>3, HandlersElsewhere
      <4>2. view'[t] = view[t] => Table(t)' = Table(t)
        BY <3>5
      <4> QED
        BY <1>b, <3>5, <3>t, <4>1, <4>2, ElsewhereSame
    <3>8. finpc'[s] = "none" => PairInv(t, s)'
      <4> SUFFICES ASSUME finpc[s] = "none" PROVE PairInv(t, s)'
        BY <1>b
      <4>1. PairInv(t, s) /\ user'[s] = user[s] /\ (Alone(s)' <=> Alone(s)) /\ ~Unmet(t, s)'
        BY <1>b, <3>5 DEF Shows, Alone, Others, Unmet
      <4>2. ~Told(t, s) /\ Told(t, s)'
        BY <1>7, <1>b, <2>1 DEF Told
      <4>3. MayShow(t, s) = {sw[s].to} \ {left[s]} /\ MayShow(t, s)' = {sw[s].to}
            /\ chan'[s] = sw[s].to
        BY <1>b, <2>1, <3>1, <4>2 DEF MayShow
      <4>4. ASSUME Met(t, s)', Alone(s)'
            PROVE  \A d \in Channels \ MayShow(t, s)' : user[s] \notin Table(t)'.members[d]
        BY <1>1, <3>5, <3>6, <4>1, <4>3, <4>4 DEF PairInv
      <4> QED
        BY <3>5, <3>6, <4>1, <4>3, <4>4 DEF PairInv
    <3>9. \A x \in Conns \ {s} : finpc'[x] = "none" => finpc[x] = "none" /\ Steady(t, x)
      BY <1>2, <1>b
    <3>10. Latest(t)'[user[s]] = s \/ SameFor(t, user[s])
      BY <3>5, <3>t DEF SameFor
    <3> QED
      BY <1>a, <1>b, <3>5, <3>7, <3>8, <3>9, <3>10, ToldFollower
  <2>2. CASE user[t] # r
    <3>1. t # online[r]
      BY <1>a, <2>2, <2>a DEF SessionPart, OnlineIsLive
    <3>2. view'[t] = view[t] /\ told'[t] = told[t]
      BY <1>7, <3>1 DEF Tell
    <3>3. user[t] \in Users
      BY <1>a, <1>3, <3>2, Known
    <3>4. Told(t, s)' = Told(t, s) /\ MayShow(t, s)' = MayShow(t, s)
      BY <1>7, <1>a, <1>b, <2>2, <2>a, <3>3 DEF Told, MayShow
    <3>5. Steady(t, s)
      BY <1>1, <1>b, <3>4 DEF Steady
    <3> QED
      BY <1>4, <3>2, <3>5
  <2> QED
    BY <2>1, <2>2
<1> QED
  BY <1>5, <1>6, <1>7, <1>a DEF AddMoves

FollowPart == LinkInv /\ FollowInv

LEMMA StepFollow ==
  ASSUME ConfigDefault = Default, IInv, RosterPart, CInv, LinkInv, FollowInv, [RSNext]_rsVars
  PROVE  FollowInv'
<1>a. /\ ViewTyped /\ SessionPart /\ SessInv /\ ProtoLedger /\ TypeRoster
      /\ \A s \in Conns : LoginInv(s)
  BY ViewTypes DEF IInv, SessionPart, DataPart, RosterPart, MoveInv
<1>b. UNCHANGED clientVars =>
        UNCHANGED <<view, response, left, owed>> /\ \A t \in Conns : told'[t] = told[t]
  BY DEF clientVars
<1>1. ASSUME NEW s \in Conns, Silent(s) PROVE FollowInv'
  <2>1. UNCHANGED clientVars
    BY <1>1 DEF Silent
  <2>2. CASE Accept(s) \/ AuthInsert(s) \/ AuthPushClients(s)
    BY <1>a, <2>1, <2>2, LoginFollow
  <2>3. CASE \E u \in Users : AuthAccept(s, u)
    BY <1>a, <2>1, <2>3, AcceptFollow
  <2>4. CASE AuthPushProto(s)
    BY <1>a, <2>1, <2>4, PushFollow
  <2>5. CASE \/ SwitchRefuse(s) \/ SwitchFindClient(s) \/ SwitchRemoveClient(s)
             \/ SwitchFindProto(s) \/ SwitchRemoveProto(s) \/ SwitchPushClients(s)
             \/ SwitchPushProto(s) \/ SwitchStore(s) \/ SwitchReply(s)
    BY <1>a, <2>1, <2>5, SwitchSteps, SwitchMovesFollow
  <2>6. CASE \/ (\E t \in Readers : ReaderError(s, t)) \/ VoicePanic(s) \/ AuthPanic(s)
             \/ FinishLoad(s) \/ FinishClients(s) \/ FinishProto(s) \/ CloseLink(s) \/ LinkDown(s)
             \/ PanicPacket(s) \/ (DisconnectPacket(s) /\ ~Pinned(user[s]))
    <3>1. Fades
      BY <2>6, FadeSteps
    <3> QED
      BY <1>a, <1>b, <2>1, <3>1, FadesFollow
  <2> QED
    BY <1>1, <2>2, <2>3, <2>4, <2>5, <2>6 DEF Silent
<1>2. ASSUME NEW s \in Conns, Speaking(s) PROVE FollowInv'
  <2>1. CASE LoginRefused(s)
    BY <1>a, <2>1, RefusedFollow
  <2>2. CASE LoginBroadcast(s)
    BY <1>a, <2>2, BroadcastFollow
  <2>3. CASE LoginSnapshot(s)
    BY <1>a, <2>3, SnapshotFollow
  <2>4. CASE LoginReply(s)
    BY <1>a, <2>4, ReplyFollow
  <2>5. CASE LoginKeepAlive(s)
    BY <1>a, <2>5, LoginFollow DEF LoginKeepAlive
  <2>6. CASE \E c \in Channels : StartSwitch(s, c)
    BY <1>a, <2>6, RequestFollow
  <2>7. CASE SendRemove(s)
    BY <1>a, <2>7, RemoveFollow
  <2>8. CASE SendAdd(s)
    BY <1>a, <2>8, AddFollow
  <2>9. CASE LeaveOnline(s)
    <3>1. Fades /\ UNCHANGED <<view, response, left, owed>>
      BY <2>9, FadeSteps DEF LeaveOnline
    <3>2. ASSUME NEW t \in Conns, Follows(t)' PROVE told'[t] = told[t]
      <4>1. t # s
        <5>1. /\ finpc[s] = "online" /\ user' = user
              /\ online' = [online EXCEPT ![user[s]] = NoConn]
          BY <2>9 DEF LeaveOnline, FinishOnline, sessVars
        <5>2. user[s] \in Users
          BY <1>a, <5>1, BusyUser
        <5>3. online'[user'[s]] # s
          BY <1>a, <5>1, <5>2 DEF ViewTyped
        <5> QED
          BY <3>2, <5>3 DEF Follows, Watching, Reading
      <4> QED
        BY <1>a, <2>9, <4>1 DEF LeaveOnline, ViewTyped
    <3> QED
      BY <1>a, <3>1, <3>2, FadesFollow
  <2>10. CASE FarewellBroadcast(s)
    BY <1>a, <2>10, FarewellFollow
  <2> QED
    BY <1>2, <2>1, <2>2, <2>3, <2>4, <2>5, <2>6, <2>7, <2>8, <2>9, <2>10 DEF Speaking
<1>3. CASE Operator
  <2>1. CASE Shutdown /\ \A u \in Users : ~Pinned(u)
    BY <1>3, <1>a, <1>b, <2>1, OperatorFades, FadesFollow DEF Operator
  <2>2. CASE \E c \in Channels : CreateChannel(c) \/ DeleteChannel(c)
    BY <1>3, <1>a, <2>2, ChannelFollow DEF Operator
  <2> QED
    BY <1>3, <2>1, <2>2 DEF Operator
<1>4. CASE UNCHANGED rsVars
  <2>1. Fades /\ UNCHANGED clientVars
    BY <1>4 DEF rsVars, vars, sessVars, accVars, rosterVars, swVars, finVars, history, Fades
  <2> QED
    BY <1>a, <1>b, <2>1, FadesFollow
<1> QED
  BY <1>1, <1>2, <1>3, <1>4 DEF RSNext

LEMMA InitFollow == RSInit => FollowInv
<1> SUFFICES ASSUME RSInit, NEW t \in Conns PROVE ~Follows(t)
  BY DEF FollowInv
<1>1. view[t] = NewView /\ acc = NoConn
  BY DEF RSInit, Init
<1> QED
  BY <1>1, ConstantsOK DEF Follows, Watching, Reading, NewView

\* A session that stands still has been announced everywhere, and its last switch too.
LEMMA FollowsShows ==
  ASSUME ViewTyped, LinkInv, FollowInv
  PROVE  ViewFollows
<1> SUFFICES ASSUME ~stale, NEW t \in Conns, NEW s \in Conns, Watching(t), Standing(s)
             PROVE  LET lists == view[t].lists  u == user[s]  c == chan[s] IN
                    /\ told[t][u] \in {s, NoConn} => u \in lists.members[c]
                    /\ told[t][u] = s \/ Others(s) = {} => lists.known[u] = c
                    /\ Others(s) = {} => \A d \in Channels \ {c} : u \notin lists.members[d]
  BY DEF ViewFollows
<1>1. PairInv(t, s) /\ Table(t) = view[t].lists /\ Latest(t) = told[t]
  BY DEF FollowInv, Follows, Shows, Watching, Standing, Table, Latest
<1>2. Met(t, s) /\ Told(t, s) /\ MayShow(t, s) = {chan[s]}
  BY DEF Met, EnteredProto, Told, MayShow, Standing
<1>3. Seen(t, chan[s])
  BY DEF Seen, Standing, Watching, LinkInv, ViewPhases
<1> QED
  BY <1>1, <1>2, <1>3 DEF PairInv, Alone

\* However logins, switches, finish_ups and their broadcasts overlap, among any number of
\* clients: a client that has not panicked shows everybody who stands still, unless another
\* session of theirs was the last it was told of, in the channel they stand in, and nobody
\* of one session anywhere else (packet.rs:441-470, main.rs:499-543, network.rs:366-402;
\* the client's server.rs).  A client puts a newcomer into the configured default channel,
\* the server into Server.DEFAULT_CHANNEL_UUID: they have to be the same.
THEOREM ClientsFollow ==
  ASSUME ConfigDefault = Default
  PROVE  RSSpec => []ViewFollows
<1>1. RSSpec => [](IInv /\ RosterPart /\ EntryIsLive /\ CInv)
  BY ServerUnaffected, Inductive, RosterInductive, NoDeleteUnderEntry, ComposedCInv, PTL
<1>2. RSInit => FollowPart
  BY InitLink, InitFollow DEF FollowPart
<1>3. IInv /\ RosterPart /\ EntryIsLive /\ CInv /\ FollowPart /\ [RSNext]_rsVars => FollowPart'
  BY StepLink, StepFollow DEF FollowPart
<1>4. IInv /\ CInv /\ FollowPart => ViewFollows
  BY ViewTypes, FollowsShows DEF FollowPart
<1> QED
  BY <1>1, <1>2, <1>3, <1>4, PTL DEF RSSpec

===============================================================================
