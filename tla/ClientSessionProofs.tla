-------------------------- MODULE ClientSessionProofs --------------------------
(* Theorems about ClientSession.                                                *)
EXTENDS ClientSession, FiniteSetTheorems, TLAPS

LEMMA TypeStep == TypeOK /\ [Next]_vars => TypeOK'
<1> SUFFICES ASSUME TypeOK, [Next]_vars PROVE TypeOK'
  OBVIOUS
<1> USE DEF TypeOK, Notice, TrySet
<1>1. CASE Connect \/ SendAuthRequest
  BY <1>1 DEF Connect, SendAuthRequest
<1>2. CASE AuthSuccess \/ AuthFailure \/ OpenKeepAlive \/ StoreHandler \/ StartVoice
  BY <1>2 DEF AuthSuccess, AuthFailure, OpenKeepAlive, StoreHandler, StartVoice
<1>3. CASE ReaderError \/ ReaderPanic
  BY <1>3 DEF ReaderError, ReaderPanic, Tasks
<1>4. CASE ReceiverError \/ VoiceError \/ VoicePanic
  BY <1>4 DEF ReceiverError, VoiceError, VoicePanic, Tasks
<1>7. CASE Beat
  <2>1. CASE Notice("sender") /\ UNCHANGED <<sender, beats>>
    BY <1>7, <2>1 DEF Beat, Tasks
  <2>2. CASE UNCHANGED <<state, noticed>>
    BY <1>7, <2>2 DEF Beat
  <2> QED
    BY <1>7, <2>1, <2>2 DEF Beat
<1>5. CASE (\E t \in Tasks : Close(t)) \/ LinkDown
  BY <1>5 DEF Close, LinkDown
<1>6. CASE UNCHANGED vars
  BY <1>6 DEF vars
<1> QED
  BY <1>1, <1>2, <1>3, <1>4, <1>5, <1>6, <1>7 DEF Next

\* Every variable keeps its type.
THEOREM SessionTypeCorrect == Spec => []TypeOK
<1>1. Init => TypeOK
  <2> SUFFICES ASSUME Init PROVE TypeOK
    OBVIOUS
  <2>1. handler \in BOOLEAN
    BY Zenon DEF Init
  <2>2. noticed \in SUBSET Tasks
    BY DEF Init
  <2> QED
    BY <2>1, <2>2, SMT DEF Init, TypeOK
<1> QED
  BY <1>1, TypeStep, PTL DEF Spec

LEMMA NoticedFinite == ASSUME TypeOK PROVE IsFiniteSet(noticed) /\ Cardinality(noticed) \in Nat
<1>1. IsFiniteSet(Tasks)
  <2>1. Tasks = ({"reader"} \cup {"sender"}) \cup ({"receiver"} \cup {"voice"})
    BY DEF Tasks
  <2> QED
    BY <2>1, FS_Singleton, FS_Union
<1>2. IsFiniteSet(noticed)
  BY <1>1, FS_Subset DEF TypeOK
<1> QED
  BY <1>2, FS_CardinalityType

\* A notice starts a report exactly if it is the first.
LEMMA NoticeCountsOne ==
  ASSUME TypeOK, ReportedOnce, NEW t \in Tasks, Notice(t), UNCHANGED reports
  PROVE  ReportedOnce'
<1>1. IsFiniteSet(noticed) /\ Cardinality(noticed) \in Nat /\ reports \in Nat
  BY NoticedFinite DEF TypeOK
<1>2. CASE state = "disconnected"
  BY <1>2 DEF ReportedOnce, Notice
<1>3. CASE state # "disconnected"
  <2>1. Cardinality(noticed) = 0
    BY <1>1, <1>3 DEF ReportedOnce
  <2>2. noticed = {}
    BY <1>1, <2>1, FS_EmptySet
  <2>3. noticed' = noticed \cup {t} /\ t \notin noticed /\ state' = "disconnected"
    BY <1>3, <2>2 DEF Notice
  <2>4. Cardinality(noticed') = Cardinality(noticed) + 1
    BY <1>1, <2>3, FS_AddElement
  <2> QED
    BY <1>1, <1>3, <2>3, <2>4 DEF ReportedOnce
<1> QED
  BY <1>2, <1>3

\* A report begun is handed from `noticed` to `reports`.
LEMMA CloseCountsOne ==
  ASSUME TypeOK, ReportedOnce, NEW t \in Tasks, Close(t)
  PROVE  ReportedOnce'
<1>1. IsFiniteSet(noticed) /\ Cardinality(noticed) \in Nat /\ reports \in Nat
  BY NoticedFinite DEF TypeOK
<1>2. Cardinality(noticed \ {t}) = Cardinality(noticed) - 1
  BY <1>1, FS_RemoveElement DEF Close
<1>3. reports' = reports + 1 /\ noticed' = noticed \ {t} /\ UNCHANGED state
  BY DEF Close
<1> QED
  BY <1>1, <1>2, <1>3 DEF ReportedOnce

LEMMA ReportStep == TypeOK /\ ReportedOnce /\ [Next]_vars => ReportedOnce'
<1> SUFFICES ASSUME TypeOK, ReportedOnce, [Next]_vars PROVE ReportedOnce'
  OBVIOUS
<1>1. CASE Connect \/ AuthSuccess
  <2>1. UNCHANGED <<reports, noticed>>
    BY <1>1 DEF Connect, AuthSuccess
  <2>2. (state = "disconnected") <=> (state' = "disconnected")
    BY <1>1 DEF Connect, AuthSuccess, TrySet
  <2> QED
    BY <2>1, <2>2 DEF ReportedOnce
<1>2. CASE \/ SendAuthRequest \/ AuthFailure \/ OpenKeepAlive \/ StoreHandler \/ StartVoice
           \/ ReaderPanic \/ ReceiverError \/ VoicePanic \/ LinkDown \/ UNCHANGED vars
  <2>1. UNCHANGED <<state, reports, noticed>>
    BY <1>2 DEF SendAuthRequest, AuthFailure, OpenKeepAlive, StoreHandler, StartVoice,
       ReaderPanic, ReceiverError, VoicePanic, LinkDown, vars
  <2> QED
    BY <2>1 DEF ReportedOnce
<1>3. CASE ReaderError
  BY <1>3, NoticeCountsOne DEF ReaderError, Tasks
<1>4. CASE VoiceError
  BY <1>4, NoticeCountsOne DEF VoiceError, Tasks
<1>5. CASE Beat
  <2>1. CASE UNCHANGED <<state, noticed>>
    BY <1>5, <2>1 DEF Beat, ReportedOnce
  <2>2. CASE Notice("sender")
    BY <1>5, <2>2, NoticeCountsOne DEF Beat, Tasks
  <2> QED
    BY <1>5, <2>1, <2>2 DEF Beat
<1>6. CASE \E t \in Tasks : Close(t)
  BY <1>6, CloseCountsOne
<1> QED
  BY <1>1, <1>2, <1>3, <1>4, <1>5, <1>6 DEF Next

\* However many tasks meet the loss of a connection, and however often, its user is
\* told once (try_set_disconnected, server.rs:420-423 of the client).
THEOREM ToldOnce == Spec => []ReportedOnce
<1>1. Init => ReportedOnce
  BY FS_EmptySet DEF Init, ReportedOnce
<1> QED
  BY <1>1, SessionTypeCorrect, ReportStep, PTL DEF Spec

===============================================================================
