---------------------------- MODULE LoggerProofs ----------------------------
(***************************************************************************)
(* What TLAPS proves of Logger for every number of threads, files and       *)
(* callbacks.  Three inductive invariants carry the theorems: TypeOK,        *)
(* DeliveryInv (what the mutex protects) and StreamInv (who may close what). *)
(***************************************************************************)
EXTENDS Logger, TLAPS

\* Type correctness of the logger, its callers and the streams.
THEOREM LoggerType == Spec => []TypeOK
<1>1. Init => TypeOK
  <2> SUFFICES ASSUME Init PROVE TypeOK
    OBVIOUS
  <2>1. /\ pc \in [Threads -> Labels]
        /\ context \in [Threads -> Levels]
        /\ result \in [Threads -> Results]
    BY DEF Init, Labels, Levels, Results
  <2>2. /\ lent \in [Threads -> BOOLEAN]
        /\ request \in [Threads -> AllRequests \cup {NULL}]
        /\ informed \in [Threads -> Callbacks \cup {NULL}]
    BY DEF Init
  <2>3. \A t \in Threads: pc[t] = "idle"
    BY DEF Init
  <2> QED BY <2>1, <2>2, <2>3 DEF Init, TypeOK, Streams
<1>2. TypeOK /\ [Next]_vars => TypeOK'
  <2> SUFFICES ASSUME TypeOK, [Next]_vars PROVE TypeOK'
    OBVIOUS
  <2> USE ConstantsAssumption DEF TypeOK, Streams, Levels, Labels, Results, fileVars
  <2>1. ASSUME NEW t \in Threads, Call(t) PROVE TypeOK'
    BY <2>1 DEF Call, GotoLog, Goto, logVars
  <2>2. ASSUME NEW t \in Threads, LogMessage(t) PROVE TypeOK'
    BY <2>2 DEF LogMessage, Goto, AfterRecord, logVars
  <2>3. ASSUME NEW t \in Threads, CallbackReturns(t) PROVE TypeOK'
    BY <2>3 DEF CallbackReturns, Goto, logVars
  <2>4. ASSUME NEW t \in Threads, CallbackCallsLibrary(t) PROVE TypeOK'
    BY <2>4 DEF CallbackCallsLibrary, GotoLog, Goto, logVars
  <2>5. ASSUME NEW t \in Threads, WriteRecord(t) PROVE TypeOK'
    BY <2>5 DEF WriteRecord, Goto, AfterRecord, Records, logVars
  <2>6. ASSUME NEW t \in Threads, SetCallback(t) PROVE TypeOK'
    <3>1. request[t] \in AllRequests /\ request[t].api = "SetCallback"
      BY <2>6 DEF SetCallback, Working
    <3>2. request[t] \in [api: {"SetCallback"}, arg: Callbacks \cup {NULL}]
      BY <3>1 DEF AllRequests
    <3>3. callback' \in Callbacks \cup {NULL}
      BY <3>2, <2>6 DEF SetCallback
    <3> QED BY <3>3, <2>6 DEF SetCallback, Working, Succeed, Goto
  <2>7. ASSUME NEW t \in Threads, WriteToStream(t) PROVE TypeOK'
    <3>1. open' \subseteq open /\ UNCHANGED lost
      BY <2>7 DEF WriteToStream, CloseOwned
    <3>2. stream' \in Streams /\ ownsStream' \in BOOLEAN
      BY <2>7 DEF WriteToStream
    <3>3. /\ pc' \in [Threads -> Labels] /\ pc'[t] # "idle"
          /\ context' \in [Threads -> Levels]
          /\ result' \in [Threads -> Results]
          /\ \A u \in Threads \ {t}: pc'[u] = pc[u]
      BY <2>7 DEF WriteToStream, Succeed, Fail, GotoLog, Goto
    <3>4. UNCHANGED <<mask, enabled, callback, holder, lent, misled, request, informed, last>>
      BY <2>7 DEF WriteToStream, Succeed, Fail
    <3> QED
      BY <3>1, <3>2, <3>3, <3>4, <2>7 DEF WriteToStream, Working
  <2>8. ASSUME NEW t \in Threads, OpenFileStream(t) PROVE TypeOK'
    <3>1. open' \subseteq open \cup Handles /\ lost' \subseteq Streams
      BY <2>8 DEF OpenFileStream, CloseOwned
    <3>2. stream' \in Streams /\ ownsStream' \in BOOLEAN
      BY <2>8 DEF OpenFileStream, RevertToStdout
    <3>3. /\ pc' \in [Threads -> Labels] /\ pc'[t] # "idle"
          /\ context' \in [Threads -> Levels]
          /\ result' \in [Threads -> Results]
          /\ \A u \in Threads \ {t}: pc'[u] = pc[u]
      BY <2>8 DEF OpenFileStream, Succeed, Fail, GotoLog, Goto
    <3>4. UNCHANGED <<mask, enabled, callback, holder, lent, misled, request, informed, last>>
      BY <2>8 DEF OpenFileStream, Succeed, Fail
    <3> QED
      BY <3>1, <3>2, <3>3, <3>4, <2>8 DEF OpenFileStream, Working
  <2>9. ASSUME NEW t \in Threads, SetLogLevel(t) PROVE TypeOK'
    BY <2>9 DEF SetLogLevel, Working, Succeed, Fail, GotoLog, Goto
  <2>10. ASSUME NEW t \in Threads, SetLogMask(t) PROVE TypeOK'
    BY <2>10 DEF SetLogMask, Working, Succeed, Fail, GotoLog, Goto
  <2>11. ASSUME NEW t \in Threads, Disable(t) PROVE TypeOK'
    BY <2>11 DEF Disable, Working, Succeed, Goto
  <2>12. ASSUME NEW t \in Threads, GetLogMask(t) PROVE TypeOK'
    BY <2>12 DEF GetLogMask, Working, GotoLog, Goto, logVars
  <2>13. ASSUME NEW t \in Threads, Return(t) PROVE TypeOK'
    <3>1. lent' \in [Threads -> BOOLEAN] /\ misled' \subseteq Threads
      BY <2>13, Zenon DEF Return
    <3> QED BY <3>1, <2>13 DEF Return, Goto, logVars
  <2>14. ASSUME NEW t \in Threads, UserOpen(t) PROVE TypeOK'
    BY <2>14 DEF UserOpen, logVars, callVars
  <2>15. ASSUME NEW t \in Threads, UserClose(t) PROVE TypeOK'
    BY <2>15 DEF UserClose, logVars, callVars
  <2>16. CASE UNCHANGED vars
    BY <2>16 DEF vars, logVars, fileVars, callVars
  <2> QED
    BY <2>1, <2>2, <2>3, <2>4, <2>5, <2>6, <2>7, <2>8, <2>9, <2>10, <2>11,
       <2>12, <2>13, <2>14, <2>15, <2>16 DEF Next, CallStep
<1> QED BY <1>1, <1>2, PTL DEF Spec

-----------------------------------------------------------------------------
\* A thread between the mask test and the write holds the mutex, and the
\* settings are those it tested: this is what the lock is for.
DeliveryInv ==
  \A t \in Threads: pc[t] \in {"callback", "write"} =>
    /\ holder = t
    /\ enabled
    /\ context[t] \in mask
    /\ informed[t] = callback

\* The steps that change a setting find the mutex free, so no thread is in
\* the middle of a record.
LEMMA DeliveryStep == TypeOK /\ DeliveryInv /\ [Next]_vars => DeliveryInv'
<1> SUFFICES ASSUME TypeOK, DeliveryInv, [Next]_vars PROVE DeliveryInv'
  OBVIOUS
<1> USE ConstantsAssumption DEF TypeOK, DeliveryInv, fileVars
<1>1. ASSUME NEW t \in Threads, Call(t) PROVE DeliveryInv'
  BY <1>1 DEF Call, GotoLog, Goto, logVars
<1>2. ASSUME NEW t \in Threads, LogMessage(t) PROVE DeliveryInv'
  BY <1>2 DEF LogMessage, LockFree, Goto, AfterRecord, logVars
<1>3. ASSUME NEW t \in Threads, CallbackReturns(t) PROVE DeliveryInv'
  BY <1>3 DEF CallbackReturns, Goto, logVars
<1>4. ASSUME NEW t \in Threads, CallbackCallsLibrary(t) PROVE DeliveryInv'
  BY <1>4 DEF CallbackCallsLibrary, GotoLog, Goto, logVars
<1>5. ASSUME NEW t \in Threads, WriteRecord(t) PROVE DeliveryInv'
  BY <1>5 DEF WriteRecord, Goto, AfterRecord, logVars
<1>6. ASSUME NEW t \in Threads, SetCallback(t) PROVE DeliveryInv'
  BY <1>6 DEF SetCallback, Working, LockFree, Succeed, Goto
<1>7. ASSUME NEW t \in Threads, WriteToStream(t) PROVE DeliveryInv'
  BY <1>7 DEF WriteToStream, Working, LockFree, Succeed, Fail, GotoLog, Goto
<1>8. ASSUME NEW t \in Threads, OpenFileStream(t) PROVE DeliveryInv'
  BY <1>8 DEF OpenFileStream, Working, LockFree, Succeed, Fail, GotoLog, Goto
<1>9. ASSUME NEW t \in Threads, SetLogLevel(t) PROVE DeliveryInv'
  BY <1>9 DEF SetLogLevel, Working, LockFree, Succeed, Fail, GotoLog, Goto
<1>10. ASSUME NEW t \in Threads, SetLogMask(t) PROVE DeliveryInv'
  BY <1>10 DEF SetLogMask, Working, LockFree, Succeed, Fail, GotoLog, Goto
<1>11. ASSUME NEW t \in Threads, Disable(t) PROVE DeliveryInv'
  BY <1>11 DEF Disable, Working, LockFree, Succeed, Goto
<1>12. ASSUME NEW t \in Threads, GetLogMask(t) PROVE DeliveryInv'
  BY <1>12 DEF GetLogMask, Working, LockFree, GotoLog, Goto, logVars
<1>13. ASSUME NEW t \in Threads, Return(t) PROVE DeliveryInv'
  BY <1>13 DEF Return, Goto, logVars
<1>14. ASSUME NEW t \in Threads, UserOpen(t) \/ UserClose(t) PROVE DeliveryInv'
  BY <1>14 DEF UserOpen, UserClose, logVars, callVars
<1>15. CASE UNCHANGED vars
  BY <1>15 DEF vars, logVars, fileVars, callVars
<1> QED
  BY <1>1, <1>2, <1>3, <1>4, <1>5, <1>6, <1>7, <1>8, <1>9, <1>10, <1>11,
     <1>12, <1>13, <1>14, <1>15 DEF Next, CallStep

LEMMA Delivery == Spec => []DeliveryInv
<1>1. Init => DeliveryInv
  BY DEF Init, DeliveryInv
<1> QED BY <1>1, DeliveryStep, LoggerType, PTL DEF Spec

\* After hiptensorLoggerForceDisable no thread delivers a record any more,
\* not even one that was ahead of it in logMessage.
THEOREM LoggerQuiet == Spec => []QuietWhenDisabled
<1>1. DeliveryInv => QuietWhenDisabled
  BY DEF DeliveryInv, QuietWhenDisabled
<1> QED BY <1>1, Delivery, PTL

-----------------------------------------------------------------------------
\* Thread t has run the body of its OpenFile call and has not returned yet.
OpenFileDone(t) ==
  /\ request[t].api = "OpenFile"
  /\ \/ pc[t] = "return"
     \/ pc[t] \in {"log", "callback", "write"} /\ context[t] # "API_TRACE"

\* A stream of the program in use is lent, unless its program was misled; a
\* lent stream is open, the logger owns exactly the streams it opened, and a
\* thread whose OpenFile is about to return sees another stream in use.
StreamInv ==
  /\ stream \in Threads => lent[stream] \/ stream \in misled
  /\ \A t \in Threads: lent[t] => t \in open
  /\ ownsStream <=> stream \in Handles
  /\ stream \in Handles => stream \in open
  /\ \A t \in Threads: pc[t] # "idle" /\ LendsOwn(request[t]) => lent[t]
  /\ \A t \in Threads: OpenFileDone(t) => stream # t

LEMMA StreamStep == TypeOK /\ StreamInv /\ [Next]_vars => StreamInv'
<1> SUFFICES ASSUME TypeOK, StreamInv, [Next]_vars PROVE StreamInv'
  OBVIOUS
<1> USE ConstantsAssumption DEF TypeOK, StreamInv, OpenFileDone, LendsOwn, Streams, fileVars
<1>1. ASSUME NEW t \in Threads, Call(t) PROVE StreamInv'
  BY <1>1, ZenonT(30) DEF Call, GotoLog, Goto, logVars
<1>2. ASSUME NEW t \in Threads, LogMessage(t) PROVE StreamInv'
  BY <1>2 DEF LogMessage, Goto, AfterRecord, logVars
<1>3. ASSUME NEW t \in Threads, CallbackReturns(t) PROVE StreamInv'
  BY <1>3 DEF CallbackReturns, Goto, logVars
<1>4. ASSUME NEW t \in Threads, CallbackCallsLibrary(t) PROVE StreamInv'
  BY <1>4 DEF CallbackCallsLibrary, GotoLog, Goto, logVars
<1>5. ASSUME NEW t \in Threads, WriteRecord(t) PROVE StreamInv'
  BY <1>5 DEF WriteRecord, Goto, AfterRecord, logVars
<1>6. ASSUME NEW t \in Threads, SetCallback(t) PROVE StreamInv'
  BY <1>6 DEF SetCallback, Working, Succeed, Goto
<1>7. ASSUME NEW t \in Threads, WriteToStream(t) PROVE StreamInv'
  BY <1>7 DEF WriteToStream, Working, CloseOwned, Succeed, Fail, GotoLog, Goto
<1>8. ASSUME NEW t \in Threads, OpenFileStream(t) PROVE StreamInv'
  BY <1>8 DEF OpenFileStream, RevertToStdout, CloseOwned, Working, Succeed,
              Fail, GotoLog, Goto
<1>9. ASSUME NEW t \in Threads, SetLogLevel(t) PROVE StreamInv'
  BY <1>9 DEF SetLogLevel, Working, Succeed, Fail, GotoLog, Goto
<1>10. ASSUME NEW t \in Threads, SetLogMask(t) PROVE StreamInv'
  BY <1>10 DEF SetLogMask, Working, Succeed, Fail, GotoLog, Goto
<1>11. ASSUME NEW t \in Threads, Disable(t) PROVE StreamInv'
  BY <1>11 DEF Disable, Working, Succeed, Goto
<1>12. ASSUME NEW t \in Threads, GetLogMask(t) PROVE StreamInv'
  BY <1>12 DEF GetLogMask, Working, GotoLog, Goto, logVars
<1>13. ASSUME NEW t \in Threads, Return(t) PROVE StreamInv'
  BY <1>13 DEF Return, NullFile, Goto, logVars
<1>14. ASSUME NEW t \in Threads, UserOpen(t) PROVE StreamInv'
  BY <1>14 DEF UserOpen, logVars, callVars
<1>15. ASSUME NEW t \in Threads, UserClose(t) PROVE StreamInv'
  BY <1>15 DEF UserClose, logVars, callVars
<1>16. CASE UNCHANGED vars
  BY <1>16 DEF vars, logVars, fileVars, callVars
<1> QED
  BY <1>1, <1>2, <1>3, <1>4, <1>5, <1>6, <1>7, <1>8, <1>9, <1>10, <1>11,
     <1>12, <1>13, <1>14, <1>15, <1>16 DEF Next, CallStep

\* Records never go to a closed stream, for any number of threads that
\* install, replace and close their own streams while others log, except to
\* one whose program relied on what hiptensorLoggerSetFile(nullptr) documents.
THEOREM LoggerStreamAlive == Spec => []StreamAlive
<1>1. Init => StreamInv
  BY ConstantsAssumption DEF Init, StreamInv, OpenFileDone, LendsOwn
<1>2. TypeOK /\ StreamInv => StreamAlive
  BY DEF TypeOK, StreamInv, StreamAlive, Streams
<1> QED BY <1>1, <1>2, StreamStep, LoggerType, PTL DEF Spec

-----------------------------------------------------------------------------
\* Every file the logger opened and no longer writes to has been closed, or
\* was forgotten because of an empty file name, however often and from however
\* many threads the stream is replaced.
THEOREM LoggerNoLeak == Spec => []NoStreamLeak
<1>1. Init => NoStreamLeak
  BY DEF Init, NoStreamLeak
<1>2. TypeOK /\ StreamInv /\ NoStreamLeak /\ [Next]_vars => NoStreamLeak'
  <2> SUFFICES ASSUME TypeOK, StreamInv, NoStreamLeak, [Next]_vars
               PROVE NoStreamLeak'
    OBVIOUS
  <2>1. UNCHANGED <<stream, open, lost>> => NoStreamLeak'
    BY DEF NoStreamLeak
  <2>2. CloseOwned \cap Handles \subseteq lost
    BY DEF CloseOwned, NoStreamLeak, StreamInv
  <2>3. ASSUME NEW t \in Threads, WriteToStream(t) PROVE NoStreamLeak'
    BY <2>2, <2>3, ConstantsAssumption DEF WriteToStream, NoStreamLeak
  <2>4. ASSUME NEW t \in Threads, OpenFileStream(t) PROVE NoStreamLeak'
    BY <2>2, <2>4 DEF OpenFileStream, NoStreamLeak, StreamInv
  <2>5. ASSUME NEW t \in Threads, UserOpen(t) \/ UserClose(t)
        PROVE NoStreamLeak'
    BY <2>5, ConstantsAssumption
    DEF UserOpen, UserClose, NoStreamLeak, logVars
  <2>6. ASSUME NEW t \in Threads,
               \/ Call(t) \/ LogMessage(t) \/ CallbackReturns(t)
               \/ CallbackCallsLibrary(t) \/ WriteRecord(t) \/ SetCallback(t)
               \/ SetLogLevel(t) \/ SetLogMask(t) \/ Disable(t)
               \/ GetLogMask(t) \/ Return(t)
        PROVE NoStreamLeak'
    BY <2>1, <2>6
    DEF Call, LogMessage, CallbackReturns, CallbackCallsLibrary, WriteRecord,
        SetCallback, SetLogLevel, SetLogMask, Disable, GetLogMask, Return,
        logVars, fileVars
  <2>7. CASE UNCHANGED vars
    BY <2>1, <2>7 DEF vars, logVars, fileVars
  <2> QED
    BY <2>3, <2>4, <2>5, <2>6, <2>7 DEF Next, CallStep
<1>3. Init => StreamInv
  BY ConstantsAssumption DEF Init, StreamInv, OpenFileDone, LendsOwn
<1> QED BY <1>1, <1>2, <1>3, StreamStep, LoggerType, PTL DEF Spec

-----------------------------------------------------------------------------
\* Where the thread that holds the mutex can be: delivering a record, or in a
\* call that its callback made, which is not going to get the mutex.
HolderInv ==
  \A t \in Threads:
    holder = t => \/ pc[t] \in {"callback", "write"}
                  \/ pc[t] = "log" /\ informed[t] \in Reentrant

\* The mutex is held by a thread that delivers a record and will give it back,
\* or by one whose callback called the library, and by no other, on every path
\* of every call and for any number of threads.
THEOREM LoggerMutex == Spec => []MutexComesBack
<1>1. Init => HolderInv
  BY ConstantsAssumption DEF Init, HolderInv
<1>2. TypeOK /\ HolderInv /\ [Next]_vars => HolderInv'
  <2> SUFFICES ASSUME TypeOK, HolderInv, [Next]_vars PROVE HolderInv'
    OBVIOUS
  <2> USE ConstantsAssumption DEF TypeOK, HolderInv
  <2>1. ASSUME NEW t \in Threads, Call(t) PROVE HolderInv'
    BY <2>1 DEF Call, GotoLog, Goto, logVars
  <2>2. ASSUME NEW t \in Threads, LogMessage(t) PROVE HolderInv'
    BY <2>2 DEF LogMessage, LockFree, Goto
  <2>3. ASSUME NEW t \in Threads, CallbackReturns(t) PROVE HolderInv'
    BY <2>3 DEF CallbackReturns, Goto
  <2>4. ASSUME NEW t \in Threads, CallbackCallsLibrary(t) PROVE HolderInv'
    BY <2>4 DEF CallbackCallsLibrary, GotoLog, Goto
  <2>5. ASSUME NEW t \in Threads, WriteRecord(t) PROVE HolderInv'
    BY <2>5 DEF WriteRecord
  <2>6. ASSUME NEW t \in Threads,
               \/ SetCallback(t) \/ WriteToStream(t) \/ OpenFileStream(t)
               \/ SetLogLevel(t) \/ SetLogMask(t) \/ Disable(t) \/ GetLogMask(t)
        PROVE HolderInv'
    BY <2>6
    DEF SetCallback, WriteToStream, OpenFileStream, SetLogLevel, SetLogMask,
        Disable, GetLogMask, Working, LockFree
  <2>7. ASSUME NEW t \in Threads, Return(t) PROVE HolderInv'
    BY <2>7 DEF Return, Goto
  <2>8. ASSUME NEW t \in Threads, UserOpen(t) \/ UserClose(t) PROVE HolderInv'
    BY <2>8 DEF UserOpen, UserClose, callVars
  <2>9. CASE UNCHANGED vars
    BY <2>9 DEF vars, callVars
  <2> QED
    BY <2>1, <2>2, <2>3, <2>4, <2>5, <2>6, <2>7, <2>8, <2>9 DEF Next, CallStep
<1>3. HolderInv => MutexComesBack
  BY DEF HolderInv, MutexComesBack
<1> QED BY <1>1, <1>2, <1>3, LoggerType, PTL DEF Spec

-----------------------------------------------------------------------------
\* Every step of the logger is a step of AtomicLog or leaves what it speaks of
\* unchanged.  Only WriteRecord emits, and DeliveryInv says that the record
\* still matches the settings it was tested against.
THEOREM LoggerAtomic == Spec => ImplementsAtomicLog
<1>1. Init => Atomic!Init
  BY DEF Init, Atomic!Init
<1>2. TypeOK /\ TypeOK' /\ DeliveryInv /\ [Next]_vars
        => [Atomic!Next]_(Atomic!vars)
  <2> SUFFICES ASSUME TypeOK, TypeOK', DeliveryInv, [Next]_vars
               PROVE Atomic!Next \/ UNCHANGED Atomic!vars
    OBVIOUS
  <2>1. ASSUME NEW t \in Threads, WriteRecord(t) PROVE Atomic!Next
    <3>1. context[t] \in Levels /\ Atomic!Emit(context[t])
      BY <2>1 DEF WriteRecord, DeliveryInv, TypeOK, Atomic!Emit, logVars
    <3> QED BY <3>1 DEF Atomic!Next
  <2>2. ASSUME NEW t \in Threads, SetCallback(t) PROVE Atomic!SetCallback
    BY <2>2 DEF SetCallback, TypeOK, Atomic!SetCallback
  <2>3. ASSUME NEW t \in Threads, WriteToStream(t) \/ OpenFileStream(t)
        PROVE Atomic!SetStream
    BY <2>3 DEF WriteToStream, OpenFileStream, TypeOK, Atomic!SetStream
  <2>4. ASSUME NEW t \in Threads, SetLogLevel(t) \/ SetLogMask(t)
        PROVE Atomic!SetMask
    BY <2>4 DEF SetLogLevel, SetLogMask, TypeOK, Atomic!SetMask
  <2>5. ASSUME NEW t \in Threads, Disable(t) PROVE Atomic!Disable
    BY <2>5 DEF Disable, Atomic!Disable
  <2>6. ASSUME NEW t \in Threads,
               \/ Call(t) \/ LogMessage(t) \/ CallbackReturns(t)
               \/ CallbackCallsLibrary(t) \/ GetLogMask(t) \/ Return(t)
               \/ UserOpen(t) \/ UserClose(t)
        PROVE UNCHANGED Atomic!vars
    BY <2>6
    DEF Call, LogMessage, CallbackReturns, CallbackCallsLibrary, GetLogMask,
        Return, UserOpen, UserClose, logVars, callVars, Atomic!vars
  <2>7. CASE UNCHANGED vars
    BY <2>7 DEF vars, logVars, Atomic!vars
  <2> QED
    BY <2>1, <2>2, <2>3, <2>4, <2>5, <2>6, <2>7 DEF Next, CallStep, Atomic!Next
<1> QED
  BY <1>1, <1>2, LoggerType, Delivery, PTL
  DEF Spec, ImplementsAtomicLog, Atomic!Spec
=============================================================================
