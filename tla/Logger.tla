------------------------------- MODULE Logger -------------------------------
(***************************************************************************)
(* The process-wide logger (library/src/logger.cpp) and the API calls that *)
(* drive it (library/src/hiptensor.cpp).  Every API call first writes an    *)
(* API trace record, then does its work, then writes an error record if it  *)
(* failed.  Each logger method holds mMutex from entry to return, so a      *)
(* method is one step that waits for the mutex to be free; logMessage is    *)
(* split, because it runs the user's callback with the mutex held.          *)
(*                                                                          *)
(* FILE* values: Stdout; a thread t stands for the stream the program        *)
(* opened in thread t and lends with hiptensorLoggerSetFile; Handles are     *)
(* the streams the logger can open itself (fopen reuses closed ones).        *)
(***************************************************************************)
EXTENDS Naturals, FiniteSets

CONSTANTS
  Threads,     \* the threads that call the library
  Handles,     \* the FILE objects fopen can return to the logger
  Callbacks,   \* the functions the program can register
  Reentrant,   \* those of them that call the library themselves
  Requests(_), \* Requests(t): the calls thread t makes, see AllRequests
  Stdout, NULL, NoThread

\* PERF_TRACE stands for HIPTENSOR_LOG_LEVEL_HEURISTICS_TRACE too, which
\* bruteForceModel reads in the mask before it logs (contraction_selection.cpp
\* line 157) as hiptensorContraction reads PERF_TRACE.  No code uses PERF_HINT.
Levels == {"ERROR", "PERF_TRACE", "API_TRACE"}

\* A mask is the set of its bits; "out_of_range" is any int32 outside
\* 0..0x1F, "combined" a level with several bits.  A SetFile argument
\* "own" is the stream of the calling thread.
AllRequests ==
       [api: {"SetCallback"}, arg: Callbacks \cup {NULL}]
  \cup [api: {"SetFile"}, arg: {"own", "null"}]
  \cup [api: {"OpenFile"}, arg: {"name", "empty"}]
  \cup [api: {"SetLevel"}, arg: {{}, {"combined"}} \cup {{l} : l \in Levels}]
  \cup [api: {"SetMask"}, arg: SUBSET Levels \cup {{"out_of_range"}}]
  \cup [api: {"ForceDisable", "Contraction"}, arg: {NULL}]

ASSUME ConstantsAssumption ==
  /\ NoThread \notin Threads
  /\ Threads \cap Handles = {}
  /\ Stdout \notin Threads \cup Handles
  /\ NULL \notin Callbacks
  /\ NULL \notin AllRequests
  /\ Reentrant \subseteq Callbacks
  /\ \A t \in Threads: Requests(t) \subseteq AllRequests

Streams == {Stdout} \cup Threads \cup Handles

VARIABLES
  mask, enabled, stream, ownsStream, callback,   \* the Logger object
  holder,    \* the thread that holds mMutex across steps, or NoThread
  open,      \* the streams that are open now (Stdout always is)
  lent,      \* lent[t]: the program may not close the stream of thread t
  misled,    \* the threads whose stream a hiptensorLoggerSetFile(nullptr) of
             \* theirs should have replaced with stdout, and did not
  lost,      \* the files an empty file name made the logger forget
  pc,        \* where each thread is in its API call
  request,   \* the call each thread is making
  context,   \* the context of the record the thread is logging
  result,    \* what the call is going to return
  informed,  \* the callback the thread invoked for its record
  last       \* the record written last

logVars == <<mask, enabled, stream, ownsStream, callback>>
fileVars == <<open, lent, misled, lost>>
callVars == <<pc, request, context, result, informed>>
vars == <<logVars, holder, fileVars, callVars, last>>

-----------------------------------------------------------------------------
Init ==
  /\ mask = {} /\ enabled = TRUE
  /\ stream = Stdout /\ ownsStream = FALSE /\ callback = NULL
  /\ holder = NoThread
  /\ open = {} /\ misled = {} /\ lost = {}
  /\ lent = [t \in Threads |-> FALSE]
  /\ pc = [t \in Threads |-> "idle"]
  /\ request = [t \in Threads |-> NULL]
  /\ context = [t \in Threads |-> "API_TRACE"]
  /\ result = [t \in Threads |-> "SUCCESS"]
  /\ informed = [t \in Threads |-> NULL]
  /\ last = NULL

Goto(t, label) == pc' = [pc EXCEPT ![t] = label]

\* Log a record in context c next.
GotoLog(t, c) ==
  /\ Goto(t, "log")
  /\ context' = [context EXCEPT ![t] = c]

\* The label that follows a record: the call's own work after the API trace,
\* the return after an error or performance record.
AfterRecord(t) == IF context[t] = "API_TRACE" THEN "work" ELSE "return"

\* Mutant: the setters do not take the mutex.
WorkingUnlocked(t, api) == pc[t] = "work" /\ request[t].api = api

\* The mutex is free: the step enters and leaves the method.
LockFree == holder = NoThread

\* A setter that succeeds returns; one that fails logs an error first.
Succeed(t) ==
  /\ Goto(t, "return")
  /\ UNCHANGED <<request, context, result, informed>>

Fail(t, status) ==
  /\ GotoLog(t, "ERROR")
  /\ result' = [result EXCEPT ![t] = status]
  /\ UNCHANGED <<request, informed>>

Working(t, api) ==
  /\ pc[t] = "work"
  /\ request[t].api = api
  /\ LockFree

-----------------------------------------------------------------------------
\* hiptensorLoggerSetFile with the stream the program opened in this thread.
LendsOwn(r) == r.api = "SetFile" /\ r.arg = "own"

NullFile(r) == r.api = "SetFile" /\ r.arg = "null"

\* The program calls the library.  A stream it passes must be open and stays
\* lent until the program may take it to be replaced.
Call(t) ==
  /\ pc[t] = "idle"
  /\ \E r \in Requests(t):
       /\ LendsOwn(r) => t \in open
       /\ request' = [request EXCEPT ![t] = r]
       /\ lent' = [lent EXCEPT ![t] = @ \/ LendsOwn(r)]
       /\ misled' = IF LendsOwn(r) THEN misled \ {t} ELSE misled
  /\ GotoLog(t, "API_TRACE")
  /\ UNCHANGED <<logVars, holder, open, lost, result, informed, last>>

\* logMessage: take the mutex, test the mask and the enable flag.  A record
\* that is not wanted gives the mutex back at once.
LogMessage(t) ==
  /\ pc[t] = "log"
  /\ LockFree
  /\ IF context[t] \in mask /\ enabled
     THEN /\ holder' = t
          /\ Goto(t, IF callback # NULL THEN "callback" ELSE "write")
          /\ informed' = [informed EXCEPT ![t] = callback]
     ELSE /\ Goto(t, AfterRecord(t))
          /\ UNCHANGED <<holder, informed>>
  /\ UNCHANGED <<logVars, fileVars, request, context, result, last>>

\* The callback returns.
CallbackReturns(t) ==
  /\ pc[t] = "callback"
  /\ informed[t] \notin Reentrant
  /\ Goto(t, "write")
  /\ UNCHANGED <<logVars, holder, fileVars, request, context, result,
                 informed, last>>

\* A callback that calls the library gets to the API trace of that call and
\* waits there for the mutex its own thread holds.
CallbackCallsLibrary(t) ==
  /\ pc[t] = "callback"
  /\ informed[t] \in Reentrant
  /\ GotoLog(t, "API_TRACE")
  /\ UNCHANGED <<logVars, holder, fileVars, request, result, informed, last>>

\* Mutant: an early return that forgets to unlock.
WriteRecordLocked(t) ==
  /\ pc[t] = "write"
  /\ last' = [context |-> context[t], stream |-> stream,
              callback |-> informed[t]]
  /\ Goto(t, AfterRecord(t))
  /\ informed' = [informed EXCEPT ![t] = NULL]
  /\ UNCHANGED <<logVars, holder, fileVars, request, context, result>>

\* fprintf to the current stream, then the mutex is released.
WriteRecord(t) ==
  /\ pc[t] = "write"
  /\ last' = [context |-> context[t], stream |-> stream,
              callback |-> informed[t]]
  /\ holder' = NoThread
  /\ Goto(t, AfterRecord(t))
  /\ informed' = [informed EXCEPT ![t] = NULL]
  /\ UNCHANGED <<logVars, fileVars, request, context, result>>

-----------------------------------------------------------------------------
SetCallback(t) ==
  /\ Working(t, "SetCallback")
  /\ callback' = request[t].arg
  /\ Succeed(t)
  /\ UNCHANGED <<mask, enabled, stream, ownsStream, holder, fileVars, last>>

\* Mutants: the ownership flag is not looked at; nothing is closed.
CloseAny == open \ {stream}
CloseNothing == open

\* fclose(mWriteStream) if the logger opened it.
CloseOwned == IF ownsStream THEN open \ {stream} ELSE open

WriteToStream(t) ==
  /\ Working(t, "SetFile")
  /\ \/ /\ LendsOwn(request[t])
        /\ open' = CloseOwned
        /\ ownsStream' = FALSE
        /\ stream' = t
        /\ Succeed(t)
     \/ /\ NullFile(request[t])
        /\ Fail(t, "IO_ERROR")
        /\ UNCHANGED <<open, ownsStream, stream>>
  /\ UNCHANGED <<mask, enabled, callback, holder, lent, misled, lost, last>>

\* Mutant: the result of a failed fopen is kept.
RevertToNull ==
  /\ ownsStream' = FALSE
  /\ stream' = NULL

RevertToStdout ==
  /\ ownsStream' = FALSE
  /\ stream' = Stdout

\* The owned stream is closed before fopen, which may fail; an empty name
\* only reverts, and forgets the owned stream without closing it.
OpenFileStream(t) ==
  /\ Working(t, "OpenFile")
  /\ \/ /\ request[t].arg = "name"
        /\ \E h \in Handles \ CloseOwned:
             /\ open' = CloseOwned \cup {h}
             /\ stream' = h
        /\ ownsStream' = TRUE
        /\ UNCHANGED lost
        /\ Succeed(t)
     \/ /\ request[t].arg = "name"
        /\ open' = CloseOwned
        /\ RevertToStdout
        /\ UNCHANGED lost
        /\ Fail(t, "IO_ERROR")
     \/ /\ request[t].arg = "empty"
        /\ RevertToStdout
        /\ lost' = IF ownsStream THEN lost \cup {stream} ELSE lost
        /\ Fail(t, "IO_ERROR")
        /\ UNCHANGED open
  /\ UNCHANGED <<mask, enabled, callback, holder, lent, misled, last>>

\* Only single levels (or none) are accepted.
SetLogLevel(t) ==
  /\ Working(t, "SetLevel")
  /\ IF request[t].arg \subseteq Levels
     THEN mask' = request[t].arg /\ Succeed(t)
     ELSE Fail(t, "INVALID_VALUE") /\ UNCHANGED mask
  /\ UNCHANGED <<enabled, stream, ownsStream, callback, holder, fileVars, last>>

SetLogMask(t) ==
  /\ Working(t, "SetMask")
  /\ IF request[t].arg \subseteq Levels
     THEN mask' = request[t].arg /\ Succeed(t)
     ELSE Fail(t, "INVALID_VALUE") /\ UNCHANGED mask
  /\ UNCHANGED <<enabled, stream, ownsStream, callback, holder, fileVars, last>>

Disable(t) ==
  /\ Working(t, "ForceDisable")
  /\ enabled' = FALSE
  /\ Succeed(t)
  /\ UNCHANGED <<mask, stream, ownsStream, callback, holder, fileVars, last>>

\* hiptensorContraction reads the mask to decide whether to time the kernel
\* and to log a performance record afterwards.
GetLogMask(t) ==
  /\ Working(t, "Contraction")
  /\ IF "PERF_TRACE" \in mask
     THEN GotoLog(t, "PERF_TRACE")
     ELSE Goto(t, "return") /\ UNCHANGED context
  /\ UNCHANGED <<logVars, holder, fileVars, request, result, informed, last>>

\* The call returns, and the program takes its own stream to be out of use
\* when the documentation says so: after a hiptensorLoggerOpenFile, which goes
\* to the new file or "defaults back to stdout", and after a
\* hiptensorLoggerSetFile of a null pointer, which "defaults back to stdout".
\* The first is true, the second leaves the stream in place.
Return(t) ==
  /\ pc[t] = "return"
  /\ LET opened == request[t].api = "OpenFile"
         null   == NullFile(request[t])
     IN /\ lent' = [lent EXCEPT ![t] = @ /\ ~opened /\ ~null]
        /\ misled' = IF opened THEN misled \ {t}
                     ELSE misled \cup {u \in {t}: null /\ lent[u]}
  /\ Goto(t, "idle")
  /\ request' = [request EXCEPT ![t] = NULL]
  /\ context' = [context EXCEPT ![t] = "API_TRACE"]
  /\ result' = [result EXCEPT ![t] = "SUCCESS"]
  /\ UNCHANGED <<logVars, holder, open, lost, informed, last>>

-----------------------------------------------------------------------------
\* The program opens and closes its own streams between calls.
UserOpen(t) ==
  /\ pc[t] = "idle"
  /\ t \notin open
  /\ open' = open \cup {t}
  /\ UNCHANGED <<logVars, holder, lent, misled, lost, callVars, last>>

UserClose(t) ==
  /\ pc[t] = "idle"
  /\ t \in open
  /\ ~lent[t]
  /\ open' = open \ {t}
  /\ UNCHANGED <<logVars, holder, lent, misled, lost, callVars, last>>

-----------------------------------------------------------------------------
\* The steps of a call once it has been made.
CallStep(t) ==
  \/ LogMessage(t)
  \/ CallbackReturns(t)
  \/ CallbackCallsLibrary(t)
  \/ WriteRecord(t)
  \/ SetCallback(t)
  \/ WriteToStream(t)
  \/ OpenFileStream(t)
  \/ SetLogLevel(t)
  \/ SetLogMask(t)
  \/ Disable(t)
  \/ GetLogMask(t)
  \/ Return(t)

Next == \E t \in Threads: CallStep(t) \/ Call(t) \/ UserOpen(t) \/ UserClose(t)

Spec == Init /\ [][Next]_vars

-----------------------------------------------------------------------------
Labels == {"idle", "log", "callback", "write", "work", "return"}
Results == {"SUCCESS", "IO_ERROR", "INVALID_VALUE"}

Records == [context: Levels, stream: Streams, callback: Callbacks \cup {NULL}]

\* The type of every variable.
TypeOK ==
  /\ mask \subseteq Levels /\ enabled \in BOOLEAN
  /\ stream \in Streams /\ ownsStream \in BOOLEAN
  /\ callback \in Callbacks \cup {NULL}
  /\ holder \in Threads \cup {NoThread}
  /\ open \subseteq Threads \cup Handles
  /\ lent \in [Threads -> BOOLEAN]
  /\ misled \subseteq Threads /\ lost \subseteq Streams
  /\ pc \in [Threads -> Labels]
  /\ request \in [Threads -> AllRequests \cup {NULL}]
  /\ context \in [Threads -> Levels]
  /\ result \in [Threads -> Results]
  /\ informed \in [Threads -> Callbacks \cup {NULL}]
  /\ last \in Records \cup {NULL}
  /\ \A t \in Threads: pc[t] # "idle" => request[t] \in AllRequests

\* The stream records go to is open: neither a file the logger closed itself
\* (writeToStream, openFileStream) nor one a program closed that waited for
\* the call that replaced it, whatever other threads log or install.  The one
\* exception is a program that believed in a hiptensorLoggerSetFile(nullptr).
StreamAlive == stream \in open \cup {Stdout} \cup misled

\* The same without the exception, for programs that close a stream of theirs
\* when the documentation says the logger is back on stdout.
StreamOpen == stream \in open \cup {Stdout}

\* Once disable() has run, no thread is still delivering a record, not even
\* one that had passed the enable test before.
QuietWhenDisabled ==
  ~enabled => \A t \in Threads: pc[t] \notin {"callback", "write"}

\* The logger closes the files it opens: besides the one it writes to, the
\* only ones still open are those it forgot because of an empty file name.
NoStreamLeak == open \cap Handles \subseteq {stream} \cup lost

\* A record reaches the callback and the stream under one set of settings: no
\* setting changes between the mask test and the write of another thread.
Atomic == INSTANCE AtomicLog
ImplementsAtomicLog == Atomic!Spec

\* Nobody waits behind a mutex that is not coming back: the thread that holds
\* it is delivering a record, and can go on by itself, unless the callback it
\* ran called the library.  std::mutex is not recursive, and such a callback
\* waits for its own thread for ever, and every other call behind it.
MutexComesBack ==
  \A t \in Threads:
    holder = t => pc[t] \in {"callback", "write"} \/ informed[t] \in Reentrant
=============================================================================
