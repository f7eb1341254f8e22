----------------------------- MODULE AtomicLog -----------------------------
(***************************************************************************)
(* What the logger promises to the rest of the library: its settings       *)
(* change one call at a time, and a record is delivered, to the callback    *)
(* and to the stream, in one indivisible step under one set of settings.    *)
(* Logger.tla implements it with a mutex held across the callback and the   *)
(* write.                                                                   *)
(***************************************************************************)
CONSTANTS
  Levels,      \* the logging contexts, one bit of the mask each
  Streams,     \* the FILE* values a record can be written to
  Callbacks,   \* the functions that can be registered
  Stdout,      \* the initial stream
  NULL         \* no callback, no record

VARIABLES
  mask,        \* the contexts that are recorded
  enabled,     \* FALSE once the logger is disabled
  stream,      \* where records are written
  callback,    \* the registered function, or NULL
  last         \* the record delivered last

vars == <<mask, enabled, stream, callback, last>>

Record == [context: Levels, stream: Streams, callback: Callbacks \cup {NULL}]

Init ==
  /\ mask = {}
  /\ enabled = TRUE
  /\ stream = Stdout
  /\ callback = NULL
  /\ last = NULL

SetMask ==
  /\ mask' \in SUBSET Levels
  /\ UNCHANGED <<enabled, stream, callback, last>>

SetStream ==
  /\ stream' \in Streams
  /\ UNCHANGED <<mask, enabled, callback, last>>

SetCallback ==
  /\ callback' \in Callbacks \cup {NULL}
  /\ UNCHANGED <<mask, enabled, stream, last>>

\* There is no way back: nothing re-enables a disabled logger.
Disable ==
  /\ enabled' = FALSE
  /\ UNCHANGED <<mask, stream, callback, last>>

Emit(context) ==
  /\ enabled
  /\ context \in mask
  /\ last' = [context |-> context, stream |-> stream, callback |-> callback]
  /\ UNCHANGED <<mask, enabled, stream, callback>>

Next ==
  \/ SetMask
  \/ SetStream
  \/ SetCallback
  \/ Disable
  \/ \E context \in Levels: Emit(context)

Spec == Init /\ [][Next]_vars
=============================================================================
