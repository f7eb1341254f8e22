------------------------------ MODULE MCLogger ------------------------------
(* Instances of Logger for TLC. *)
EXTENDS Logger, TLC

CONSTANTS t1, t2, h1, h2, plain, calling

RequestsOf(apis) == {r \in AllRequests: r.api \in apis}

\* Both threads lend their stream and make the logger forget it; t1 opens
\* files and disables the logger, t2 changes what is recorded and who is told.
DeliveryRequests(t) ==
  RequestsOf({"SetFile"}) \cup
  IF t = t1
  THEN RequestsOf({"OpenFile", "ForceDisable"})
  ELSE      RequestsOf({"Contraction"})
       \cup [api: {"SetCallback"}, arg: Callbacks]
       \cup [api: {"SetMask"}, arg: {Levels, {"out_of_range"}}]
       \cup [api: {"SetLevel"}, arg: {{}, {"combined"}}]

\* Only streams that the program opened.
FileRequests(t) == RequestsOf({"SetFile"})

\* The files are interchangeable, the threads have roles.
Symmetry == Permutations({h1, h2})
=============================================================================
