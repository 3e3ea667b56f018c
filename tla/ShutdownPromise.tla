--------------------------- MODULE ShutdownPromise ---------------------------
(***************************************************************************)
(* What Server::run_with_shutdown promises its caller, without sockets,    *)
(* permits or handlers: while it runs, work begins; once asked to stop it  *)
(* starts no work of its own, lets the work in progress finish (and fork   *)
(* off what it needs to), and returns either when nothing is left, or when *)
(* it has waited long enough.  A listener that fails ends it at once.      *)
(***************************************************************************)
EXTENDS FiniteSets

CONSTANT Task          \* everything the server may be busy with

VARIABLES
  phase,               \* what the caller of the serve call can tell
  work                 \* the tasks in progress

vars == <<phase, work>>

Phase == {"running", "stopping", "clean", "abandoned", "failed"}

Init == phase = "running" /\ work = {}

Begin(t) ==            \* the server takes on new work only while it runs
  /\ phase = "running"
  /\ t \notin work
  /\ work' = work \cup {t}
  /\ UNCHANGED phase

Fork(s, t) ==          \* work in progress may start more, at any time
  /\ s \in work
  /\ t \notin work
  /\ work' = work \cup {t}
  /\ UNCHANGED phase

End(t) ==
  /\ t \in work
  /\ work' = work \ {t}
  /\ UNCHANGED phase

AskToStop == phase = "running" /\ phase' = "stopping" /\ UNCHANGED work

Fail == phase = "running" /\ phase' = "failed" /\ UNCHANGED work

ReturnClean ==
  phase = "stopping" /\ work = {} /\ phase' = "clean" /\ UNCHANGED work

ReturnLate ==
  phase = "stopping" /\ work # {} /\ phase' = "abandoned" /\ UNCHANGED work

Next ==
  \/ \E t \in Task : Begin(t) \/ End(t)
  \/ \E s, t \in Task : Fork(s, t)
  \/ AskToStop \/ Fail \/ ReturnClean \/ ReturnLate

Return == ReturnClean \/ ReturnLate

Spec == Init /\ [][Next]_vars /\ WF_vars(Return)

=============================================================================
