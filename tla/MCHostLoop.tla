----------------------------- MODULE MCHostLoop -----------------------------
(* The five hosts, each with every demo it can run.                        *)
EXTENDS TestHost, PythonHost, JavaHost, NativeHosts

TypeOK == RoutinesTypeOK /\ LoopTypeOK /\ JavaTypeOK /\ NativeTypeOK

vars == <<routines, loop, java, native>>

\* The runner's handler knows no journal.
Init ==
  \/ DriveInit /\ demo # "journal" /\ NoJava /\ JavaRest /\ NoNative
  \/ PythonInit /\ NoJava /\ JavaRest /\ NoNative
  \/ JavaInit /\ NoNative
  \/ NativeInit /\ NoJava /\ JavaRest

\* The loops on one thread.
Single == (Polling \/ DriveNext \/ PythonNext) /\ UNCHANGED <<java, native>>

Parallel == JavaNext /\ UNCHANGED native

Native == NativeNext /\ UNCHANGED java

Next == Single \/ Parallel \/ Native

\* Each thread runs on, and each task.
Spec ==
  /\ Init /\ [][Next]_vars
  /\ WF_vars(Single)
  /\ \A w \in WorkerIds : WF_vars(Works(w) /\ UNCHANGED native)
  /\ WF_vars(Tasks /\ UNCHANGED native) /\ WF_vars(Quiet /\ UNCHANGED native)
  /\ WF_vars(Native)

=============================================================================
