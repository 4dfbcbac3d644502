---------------------------- MODULE MCRecording ----------------------------
(* Recording: each routine with its hazards: kinds of children, a panic,   *)
(* two recorders, machines of others, handles at the end of u64.           *)
(* Boundary: each host beside each sort of effect, a host older than the   *)
(* library, a host at fault.  The two share no state: a behaviour is of    *)
(* one, with the other at rest.                                            *)
EXTENDS Recording, Boundary

Of(root, twice, start, strangers) ==
  [root |-> root, twice |-> twice, start |-> start, strangers |-> strangers]

Once(root) == Of(root, FALSE, 1, 0)

RecordingSetups ==
  {Once("echo"), Once("panicker"), Once("pinner"), Once("speaker"),
   Of("spawner", TRUE, 1, 0), Of("spawner", FALSE, U64Max - 1, 1),
   Of("echo", FALSE, U64Max, 2), Of("speaker", FALSE, 1, 1)}

BrokenSetups == {Once("risky")}

Sort(lang, knows, yields, slips) ==
  [lang |-> lang, knows |-> knows, yields |-> yields, slips |-> slips]

Drivers ==
  {Sort("python", 1 .. 12, 2, 0), Sort("java", 1 .. 12, 2, 0),
   Sort("python", 1 .. 12, 1, 2), Sort("java", {4, 5}, 1, 0)}

Made == {"greeter", "ticker", "front-desk", "ping-pong", "journal"}

None == {}

EitherInit ==
  \/ Init /\ BoundaryRest
  \/ BoundaryInit /\ InitWith(Once("echo"), "sequential")

EitherNext ==
  \/ caller = << >> /\ Next /\ UNCHANGED boundary
  \/ BoundaryNext /\ UNCHANGED vars

Either == EitherInit /\ [][EitherNext]_<<vars, boundary>>

BothTypeOK == TypeOK /\ BoundaryTypeOK
=============================================================================
