------------------------------- MODULE MCShared -------------------------------
(***************************************************************************)
(* What several threads share without a network: the queue, and logging.   *)
(* They share no state; part says which of them a behaviour is about, and  *)
(* the other stays as it is.  The configuration conf is not about threads: *)
(* its operations are part of MCFormats.                                   *)
(***************************************************************************)
EXTENDS Queue, Logging

VARIABLE part

sharedVars == <<part, vars, logVars, conf>>

\* Threads and elements of the queue are only compared for equality.
Symmetry == Permutations(Threads) \cup Permutations(Elements)

\* Logging: one category below the one that is configured, and its appenders: standard error
\* by a configuration that sets nothing, a host, and a file that is rotated.
MCSettable == {<<"cxxtools">>, <<"cxxtools", "log">>}
MCOwn == <<"cxxtools", "log">>
MCAsked == {MCOwn}
MCConfigs ==
  {NewConf, [NewConf EXCEPT !.root = UpTo("INFO"), !.logport = TRUE],
   [NewConf EXCEPT !.root = UpTo("FATAL"), !.fname = TRUE, !.maxfilesize = 1, !.maxbackupindex = 1,
                   !.flags = <<"cxxtools">> :> LevelTrace]}

SharedInit ==
  /\ part \in {"queue", "log"}
  /\ Init /\ LogInit /\ conf = NewConf

SharedNext ==
  /\ UNCHANGED <<part, conf>>
  /\ \/ part = "queue" /\ Next /\ UNCHANGED logVars
     \/ part = "log" /\ LogNext /\ UNCHANGED vars

SharedSpec == SharedInit /\ [][SharedNext]_sharedVars
=============================================================================
