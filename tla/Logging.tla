------------------------------- MODULE Logging -------------------------------
(***************************************************************************)
(* Log messages on their way from several threads to an appender, while    *)
(* logging is configured again.                                            *)
(*                                                                         *)
(* A message is a number.  The LogMessage::Impl that it is put together in *)
(* comes from a pool and goes back to it.  logMutex is held within one     *)
(* action, except by configure(), whose steps other threads see since they *)
(* look at _enabled and at the configuration without it.  A thread that is *)
(* about to take the mutex is counted, and the last one writes what was    *)
(* kept back.                                                              *)
(*                                                                         *)
(* getLogger() and configure() share the configuration and the map of      *)
(* loggers without a common mutex.  raced says that one wrote what the     *)
(* other one was using; what follows is undefined, and nothing does.       *)
(***************************************************************************)
EXTENDS LogConfiguration, SequencesExt, FiniteSetsExt

CONSTANTS
  Writers,       \* threads that write messages
  Configurers,   \* threads that call configure()
  Configs,       \* the configurations that are set
  Own,           \* the category "cxxtools.log", one of Asked
  Impls,         \* what messages are put together in
  MaxSpare,      \* size of the pool, 8 in the code
  Buffered,      \* lines in a buffer that are written anyway, 8192 bytes in the code
  MaxMessages,   \* bound: messages that are made
  MaxTracers,    \* bound: scopes that are traced at the same time
  MaxConfigured  \* bound: calls of configure()

ASSUME LogAssumption ==
  /\ IsFiniteSet(Writers \cup Configurers) /\ "none" \notin Writers \cup Configurers \cup Impls
  /\ Own \in Asked /\ MaxSpare \in Nat /\ Buffered \in Nat \ {0}
  /\ \A c \in Configs : c.maxfilesize \in Nat /\ c.maxbackupindex \in Nat

VARIABLES
  enabled,    \* LogManager::_enabled
  inForce,    \* the configuration of the LogManager
  appender,   \* [kind, max, backups, buffer, size]; the first configure() makes it
  loggers,    \* LogManager::Impl::_loggers: category -> flags
  waiting,    \* mutexWaitCount
  spare,      \* LPool: the free Impls, the last one is taken first
  text,       \* what each Impl holds: a sequence of messages
  thread,     \* what each thread does: [at, category, flags, impl, message, tracer, seen]
  mutex,      \* the thread that holds logMutex, or None
  draft,      \* the argument of configure()
  files,      \* of the rolling appender: the current file and those with an index
  messages,   \* messages made
  configured, \* calls of configure()
  put,        \* history: the lines given to appenders and not lost with them
  written,    \* history: the lines that were written
  rolled,     \* history: those that were written to files that are rotated
  silenced,   \* history: messages that were finished while logging was off
  old,        \* history: categories of loggers that were made beside configure()
  lost,       \* history: messages that went with an appender
  raced

logVars == <<enabled, inForce, appender, loggers, waiting, spare, text, thread, mutex, draft, files,
             messages, configured, put, written, rolled, silenced, old, lost, raced>>

LogThreads == Writers \cup Configurers
None == "none"
Resting == [at |-> "idle", category |-> << >>, flags |-> {}, impl |-> None, message |-> 0,
         tracer |-> FALSE, seen |-> 0]

At(t, where) == ~raced /\ thread[t].at = where
Goes(t, where) == thread' = [thread EXCEPT ![t].at = where]
Rests(t) == thread' = [thread EXCEPT ![t] = [Resting EXCEPT !.tracer = thread[t].tracer]]

\* There is a LogManager::Impl.
HasImpl == appender.kind # None
Someone(where) == \E t \in LogThreads : thread[t].at = where

\* Impls that a message is put together in.
InUse == {thread[t].impl : t \in LogThreads} \ {None}
AppenderVars == <<appender, files, put, written, rolled, lost>>

-----------------------------------------------------------------------------
(* Loggers.                                                                *)

\* The macro has seen that logging is on and that there is no logger yet.
AskLogger(t, c) ==
  /\ At(t, "idle") /\ enabled /\ c \notin DOMAIN loggers
  /\ thread' = [thread EXCEPT ![t].at = "asking", ![t].category = c]
  /\ UNCHANGED <<enabled, inForce, loggers, waiting, spare, text, mutex, draft, messages, configured,
                 silenced, old, raced, AppenderVars>>

\* Impl::getLogger(), under loggersMutex until the logger is in the map.
FindLogger(t) ==
  /\ At(t, "asking") /\ ~Someone("inserting")
  /\ raced' = Someone("copying")
  /\ IF thread[t].category \in DOMAIN loggers
     THEN Rests(t)
     ELSE thread' = [thread EXCEPT ![t].at = "inserting", ![t].seen = IF mutex = None THEN configured ELSE 0,
                                   ![t].flags = logFlags(inForce, thread[t].category)]
  /\ UNCHANGED <<enabled, inForce, loggers, waiting, spare, text, mutex, draft, messages, configured,
                 silenced, old, AppenderVars>>

InsertLogger(t) ==
  LET c == thread[t].category
  IN /\ At(t, "inserting")
     /\ raced' = Someone("setting levels")
     /\ loggers' = WithFlags(loggers, c, thread[t].flags)
     /\ old' = IF mutex # None \/ thread[t].seen # configured THEN old \cup {c} ELSE old
     /\ Rests(t)
     /\ UNCHANGED <<enabled, inForce, waiting, spare, text, mutex, draft, messages, configured,
                    silenced, AppenderVars>>

-----------------------------------------------------------------------------
(* Messages.                                                               *)

Loud(level) == {c \in DOMAIN loggers : level \in loggers[c]}

\* LPool::getInstance(): the look at the pool without its mutex may be wrong, and a new Impl
\* is made.
Taken == IF spare = << >> THEN {} ELSE {[impl |-> Last(spare), rest |-> Front(spare)]}
New ==
  LET others == Impls \ (InUse \cup Range(spare))
  IN IF others = {} THEN {} ELSE {[impl |-> CHOOSE i \in others : TRUE, rest |-> spare]}

\* log_info(): the level was asked for; the text goes to what the Impl holds.
Compose(t) ==
  /\ At(t, "idle") /\ enabled /\ messages < MaxMessages
  /\ Loud("INFO") # {}
  /\ \E g \in Taken \cup New :
       /\ spare' = g.rest
       /\ text' = [text EXCEPT ![g.impl] = Append(@, messages + 1)]
       /\ thread' = [thread EXCEPT ![t].at = "composed", ![t].impl = g.impl, ![t].message = messages + 1]
  /\ messages' = messages + 1
  /\ UNCHANGED <<enabled, inForce, loggers, waiting, mutex, draft, configured, silenced, old, raced,
                 AppenderVars>>

\* log_trace(): the tracer has a text of its own.
EnterScope(t) ==
  /\ At(t, "idle") /\ enabled /\ messages < MaxMessages
  /\ ~thread[t].tracer /\ Loud(Trace) # {}
  /\ Cardinality({u \in LogThreads : thread[u].tracer}) < MaxTracers
  /\ thread' = [thread EXCEPT ![t].at = "composed", ![t].message = messages + 1, ![t].tracer = TRUE]
  /\ messages' = messages + 1
  /\ UNCHANGED <<enabled, inForce, loggers, waiting, spare, text, mutex, draft, configured, silenced,
                 old, raced, AppenderVars>>

\* The end of the scope: nobody asks for the level again.
ExitScope(t) ==
  /\ At(t, "idle") /\ messages < MaxMessages
  /\ thread[t].tracer
  /\ thread' = [thread EXCEPT ![t].at = "composed", ![t].message = messages + 1, ![t].tracer = FALSE]
  /\ messages' = messages + 1
  /\ UNCHANGED <<enabled, inForce, loggers, waiting, spare, text, mutex, draft, configured, silenced,
                 old, raced, AppenderVars>>

\* finish() when logging is off: the Impl keeps its text.
FinishSilent(t) ==
  /\ At(t, "composed") /\ ~enabled
  /\ silenced' = silenced \cup {thread[t].message}
  /\ Goes(t, "done")
  /\ UNCHANGED <<enabled, inForce, loggers, waiting, spare, text, mutex, draft, messages, configured,
                 old, raced, AppenderVars>>

FinishLoud(t) ==
  /\ At(t, "composed") /\ enabled
  /\ Goes(t, "counting")
  /\ UNCHANGED <<enabled, inForce, loggers, waiting, spare, text, mutex, draft, messages, configured,
                 silenced, old, raced, AppenderVars>>

\* ScopedAtomicIncrementer
Count(t) ==
  /\ At(t, "counting")
  /\ waiting' = waiting + 1
  /\ Goes(t, "waiting")
  /\ UNCHANGED <<enabled, inForce, loggers, spare, text, mutex, draft, messages, configured, silenced,
                 old, raced, AppenderVars>>

-----------------------------------------------------------------------------
(* Appenders.  A line is the sequence of the messages in it.               *)

RotateLine == <<0>>

\* doRotate(): what is behind the last index is dropped.
Renamed(fs, backups) == << << >> >> \o SubSeq(fs, 1, Min({Len(fs), backups + 1}))

Rotates == appender.kind = "rolling" /\ appender.size >= appender.max

\* log_info_enabled() in doRotate() makes the logger if there is none.
OwnLoggers ==
  IF Rotates /\ enabled /\ Own \notin DOMAIN loggers
  THEN WithFlags(loggers, Own, logFlags(inForce, Own)) ELSE loggers

\* "rotate file" goes to the old file, with all that was kept back.
Announced == enabled /\ "INFO" \in OwnLoggers[Own]

\* clear()
Cleared(impl) == IF impl = None THEN text ELSE [text EXCEPT ![impl] = << >>]

LineOf(t) == IF thread[t].impl = None THEN <<thread[t].message>> ELSE text[thread[t].impl]

\* Deviation: the last one who waits does not write what was kept back.
BufferFullOnly(buffer, flush) == Len(buffer) >= Buffered

\* What was kept back is written.
BufferFull(buffer, flush) == flush \/ Len(buffer) >= Buffered

\* putMessage() and finish() of the appenders for files and descriptors.
Keep(line, flush) ==
  LET told == Rotates /\ Announced
      first == IF told THEN Append(appender.buffer, RotateLine) ELSE << >>
      buffer == Append(IF told THEN << >> ELSE appender.buffer, line)
      full == BufferFull(buffer, flush)
      second == IF full THEN buffer ELSE << >>
      closed == IF Rotates THEN Renamed([files EXCEPT ![1] = @ \o first], appender.backups) ELSE files
  IN /\ appender' = [appender EXCEPT !.buffer = IF full THEN << >> ELSE buffer,
                                     !.size = (IF Rotates THEN 0 ELSE @) + 1]
     /\ files' = IF appender.kind = "rolling" THEN [closed EXCEPT ![1] = @ \o second] ELSE files
     /\ written' = written \o first \o second
     /\ rolled' = IF appender.kind = "rolling" THEN rolled \o first \o second ELSE rolled
     /\ put' = put \o (IF told THEN <<RotateLine>> ELSE << >>) \o <<line>>
     /\ UNCHANGED lost

\* UdpAppender: every line is sent at once, and an error is ignored.
SendLine(line) ==
  \/ /\ put' = Append(put, line)
     /\ written' = Append(written, line)
     /\ UNCHANGED <<appender, files, rolled, lost>>
  \/ UNCHANGED AppenderVars

\* Under the mutex: the line is put and the thread counted out.
PutLine(t) ==
  /\ At(t, "waiting") /\ mutex = None
  /\ OwnLoggers # loggers => ~Someone("inserting")
  /\ waiting' = waiting - 1
  /\ IF appender.kind = "udp" THEN SendLine(LineOf(t)) ELSE Keep(LineOf(t), waiting' = 0)
  /\ loggers' = OwnLoggers
  /\ text' = Cleared(thread[t].impl)
  /\ Goes(t, "done")
  /\ UNCHANGED <<enabled, inForce, spare, mutex, draft, messages, configured, silenced, old, raced>>

\* LPool::releaseInstance()
Release(t) ==
  LET i == thread[t].impl
      room == i # None /\ Len(spare) < MaxSpare
  IN /\ At(t, "done")
     /\ spare' = IF room THEN Append(spare, i) ELSE spare
     /\ text' = IF i # None /\ ~room THEN [text EXCEPT ![i] = << >>] ELSE text
     /\ Rests(t)
     /\ UNCHANGED <<enabled, inForce, loggers, waiting, mutex, draft, messages, configured, silenced, old,
                    raced, AppenderVars>>

-----------------------------------------------------------------------------
(* LogManager::configure(), step by step.                                  *)

Configure(t, c) ==
  /\ At(t, "idle") /\ mutex = None /\ configured < MaxConfigured
  /\ mutex' = t /\ draft' = c /\ configured' = configured + 1
  /\ enabled' = FALSE
  /\ Goes(t, "making the appender")
  /\ UNCHANGED <<inForce, loggers, waiting, spare, text, messages, silenced, old, raced, AppenderVars>>

\* A configuration without a level for the root changes nothing, except the first one.
ConfigureNothing(t) ==
  /\ At(t, "making the appender")
  /\ HasImpl /\ draft.root = {}
  /\ Goes(t, "switching on")
  /\ UNCHANGED <<enabled, inForce, loggers, waiting, spare, text, mutex, draft, messages, configured,
                 silenced, old, raced, AppenderVars>>

\* The old appender goes with what it kept back.
NewAppender(t) ==
  /\ At(t, "making the appender")
  /\ ~HasImpl \/ draft.root # {}
  /\ appender' = [kind |-> AppenderOf(draft), max |-> draft.maxfilesize, backups |-> draft.maxbackupindex,
                  buffer |-> << >>, size |-> Len(files[1])]
  /\ lost' = lost \cup UNION {Range(l) : l \in Range(appender.buffer)}
  /\ put' = SubSeq(put, 1, Len(put) - Len(appender.buffer))
  /\ Goes(t, "copying")
  /\ UNCHANGED <<enabled, inForce, loggers, waiting, spare, text, mutex, draft, files, messages, configured,
                 written, rolled, silenced, old, raced>>

\* The host is not found: configure() throws.
NoAppenderMade(t) ==
  /\ At(t, "making the appender")
  /\ ~HasImpl \/ draft.root # {}
  /\ AppenderOf(draft) = "udp"
  /\ mutex' = None
  /\ Goes(t, "idle")
  /\ UNCHANGED <<enabled, inForce, loggers, waiting, spare, text, draft, messages, configured, silenced,
                 old, raced, AppenderVars>>

\* _config = config deletes the old one first.
Copied(t) ==
  /\ At(t, "copying")
  /\ inForce' = draft
  /\ Goes(t, "setting levels")
  /\ UNCHANGED <<enabled, loggers, waiting, spare, text, mutex, draft, messages, configured, silenced,
                 old, raced, AppenderVars>>

LevelsSet(t) ==
  /\ At(t, "setting levels")
  /\ loggers' = [c \in DOMAIN loggers |-> logFlags(inForce, c)]
  /\ old' = old \ DOMAIN loggers
  /\ Goes(t, "switching on")
  /\ UNCHANGED <<enabled, inForce, waiting, spare, text, mutex, draft, messages, configured, silenced,
                 raced, AppenderVars>>

SwitchedOn(t) ==
  /\ At(t, "switching on")
  /\ enabled' = TRUE /\ mutex' = None
  /\ Goes(t, "idle")
  /\ UNCHANGED <<inForce, loggers, waiting, spare, text, draft, messages, configured, silenced, old, raced,
                 AppenderVars>>

Disable(t) ==
  /\ At(t, "idle") /\ enabled /\ configured < MaxConfigured
  /\ enabled' = FALSE
  /\ UNCHANGED <<inForce, loggers, waiting, spare, text, thread, mutex, draft, messages, configured,
                 silenced, old, raced, AppenderVars>>

-----------------------------------------------------------------------------
LogInit ==
  /\ enabled = FALSE /\ inForce = NewConf /\ loggers = << >> /\ waiting = 0
  /\ appender = [kind |-> None, max |-> 0, backups |-> 0, buffer |-> << >>, size |-> 0]
  /\ spare = << >> /\ text = [i \in Impls |-> << >>] /\ thread = [t \in LogThreads |-> Resting]
  /\ mutex = None /\ draft = NewConf /\ files = << << >> >>
  /\ messages = 0 /\ configured = 0
  /\ put = << >> /\ written = << >> /\ rolled = << >> /\ silenced = {} /\ old = {} /\ lost = {} /\ raced = FALSE

LogNext ==
  \/ \E t \in Writers :
       \/ \E c \in Asked : AskLogger(t, c)
       \/ FindLogger(t) \/ InsertLogger(t)
       \/ Compose(t) \/ EnterScope(t) \/ ExitScope(t)
       \/ FinishSilent(t) \/ FinishLoud(t) \/ Count(t) \/ PutLine(t) \/ Release(t)
  \/ \E t \in Configurers :
       \/ \E c \in Configs : Configure(t, c)
       \/ ConfigureNothing(t) \/ NewAppender(t) \/ NoAppenderMade(t)
       \/ Copied(t) \/ LevelsSet(t) \/ SwitchedOn(t)
       \/ Disable(t)

LogSpec == LogInit /\ [][LogNext]_logVars

-----------------------------------------------------------------------------
(* Properties.                                                             *)

\* The type invariant.
LogTypeOK ==
  /\ waiting = Cardinality({t \in LogThreads : thread[t].at = "waiting"})
  /\ enabled => HasImpl
  /\ DOMAIN loggers \subseteq Asked
  /\ files # << >> /\ Len(spare) <= MaxSpare

\* Lines are kept back only while there is a thread that will put one behind them
\* and write them: nothing stays in the buffer when everybody is quiet.
NothingIsKeptBack == appender.buffer # << >> => Someone("waiting")

\* Every line that was given to an appender is written once and in order, if it is not
\* lost with the appender.
WrittenInOrder == put = written \o appender.buffer

\* The line of a message ends with the text of this message, and what is in front of it
\* was finished while logging was off.
EndsWithItsText ==
  \A i \in DOMAIN put : put[i] # RotateLine =>
    /\ Range(Front(put[i])) \subseteq silenced
    /\ \A j \in 1 .. i - 1 : put[j] # RotateLine => Last(put[i]) # Last(put[j])

\* Not kept: a line has the text of one message.  finish() returns without clear() when
\* logging is off, and the next message that gets the Impl goes behind that text.
OnlyItsText == \A i \in DOMAIN put : Len(put[i]) = 1

\* An Impl is used by one thread, or is spare once.
ImplHasOneUser ==
  /\ IsInjective(spare)
  /\ Range(spare) \cap InUse = {}
  /\ \A t, u \in LogThreads : t # u /\ thread[t].impl # None => thread[t].impl # thread[u].impl

\* The files, the current one first, are the end of these lines, each in front of the one before it.
AreTheEnd(fs, lines) ==
  \E from \in [DOMAIN fs -> 0 .. Len(lines)] : \A i \in DOMAIN fs :
    /\ from[i] + Len(fs[i]) = IF i = 1 THEN Len(lines) ELSE from[i - 1]
    /\ \A j \in DOMAIN fs[i] : fs[i][j] = lines[from[i] + j]

\* The files, from the last index to the current one, hold the last lines that were
\* written to them, in order, and none is longer than its limit and what may be kept back.
RotatedInOrder ==
  /\ AreTheEnd(files, rolled)
  /\ \A i \in DOMAIN files : files[i] # << >> =>
       \E c \in Configs : Len(files[i]) <= c.maxfilesize + Buffered

\* Loggers that were not made while configure() was at work have the levels in force.
LevelsInForce ==
  mutex = None /\ ~raced => \A c \in DOMAIN loggers \ old : loggers[c] = logFlags(inForce, c)

\* Not kept: all of them have.
AllLevelsInForce ==
  mutex = None /\ ~raced => \A c \in DOMAIN loggers : loggers[c] = logFlags(inForce, c)

\* Not kept: a line that was put is written.  configure() drops the appender with what it
\* has kept back for a thread that waits for the mutex.
NothingIsLost == lost = {}

\* Not kept: nobody uses what configure() changes.
NoRace == ~raced

\* Lines, Impls, files and levels, in one formula.
LogSound ==
  /\ LogTypeOK /\ NothingIsKeptBack /\ WrittenInOrder /\ EndsWithItsText /\ ImplHasOneUser
  /\ RotatedInOrder /\ LevelsInForce
=============================================================================
