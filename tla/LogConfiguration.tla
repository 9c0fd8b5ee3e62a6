---------------------------- MODULE LogConfiguration ----------------------------
(***************************************************************************)
(* LogConfiguration: where log messages go and which of them, how this is  *)
(* read from a configuration file, and how it is written.                  *)
(*                                                                         *)
(* Flags are sets of the names of levels; FINE and DEBUG are one flag.  A  *)
(* level as it is written is a sequence of words, which stand between bars *)
(* in the file; a word is a name, with or without the letter T in front of *)
(* it.  A category is the sequence of its parts, which dots separate.      *)
(***************************************************************************)
EXTENDS Integers, Sequences, FiniteSets, SequencesExt, FiniteSetsExt, TLC

CONSTANTS
  Settable,    \* categories that settings may be made for
  Asked,       \* categories that log
  Kilo,        \* 1024 in the code
  WordSize     \* an unsigned int is less than this: 4 * 1024^3 in the code

ASSUME LogSizes == Kilo \in Nat \ {0} /\ WordSize \in Nat \ {0}

VARIABLE conf     \* the LogConfiguration

-----------------------------------------------------------------------------
(* Levels.                                                                 *)

Order == <<"FATAL", "ERROR", "WARN", "INFO", "DEBUG", "FINER", "FINEST">>
Trace == "TRACE"
NoFlag == "none"

\* The level that a name without T stands for: the whole name, or its first letter.
ByName(n) ==
  CASE n = "FINE" -> "DEBUG"
    [] n \in Range(Order) -> n
    [] OTHER -> NoFlag

ByLetter(n) == CASE n \in {"FINE", "FINER", "FINEST"} -> "FATAL" [] OTHER -> ByName(n)

Word(t, n) == [t |-> t, n |-> n]
NoWord == Word(FALSE, "")

\* str2logflag(): a word with T in front is no name of a level, and T is for TRACE.
str2logflag(w) == IF w.t THEN Trace ELSE ByName(w.n)

\* logFlag2logLevel()
UpTo(flag) == {Order[i] : i \in 1 .. IndexFirstSubSeq(<<flag>>, Order)}

LevelTrace == UpTo("DEBUG") \cup {Trace}

Thrown == {"thrown"}

\* str2logflags(): what is behind a bar at the begin is one word, further bars included.
str2logflags(words) ==
  LET first == words[1]
      one == IF Len(words) = 2 \/ words[2].t THEN str2logflag(words[2]) ELSE ByLetter(words[2].n)
      each == {str2logflag(words[i]) : i \in DOMAIN words}
  IN CASE first = NoWord /\ Len(words) = 1 -> Thrown
       [] first = NoWord /\ Len(words) > 1 -> IF one = NoFlag THEN Thrown ELSE {one}
       [] first # NoWord /\ Len(words) > 1 -> IF NoFlag \in each THEN Thrown ELSE each
       [] first # NoWord /\ Len(words) = 1 /\ first.t ->
            IF ByName(first.n) = NoFlag THEN LevelTrace ELSE UpTo(ByName(first.n)) \cup {Trace}
       [] OTHER -> IF ByName(first.n) = NoFlag THEN Thrown ELSE UpTo(ByName(first.n))

\* logLevel2Charp()
logLevel2Charp(flags) ==
  CASE flags = LevelTrace -> <<Word(TRUE, "RACE")>>
    [] \E i \in 1 .. Len(Order) : flags = UpTo(Order[i]) ->
         <<Word(FALSE, CHOOSE n \in Range(Order) : flags = UpTo(n))>>
    [] OTHER -> <<Word(FALSE, "FATAL")>>

-----------------------------------------------------------------------------
(* The configuration.                                                      *)

NewConf ==
  [fname |-> FALSE, maxfilesize |-> 0, maxbackupindex |-> 0, logport |-> FALSE, broadcast |-> TRUE,
   tostdout |-> FALSE, utc |-> FALSE, root |-> {}, flags |-> << >>]

\* logFlags(category): the settings of the nearest category above.
logFlags(c, category) ==
  LET above == {k \in DOMAIN c.flags : IsStrictPrefix(k, category) /\ k # << >>}
      best == CHOOSE k \in above : \A j \in above : Len(j) <= Len(k)
  IN CASE category \in DOMAIN c.flags -> c.flags[category]
       [] category \notin DOMAIN c.flags /\ above # {} -> c.flags[best]
       [] OTHER -> c.root

\* The appender that LogManager makes for a configuration.
AppenderOf(c) ==
  CASE c.fname /\ c.maxfilesize = 0 -> "file"
    [] c.fname /\ c.maxfilesize # 0 -> "rolling"
    [] ~c.fname /\ c.logport -> "udp"
    [] ~c.fname /\ ~c.logport /\ c.tostdout -> "stdout"
    [] OTHER -> "stderr"

WithFlags(f, k, v) == [j \in DOMAIN f \cup {k} |-> IF j = k THEN v ELSE f[j]]
NoFlags(f, k) == [j \in DOMAIN f \ {k} |-> f[j]]

-----------------------------------------------------------------------------
(* The setters.                                                            *)

SetRootLevel(words) ==
  /\ str2logflags(words) # Thrown
  /\ conf' = [conf EXCEPT !.root = str2logflags(words)]

\* setLogLevel(category, string): an empty string removes the setting.
SetLogLevel(category, words) ==
  \/ /\ words = <<NoWord>>
     /\ conf' = [conf EXCEPT !.flags = NoFlags(@, category)]
  \/ /\ words # <<NoWord>>
     /\ str2logflags(words) # Thrown
     /\ conf' = [conf EXCEPT !.flags = WithFlags(@, category, str2logflags(words))]

SetFile(size, backups) ==
  conf' = [conf EXCEPT !.fname = TRUE, !.maxfilesize = size, !.maxbackupindex = backups]

SetLoghost(broadcast) ==
  conf' = [conf EXCEPT !.fname = FALSE, !.logport = TRUE, !.broadcast = broadcast]

SetStdout == conf' = [conf EXCEPT !.logport = FALSE, !.tostdout = TRUE]
SetStderr == conf' = [conf EXCEPT !.logport = FALSE, !.tostdout = FALSE]
SetLogFormat(utc) == conf' = [conf EXCEPT !.utc = utc]

-----------------------------------------------------------------------------
(* Writing and reading.                                                    *)

If(condition, f) == IF condition THEN f ELSE << >>
Size(number, unit) == [number |-> number, unit |-> unit]
NoSize == Size(-1, "")   \* a text that is no number

\* operator<<=
Written(c) ==
  LET pairs == SetToSeq(DOMAIN c.flags)
  IN [rootlogger |-> logLevel2Charp(c.root),
      loggers |-> [i \in DOMAIN pairs |-> <<pairs[i], logLevel2Charp(c.flags[pairs[i]])>>],
      utc |-> c.utc]
     @@ If(c.fname, [file |-> TRUE])
     @@ If(c.fname /\ c.maxfilesize # 0,
           [maxfilesize |-> Size(c.maxfilesize, ""), maxbackupindex |-> c.maxbackupindex])
     @@ If(c.logport, [logport |-> TRUE])
     @@ If(c.logport /\ c.broadcast, [broadcast |-> TRUE])
     @@ If(c.tostdout, [tostdout |-> TRUE])

Factor(unit) ==
  CASE unit = "k" -> Kilo
    [] unit = "m" -> Kilo * Kilo
    [] unit = "g" -> Kilo * Kilo * Kilo
    [] OTHER -> 1

Member(s, name, default) == IF name \in DOMAIN s THEN s[name] ELSE default

Unreadable(s) == "file" \in DOMAIN s /\ Member(s, "maxfilesize", Size(0, "")) = NoSize

\* The destination.  What is not read is what the configuration had.
ReadDestination(c, s) ==
  CASE Unreadable(s) -> [c EXCEPT !.fname = TRUE, !.maxfilesize = 0]
    [] "file" \in DOMAIN s /\ "maxfilesize" \in DOMAIN s /\ ~Unreadable(s) ->
         [c EXCEPT !.fname = TRUE,
                   !.maxfilesize = (s.maxfilesize.number * Factor(s.maxfilesize.unit)) % WordSize,
                   !.maxbackupindex = Member(s, "maxbackupindex", @)]
    [] "file" \in DOMAIN s /\ "maxfilesize" \notin DOMAIN s -> [c EXCEPT !.fname = TRUE]
    [] "file" \notin DOMAIN s /\ "logport" \in DOMAIN s ->
         [c EXCEPT !.logport = TRUE, !.broadcast = Member(s, "broadcast", @)]
    [] OTHER -> [c EXCEPT !.tostdout = Member(s, "stdout", FALSE)]

\* How many of the settings are made before the first that is refused.
SettingsMade(list, refused) == IF refused = {} THEN Len(list) ELSE Min(refused) - 1

\* "loggers": no category twice, an empty level is FATAL.
LoggersFlags(words) == IF words = <<NoWord>> THEN UpTo("FATAL") ELSE str2logflags(words)
LoggersAccepted(c, list) ==
  LET refused == {i \in DOMAIN list : \/ list[i][1] \in DOMAIN c.flags \/ LoggersFlags(list[i][2]) = Thrown
                                      \/ \E j \in 1 .. i - 1 : list[j][1] = list[i][1]}
  IN SettingsMade(list, refused)
ReadLoggers(c, list) ==
  LET read == 1 .. LoggersAccepted(c, list)
  IN [c EXCEPT !.flags = [k \in {list[i][1] : i \in read} |->
                             LoggersFlags(list[CHOOSE i \in read : list[i][1] = k][2])] @@ @]

\* "logger": the last setting of a category counts, an empty level is none.
ReadLogger(c, list) ==
  LET refused == {i \in DOMAIN list : list[i][2] # <<NoWord>> /\ str2logflags(list[i][2]) = Thrown}
      read == {i \in 1 .. SettingsMade(list, refused) : list[i][2] # <<NoWord>>}
  IN [c EXCEPT !.flags = [k \in {list[i][1] : i \in read} |->
                             str2logflags(list[Max({i \in read : list[i][1] = k})][2])] @@ @]

\* operator>>=: how far it gets if it throws is kept.
ReadInto(c, s) ==
  LET placed == ReadDestination(c, s)
      sent == [placed EXCEPT !.utc = Member(s, "utc", @)]
      root == IF "rootlogger" \in DOMAIN s THEN str2logflags(s.rootlogger) ELSE UpTo("FATAL")
      rooted == [sent EXCEPT !.root = root]
      loggers == Member(s, "loggers", << >>)
      levelled == ReadLoggers(rooted, loggers)
  IN CASE Unreadable(s) -> placed
       [] ~Unreadable(s) /\ root = Thrown -> sent
       [] ~Unreadable(s) /\ root # Thrown /\ LoggersAccepted(rooted, loggers) < Len(loggers) -> levelled
       [] OTHER -> ReadLogger(levelled, Member(s, "logger", << >>))

-----------------------------------------------------------------------------
(* What the user does.                                                     *)

Names == {"FATAL", "INFO", "FINE", "FINEST", "bad"}
Levels == {<<Word(t, n)>> : t \in BOOLEAN, n \in Names} \cup {<<NoWord>>}
Bars == {<<w, v>> : w \in {NoWord, Word(FALSE, "INFO")}, v \in {Word(FALSE, "FINE"), Word(TRUE, "RACE")}}
  \cup {<<NoWord, Word(FALSE, "FINE"), Word(FALSE, "INFO")>>}
Some == {<<NoWord>>, <<Word(FALSE, "INFO")>>, <<Word(TRUE, "RACE")>>}

\* What stands in a configuration file.
Files ==
  [file : {TRUE}, maxfilesize : {Size(n, u) : n \in {1, 4}, u \in {"", "k", "m", "g"}} \cup {NoSize},
   rootlogger : {<<Word(FALSE, "INFO")>>, <<Word(FALSE, "bad")>>},
   loggers : {<<p, q>> : p \in Settable \X {<<NoWord>>, <<Word(FALSE, "bad")>>},
                        q \in Settable \X {<<Word(TRUE, "RACE")>>}},
   logger : {<< >>} \cup {<<p, q>> : p, q \in Settable \X {<<NoWord>>, <<Word(FALSE, "INFO")>>}}]

\* A setter.
SetSomething ==
  \/ \E l \in Levels \cup Bars : SetRootLevel(l)
  \/ \E k \in Settable, l \in Some : SetLogLevel(k, l)
  \/ \E n \in 0 .. 1 : SetFile(n, n)
  \/ \E b \in BOOLEAN : SetLoghost(b) \/ SetLogFormat(b)
  \/ SetStdout
  \/ SetStderr

\* A new configuration is read from what was written.
Load(file) == conf' = ReadInto(NewConf, file)

ConfInit == conf \in {NewConf} \cup {ReadInto(NewConf, f) : f \in Files}
ConfNext == SetSomething \/ Load(Written(conf))

-----------------------------------------------------------------------------
(* Properties.                                                             *)

\* The type invariant.
ConfTypeOK ==
  /\ conf.maxfilesize \in 0 .. WordSize - 1 /\ conf.maxbackupindex \in Nat
  /\ \A x \in {conf.fname, conf.logport, conf.broadcast, conf.tostdout, conf.utc} : x \in BOOLEAN
  /\ DOMAIN conf.flags \subseteq Settable
  /\ \A f \in {conf.root} \cup Range(conf.flags) : f \subseteq Range(Order) \cup {Trace}

SameLogging(c, d) ==
  /\ AppenderOf(c) = AppenderOf(d)
  /\ AppenderOf(c) = "rolling" =>
       c.maxfilesize = d.maxfilesize /\ c.maxbackupindex = d.maxbackupindex
  /\ AppenderOf(c) = "udp" => c.broadcast = d.broadcast
  /\ c.utc = d.utc
  /\ \A k \in Asked : logFlags(c, k) = logFlags(d, k)

IsLevel(f) == f = LevelTrace \/ \E n \in Range(Order) : f = UpTo(n)

\* Not kept: a configuration that was written logs the same when it is read again.
\* The name "tostdout" is read as "stdout", broadcast is written only if it is on,
\* which is what a new configuration has, and other sets of flags than the levels
\* become FATAL.
StoredIsKept == SameLogging(conf, ReadInto(NewConf, Written(conf)))

\* A configuration of levels, with none of the three things above, logs the same when it is
\* written and read again, whatever setters were called in whatever order.
StoredLevelsAreKept ==
  /\ AppenderOf(conf) # "stdout"
  /\ AppenderOf(conf) = "udp" => conf.broadcast
  /\ \A f \in {conf.root} \cup Range(conf.flags) : IsLevel(f)
  => StoredIsKept

ConfSound == ConfTypeOK /\ StoredLevelsAreKept

\* Not kept: a file for which a size is given is rotated.  The size is an unsigned int, and
\* four gigabytes are none.
RotatesWhenAsked ==
  \A f \in Files : f.maxfilesize # NoSize => AppenderOf(ReadInto(NewConf, f)) = "rolling"
=============================================================================
