------------------------------ MODULE ApiConfig -----------------------------
(***************************************************************************)
(* api_config.rs: the configuration of the api-only edition, read from the *)
(* environment and then from the command line.  A text is a word; Reads    *)
(* says what the parser of each type makes of it.                          *)
(***************************************************************************)
EXTENDS Integers, Sequences

CONSTANT Reads      \* Reads[type][word], for the words that type can parse

\* A query that is empty is blank.
ASSUME ReadsAssumption ==
    /\ \A word \in DOMAIN Reads.u8 : Reads.u8[word] \in 0 .. 255
    /\ \A word \in DOMAIN Reads.u32 : Reads.u32[word] \in Nat
    /\ "" \notin DOMAIN Reads.query

\* Every text is a list of engines.
Texts == DOMAIN Reads.engines

\* Of every option its type, its default, and whether there is a flag for it.
Option(type, default, flag) == [type |-> type, default |-> default, flag |-> flag]
Options ==
    [bind |-> Option("bind", "127.0.0.1:8080", TRUE),
     threads |-> Option("u8", 4, TRUE),
     request_timeout |-> Option("u8", 30, TRUE),
     tcp_connection_keep_alive |-> Option("u8", 30, FALSE),
     pool_idle_connection_timeout |-> Option("u8", 30, FALSE),
     number_of_https_connections |-> Option("u8", 10, FALSE),
     operating_system_tls_certificates |-> Option("bool", TRUE, FALSE),
     adaptive_window |-> Option("bool", TRUE, FALSE),
     safe_search |-> Option("u8", 2, TRUE),
     client_connection_keep_alive |-> Option("u8", 120, FALSE),
     number_of_requests |-> Option("u8", 20, TRUE),
     time_limit |-> Option("u8", 3, TRUE),
     engines |-> Option("engines", {"duckduckgo"}, TRUE),
     proxy |-> Option("proxy", "none", TRUE)]

Parses(option, word) == word \in DOMAIN Reads[Options[option].type]
Parsed(option, word) == Reads[Options[option].type][word]

ConfigError(type) ==
    CASE type = "bind" -> "BadBind" [] type = "u8" -> "BadInt"
      [] type = "bool" -> "BadBool" [] type = "proxy" -> "BadProxy"

Flags ==
    [bind |-> "--bind", threads |-> "--threads", request_timeout |-> "--request-timeout",
     number_of_requests |-> "--rate-limit-rps", time_limit |-> "--rate-limit-window",
     safe_search |-> "--safe-search", engines |-> "--engines", proxy |-> "--proxy"]
FlagOf(word) == CHOOSE option \in DOMAIN Flags : Flags[option] = word
IsFlag(word) == \E option \in DOMAIN Flags : Flags[option] = word

defaults == [option \in DOMAIN Options |-> Options[option].default]

\* What has been read so far: the options, the option whose flag was the last
\* word, and "reading" or how the reading ended.
Reading(values, flag, end) == [values |-> values, flag |-> flag, end |-> end]

\* Mutant of Assign: what the environment has set stays.
AssignUnset(reading, option, word) ==
    IF ~Parses(option, word) THEN [reading EXCEPT !.end = ConfigError(Options[option].type)]
    ELSE IF reading.values[option] # defaults[option] THEN [reading EXCEPT !.flag = "none"]
    ELSE Reading([reading.values EXCEPT ![option] = Parsed(option, word)], "none", reading.end)

Assign(reading, option, word) ==
    IF Parses(option, word)
      THEN Reading([reading.values EXCEPT ![option] = Parsed(option, word)], "none", reading.end)
      ELSE [reading EXCEPT !.end = ConfigError(Options[option].type)]

\* A variable whose value is no unicode text counts as unset.
NotUnicode == "not unicode"
IsSet(env, option) == option \in DOMAIN env /\ env[option] # NotUnicode

\* The errors differ in their message only: the first by name stands for any.
from_env(env) ==
    LET bad == {o \in DOMAIN env : IsSet(env, o) /\ ~Parses(o, env[o])}
    IN  IF bad # {} THEN Reading(defaults, "none", ConfigError(Options[CHOOSE o \in bad : TRUE].type))
        ELSE Reading([o \in DOMAIN Options |-> IF IsSet(env, o) THEN Parsed(o, env[o])
                                               ELSE defaults[o]], "none", "reading")

\* The word after a flag is its value, whatever it looks like.
NextWord(reading, word) ==
    IF reading.end # "reading" THEN reading
    ELSE IF reading.flag # "none" THEN Assign(reading, reading.flag, word)
    ELSE IF IsFlag(word) THEN [reading EXCEPT !.flag = FlagOf(word)]
    ELSE [reading EXCEPT !.end = IF word \in {"--help", "-h"} THEN "HelpRequested"
                                 ELSE IF word \in {"--version", "-V"} THEN "version" ELSE "BadFlag"]

\* The checks that follow see what is in force, so that a flag can mend a bad
\* value of the environment if that could be parsed.
Validated(reading) ==
    IF reading.end # "reading" THEN reading
    ELSE IF reading.flag # "none" THEN [reading EXCEPT !.end = "BadFlag"]
    ELSE IF reading.values.safe_search > 2 THEN [reading EXCEPT !.end = "SafesearchUnsupported"]
    ELSE IF reading.values.threads = 0 \/ reading.values.engines = {}
           THEN [reading EXCEPT !.end = "InvalidValue"]
    ELSE [reading EXCEPT !.end = "ok"]

\* reading[n] is what the environment and the first n words make.
AllWords(env, args) ==
    LET reading[n \in 0 .. Len(args)] ==
          IF n = 0 THEN from_env(env) ELSE NextWord(reading[n - 1], args[n])
    IN  reading[Len(args)]

from_env_and_args(env, args) == Validated(AllWords(env, args))

-----------------------------------------------------------------------------
(* What the help text promises: flag, else environment, else default.      *)

\* The values a command line gives an option by its flag, if it is made of flags
\* and values in turn.
Given(args, option) ==
    {i \in DOMAIN args : i % 2 = 0 /\ option \in DOMAIN Flags /\ args[i - 1] = Flags[option]}

Preferred(env, args, option) ==
    IF Given(args, option) # {}
      THEN Parsed(option, args[CHOOSE i \in Given(args, option) : \A j \in Given(args, option) : j <= i])
    ELSE IF IsSet(env, option) THEN Parsed(option, env[option])
    ELSE Options[option].default

\* A command line of flags and values in turn, all of which can be parsed.
WellFormed(args) ==
    /\ Len(args) % 2 = 0
    /\ \A i \in DOMAIN args :
         IF i % 2 = 1 THEN IsFlag(args[i]) ELSE IsFlag(args[i - 1]) /\ Parses(FlagOf(args[i - 1]), args[i])
=============================================================================
