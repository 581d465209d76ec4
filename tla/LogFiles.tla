------------------------------- MODULE LogFiles -------------------------------
(***************************************************************************)
(* The logger a configuration yields (src/logger), where its records go,   *)
(* and what is left of them: standard output, the log file and the error   *)
(* file, with the rotation of lumberjack, through crashes and restarts.    *)
(*                                                                         *)
(* Every record has size one.  The caller is the Helper of kratos, which   *)
(* ends the process after a record of level "fatal".  Compression changes  *)
(* none of the records of a file.                                          *)
(***************************************************************************)
EXTENDS Naturals, Sequences, FiniteSets, SequencesExt

CONSTANTS
    Absent,            \* no Logger or Zap section
    FileName,          \* the names of files, "" included
    Section,           \* the Logger sections of configuration files
    Emitted,           \* the levels of the records the program emits
    DefaultMaxSize,    \* 100 in option.go
    DefaultMaxBackups, \* 10 in option.go
    DefaultMaxAge,     \* 3 days in option.go
    MaxRecords,        \* bound: records emitted
    MaxStarts          \* bound: starts of the process

Levels == <<"debug", "info", "warn", "error", "fatal">>
Level == ToSet(Levels)
Rank(level) == CHOOSE i \in DOMAIN Levels : Levels[i] = level

DefaultFileName == "./logs/myapp.log"
DefaultErrorFileName == "./logs/error.log"

\* A text that UnmarshalText of zap does not know.
UnknownLevel == "verbose"

Switch == {"on", "off", "omitted"}

\* What a file may say.
Logger_Zap == [enable_console : Switch, enable_file : Switch, enable_error_file : Switch,
               filename : FileName, error_filename : FileName,
               level : Level \cup {"", UnknownLevel}, max_size : Nat, max_backups : Nat,
               max_age : Nat]

Logger == [type : {"std", "zap", "other"}, zap : Logger_Zap \cup {Absent}]

ASSUME LogFilesAssumption ==
    /\ Section \subseteq Logger \cup {Absent}
    /\ {"", DefaultFileName, DefaultErrorFileName} \subseteq FileName
    /\ Emitted \subseteq Level
    /\ {DefaultMaxSize, DefaultMaxBackups, DefaultMaxAge} \subseteq Nat \ {0}
    /\ MaxRecords \in Nat /\ MaxStarts \in Nat \ {0}

VARIABLES
    section,    \* the Logger section of this deployment
    production, \* GO_ENV is "production"
    up,         \* the process runs
    starts,     \* how often it was started
    records,    \* what the program emitted: the level, and whether keys have values
    console,    \* the records on standard output
    disk,       \* the files and the two writers that are open
    aged        \* the records up to this one are older than max_age days

logVars == <<section, production, up, starts, records, console, disk, aged>>

-----------------------------------------------------------------------------
(* logger/logger.go and logger/zap/option.go: from the section to the Config *)

\* Fields of proto3 have no presence.
Scanned(switch) == switch = "on"

OrDefault(value, unset, default) == IF value = unset THEN default ELSE value

\* newConfigByOpts without options.
DefaultConfig ==
    [console |-> TRUE, file |-> TRUE, errorFile |-> TRUE, name |-> DefaultFileName,
     errorName |-> DefaultErrorFileName, level |-> IF production THEN "info" ELSE "debug",
     maxSize |-> DefaultMaxSize, maxBackups |-> DefaultMaxBackups, maxAge |-> DefaultMaxAge]

\* Faulty variant: sizes are taken over as they are.
WithOptionsUnguarded(z) ==
    [console |-> Scanned(z.enable_console), file |-> Scanned(z.enable_file),
     errorFile |-> Scanned(z.enable_error_file),
     name |-> OrDefault(z.filename, "", DefaultFileName),
     errorName |-> OrDefault(z.error_filename, "", DefaultErrorFileName),
     level |-> OrDefault(z.level, "", DefaultConfig.level),
     maxSize |-> OrDefault(z.max_size, 0, DefaultMaxSize), maxBackups |-> z.max_backups,
     maxAge |-> OrDefault(z.max_age, 0, DefaultMaxAge)]

\* The With options NewLogger collects; the level can be parsed.
WithOptions(z) ==
    [console |-> Scanned(z.enable_console), file |-> Scanned(z.enable_file),
     errorFile |-> Scanned(z.enable_error_file),
     name |-> OrDefault(z.filename, "", DefaultFileName),
     errorName |-> OrDefault(z.error_filename, "", DefaultErrorFileName),
     level |-> OrDefault(z.level, "", DefaultConfig.level),
     maxSize |-> OrDefault(z.max_size, 0, DefaultMaxSize),
     maxBackups |-> OrDefault(z.max_backups, 0, DefaultMaxBackups),
     maxAge |-> OrDefault(z.max_age, 0, DefaultMaxAge)]

Config == IF section.zap = Absent THEN DefaultConfig ELSE WithOptions(section.zap)

\* What NewLogger returns: a logger of kratos, one of zap, or nil.
NewLogger ==
    IF section = Absent \/ section.type # "zap" THEN "std"
    ELSE IF section.zap # Absent /\ section.zap.level = UnknownLevel THEN "nil"
    ELSE "zap"

-----------------------------------------------------------------------------
(* lumberjack: one writer for each file of NewZapLogger *)

Writer == {"log", "errors"}

\* Faulty variant: a copy of getLogWriter in which a field was not changed.
SameTarget(w) == Config.name

\* getLogWriter and getErrorLogWriter.
Target(w) == IF w = "log" THEN Config.name ELSE Config.errorName

Enabled(w) ==
    /\ NewLogger = "zap"
    /\ IF w = "log" THEN Config.file ELSE Config.errorFile

Closed == [file |-> 0, size |-> 0, mill |-> FALSE]

\* openNew: what has the name becomes a backup, a new file gets the name.
OpenNew(d, w) ==
    LET n == Target(w)
        new == Len(d.content) + 1
    IN  [d EXCEPT !.backups[n] = IF d.named[n] = 0 THEN @ ELSE Append(@, d.named[n]),
                  !.named[n] = new,
                  !.content = Append(@, <<>>),
                  !.writer[w] = [@ EXCEPT !.file = new, !.size = 0]]

Mill(d, w) == [d EXCEPT !.writer[w].mill = TRUE]

\* openExistingOrNew, or rotate if the next record does not fit.
Ready(d, w) ==
    LET n == Target(w)
        old == d.named[n]
    IN  IF d.writer[w].file # 0
        THEN IF d.writer[w].size + 1 > Config.maxSize THEN Mill(OpenNew(d, w), w) ELSE d
        ELSE IF old # 0 /\ Len(d.content[old]) + 1 < Config.maxSize
             THEN Mill([d EXCEPT !.writer[w] = [@ EXCEPT !.file = old,
                                                         !.size = Len(d.content[old])]], w)
        ELSE Mill(OpenNew(d, w), w)

Written(d, w, r) ==
    LET e == Ready(d, w)
    IN  [e EXCEPT !.content[e.writer[w].file] = Append(@, r), !.writer[w].size = @ + 1]

\* The records in the file that has this name and in its backups.
Kept(n) ==
    LET files == ({disk.named[n]} \ {0}) \cup ToSet(disk.backups[n])
    IN  UNION {ToSet(disk.content[f]) : f \in files}

-----------------------------------------------------------------------------
LogTypeOK ==
    /\ section \in Section
    /\ production \in BOOLEAN /\ up \in BOOLEAN
    /\ NewLogger = "zap" =>
        Config \in [console : BOOLEAN, file : BOOLEAN, errorFile : BOOLEAN, name : FileName,
                    errorName : FileName, level : Level, maxSize : Nat \ {0},
                    maxBackups : Nat \ {0}, maxAge : Nat \ {0}]
    /\ starts \in 1..MaxStarts
    /\ records \in Seq([level : Emitted, paired : BOOLEAN])
    /\ console \subseteq DOMAIN records
    /\ aged \in 0..Len(records)
    /\ disk.content \in Seq(Seq(DOMAIN records))
    /\ disk.named \in [FileName -> 0..Len(disk.content)]
    /\ disk.backups \in [FileName -> Seq(DOMAIN disk.content)]
    /\ disk.writer \in [Writer -> [file : 0..Len(disk.content), size : Nat, mill : BOOLEAN]]

LogInit ==
    /\ section \in Section
    /\ production \in BOOLEAN
    /\ up = TRUE
    /\ starts = 1
    /\ records = <<>>
    /\ console = {}
    /\ aged = 0
    /\ disk = [content |-> <<>>, named |-> [n \in FileName |-> 0],
               backups |-> [n \in FileName |-> <<>>],
               writer |-> [w \in Writer |-> Closed]]

Stop(d) == [d EXCEPT !.writer = [w \in Writer |-> Closed]]

\* Logger.Log: keys without values are reported at level "warn".
LoggedLevel(level, paired) == IF paired THEN level ELSE "warn"

\* The cores take the record in the order in which NewZapLogger lists them;
\* the one of the error file ignores the configured level.
Tee(d, logged, r) ==
    LET log == IF Enabled("log") /\ Rank(logged) >= Rank(Config.level)
               THEN Written(d, "log", r) ELSE d
    IN  IF Enabled("errors") /\ Rank(logged) >= Rank("error")
        THEN Written(log, "errors", r) ELSE log

\* The logger of kratos writes everything to standard output; the nil logger
\* ends the process (log.With does not test it).
Log(level, paired) ==
    LET r == Len(records) + 1
        logged == LoggedLevel(level, paired)
    IN  /\ up
        /\ Len(records) < MaxRecords
        /\ records' = Append(records, [level |-> level, paired |-> paired])
        /\ console' =
            IF \/ NewLogger = "std"
               \/ NewLogger = "zap" /\ Config.console /\ Rank(logged) >= Rank(Config.level)
            THEN console \cup {r} ELSE console
        /\ up' = (NewLogger # "nil" /\ level # "fatal")
        /\ LET d == IF NewLogger = "zap" THEN Tee(disk, logged, r) ELSE disk
           IN  disk' = IF up' THEN d ELSE Stop(d)
        /\ UNCHANGED <<section, production, starts, aged>>

\* How many of the backups b are too many.  Zero means all are kept.
SurplusOf(b) ==
    IF Config.maxBackups = 0 \/ Len(b) < Config.maxBackups THEN 0
    ELSE Len(b) - Config.maxBackups

\* The file that was opened when the backup i of n was rotated.
NextFile(d, n, i) == IF i = Len(d.backups[n]) THEN d.named[n] ELSE d.backups[n][i + 1]

\* The backups that were rotated too long ago: before a record that is that old.
Outdated(d, n) ==
    IF Config.maxAge = 0 THEN {}
    ELSE {i \in DOMAIN d.backups[n] :
            \E r \in ToSet(d.content[NextFile(d, n, i)]) : r <= aged}

\* The goroutine of a writer removes the oldest backups, by their number and by age.
RemoveOld(w) ==
    LET n == Target(w)
        remove == {SurplusOf(disk.backups[n])} \cup Outdated(disk, n)
    IN  /\ disk.writer[w].mill
        /\ \E last \in remove :
            /\ \A i \in remove : i <= last
            /\ disk' = [disk EXCEPT !.writer[w].mill = FALSE,
                                   !.backups[n] = SubSeq(@, last + 1, Len(@))]
        /\ UNCHANGED <<section, production, up, starts, records, console, aged>>

\* Files become older: whatever max_age is, some day they were opened too long ago.
TimePasses ==
    /\ \E content \in ToSet(disk.content) \ {<<>>} : content[1] > aged /\ aged' = content[1]
    /\ UNCHANGED <<section, production, up, starts, records, console, disk>>

Crash ==
    /\ up
    /\ up' = FALSE
    /\ disk' = Stop(disk)
    /\ UNCHANGED <<section, production, starts, records, console, aged>>

Restart ==
    /\ ~ up /\ starts < MaxStarts
    /\ up' = TRUE
    /\ starts' = starts + 1
    /\ UNCHANGED <<section, production, records, console, disk, aged>>

LogNext ==
    \/ \E level \in Emitted, paired \in BOOLEAN : Log(level, paired)
    \/ \E w \in Writer : RemoveOld(w)
    \/ TimePasses \/ Crash \/ Restart

Fairness == \A w \in Writer : WF_logVars(RemoveOld(w))

LogSpec == LogInit /\ [][LogNext]_logVars
FairSpec == LogSpec /\ Fairness

-----------------------------------------------------------------------------
(* Properties *)

Apart == Config.name # Config.errorName

IsError(r) == records[r].paired /\ Rank(records[r].level) >= Rank("error")

Errors == {r \in DOMAIN records : IsError(r)}

\* Backups are at least this long: a file that is one short of its size is
\* rotated when it is opened again.
BackupSize == IF Config.maxSize = 1 THEN 1 ELSE Config.maxSize - 1

\* Whatever is logged around them, by whatever number of processes, the latest errors
\* are in the error file or its backups: as many as the configured backups hold, as
\* long as they are not older than max_age days (option.go:38).
LatestErrorsAreKept ==
    Enabled("errors") /\ Apart =>
        \A r \in Errors :
            r > aged /\ Cardinality({s \in Errors : s > r}) < Config.maxBackups * BackupSize + 1
            => r \in Kept(Config.errorName)

\* Nothing crowds errors out: the error file and its backups hold errors only, and an
\* error whose keys lack a value is none (zap_test.go:44), in any process that wrote them.
OnlyErrorsAreKept ==
    Enabled("errors") /\ Apart => Kept(Config.errorName) \subseteq Errors

\* Zero is not asked for, it is what a section says that leaves the number out.
BackupsAskedFor ==
    IF section.zap = Absent \/ section.zap.max_backups = 0 THEN DefaultMaxBackups
    ELSE section.zap.max_backups

Surplus(w) == Enabled(w) /\ Len(disk.backups[Target(w)]) > BackupsAskedFor

\* A configuration cannot ask for unlimited backups, by leaving the number out
\* least of all: surplus backups of a file that is open are removed, or the process ends.
DiskIsReclaimed ==
    \A w \in Writer : (disk.writer[w].file # 0 /\ Surplus(w)) ~> (~ up \/ ~ Surplus(w))

\* The error file is worth reading after the fact: nothing else is in it, and what
\* was logged last is.
ErrorsAreKept == LogTypeOK /\ LatestErrorsAreKept /\ OnlyErrorsAreKept
=============================================================================
